------------------------- MODULE MdBroadcastProofs -------------------------
(* What holds of MdBroadcast for every choice of its constants. *)
EXTENDS MdBroadcast, SequenceTheorems, TLAPS

\* An update time is read as a natural number.
LEMMA TimeType == ASSUME NEW time \in Nat \X Nat \X Nat
                  PROVE convert_time_str2int(time) \in Nat
  BY DEF convert_time_str2int

\* ... and so is the minute of a tick.
LEMMA MinuteType == ASSUME NEW tick \in Tick PROVE Minute(tick) \in Nat
  <1>1. tick.UpdateTime \in Nat \X Nat \X Nat
    BY ConstantsAssumption DEF Tick, ConstantsAssumption
  <1>2. convert_time_str2int(tick.UpdateTime) \in Nat  BY <1>1, TimeType
  <1>3. QED  BY <1>2 DEF Minute

\* A segment of a sequence of ticks is one, of the expected length.
LEMMA Segment == ASSUME NEW S, NEW s \in Seq(S), NEW m \in 1..Len(s) + 1, NEW n \in m - 1..Len(s)
                 PROVE /\ SubSeq(s, m, n) \in Seq(S)
                       /\ Len(SubSeq(s, m, n)) = n - m + 1
                       /\ \A j \in 1..n - m + 1 : SubSeq(s, m, n)[j] = s[m + j - 1]
  OBVIOUS

\* Erasing from the front leaves a sequence.
LEMMA EraseType == ASSUME NEW S, NEW s \in Seq(S), NEW n \in Nat
                   PROVE erase(s, n) \in Seq(S)
  <1>1. \A j \in n + 1..Len(s) : s[j] \in S  OBVIOUS
  <1>2. n + 1 \in Int /\ Len(s) \in Int  OBVIOUS
  <1>3. SubSeq(s, n + 1, Len(s)) \in Seq(S)  BY <1>1, <1>2, SubSeqProperties
  <1>4. QED  BY <1>3 DEF erase

\* The instrument the calculator goes on to is one of the subscribed.
LEMMA NextInstType == ASSUME TypeOK
                      PROVE NextInst \in [k : DOMAIN subscribe_inst_, pc : {"scan"}, n : Nat]
  <1> DEFINE L == Len(subscribe_inst_)
  <1>1. L \in Nat \ {0} /\ DOMAIN subscribe_inst_ = 1..L
    BY ConstantsAssumption DEF ConstantsAssumption
  <1>2. calc.k \in 1..L  BY <1>1 DEF TypeOK
  <1>3. (calc.k % L) + 1 \in 1..L  BY <1>1, <1>2
  <1>4. QED  BY <1>1, <1>3 DEF NextInst

LEMMA InitType == ASSUME Init PROVE TypeOK
  <1>1. 1 \in DOMAIN subscribe_inst_ BY ConstantsAssumption DEF ConstantsAssumption
  <1>2. \A day \in IF TradeTime THEN {<<>>} ELSE FakeDays : Len(day) \in Nat
    BY ConstantsAssumption DEF ConstantsAssumption
  <1>3. 1 \in 1..MaxSessions /\ 0 \in 0..MaxVolume
    BY ConstantsAssumption DEF ConstantsAssumption
  <1>4. /\ calc \in [k : DOMAIN subscribe_inst_, pc : {"scan", "erase"}, n : Nat]
        /\ market \in [Ins -> [UpdateTime : Nat \X Nat \X Nat, Volume : 0..MaxVolume]]
        /\ sub_ticks_ \in Seq(Tick) /\ Len(sub_ticks_) = 0
    BY <1>1, <1>3 DEF Init
  <1>5. /\ tick_base_ \in [Ins -> Seq(Tick)] /\ accepted \in [Ins -> Seq(Tick)]
        /\ candles \in [Ins -> Seq(Candle)]
    BY DEF Init
  <1>6. data_index \in 0..Len(instrument_tick_one_day)
    BY <1>2 DEF Init
  <1>7. /\ mtk_open_ \in [Ins -> BOOLEAN] /\ taken \in [Ins -> Nat]
        /\ restarted \in BOOLEAN /\ aborted \in BOOLEAN
    BY DEF Init
  <1>8. /\ sub_mutex_ \in {"free", "fake", "distribute"} /\ dist \in 0..Len(sub_ticks_) + 1
        /\ dist # 0 <=> sub_mutex_ = "distribute"
        /\ session \in 1..MaxSessions /\ total_volum \in 0..MaxVolume
        /\ instrument_tick_one_day \in IF TradeTime THEN {<<>>} ELSE FakeDays
    BY <1>3, <1>4 DEF Init
  <1>9. QED  BY <1>4, <1>5, <1>6, <1>7, <1>8 DEF TypeOK

-----------------------------------------------------------------------------
(* Type correctness, action by action: only the variables an action changes *)
(* need an argument.                                                        *)

LEMMA FeedType == ASSUME TypeOK, Feed \/ FakeWake PROVE TypeOK'
  <1>1. ASSUME NEW i \in Ins, OnRtnDepthMarketData(i) PROVE TypeOK'
    <2>1. PICK time \in Times, volume \in 0..MaxVolume :
            /\ sub_ticks_' = Append(sub_ticks_,
                 [InstrumentID |-> i, TradingDay |-> session,
                  UpdateTime |-> time, Volume |-> volume])
            /\ market' = [market EXCEPT ![i] = [UpdateTime |-> time, Volume |-> volume]]
      BY <1>1 DEF OnRtnDepthMarketData
    <2>2. [InstrumentID |-> i, TradingDay |-> session,
           UpdateTime |-> time, Volume |-> volume] \in Tick
      BY DEF Tick, TypeOK
    <2>3. /\ sub_ticks_' \in Seq(Tick) /\ Len(sub_ticks_') = Len(sub_ticks_) + 1
      BY <2>1, <2>2 DEF TypeOK
    <2>4. market' \in [Ins -> [UpdateTime : Nat \X Nat \X Nat, Volume : 0..MaxVolume]]
      BY <2>1, ConstantsAssumption DEF TypeOK, ConstantsAssumption
    <2>5. dist' \in 0..Len(sub_ticks_') + 1
      BY <1>1, <2>3 DEF OnRtnDepthMarketData, TypeOK
    <2>6. QED
      BY <1>1, <2>3, <2>4, <2>5 DEF OnRtnDepthMarketData, TypeOK, basevars
  <1>2. ASSUME NewSession PROVE TypeOK'
    <2>1. market' \in [Ins -> [UpdateTime : Nat \X Nat \X Nat, Volume : 0..MaxVolume]]
      BY <1>2, ConstantsAssumption DEF NewSession, ConstantsAssumption
    <2>2. session' \in 1..MaxSessions
      BY <1>2, ConstantsAssumption DEF NewSession, TypeOK, ConstantsAssumption
    <2>3. restarted' \in BOOLEAN
      BY <1>2 DEF NewSession, TypeOK
    <2>4. QED
      BY <1>2, <2>1, <2>2, <2>3 DEF NewSession, TypeOK, basevars, subvars
  <1>3. ASSUME distribute_fake_tick_function PROVE TypeOK'
    <2> DEFINE day == instrument_tick_one_day
               row == day[row_index + 1]
    <2>1. day \in Seq(Row) /\ day # <<>> /\ Len(day) \in Nat \ {0}
      BY <1>3, ConstantsAssumption
      DEF TypeOK, ConstantsAssumption, distribute_fake_tick_function
    <2>2. row_index \in 0..Len(day) - 1
      <3>1. data_index \in Nat BY DEF TypeOK
      <3>2. data_index % Len(day) \in 0..Len(day) - 1  BY <2>1, <3>1
      <3>3. QED  BY <2>1, <3>1, <3>2 DEF row_index
    <2>3. row \in Row
      BY <2>1, <2>2
    <2>4. total_volum' \in 0..MaxVolume
      <3>1. total_volum' = total_volum + row.Volume /\ total_volum' <= MaxVolume
        BY <1>3 DEF distribute_fake_tick_function
      <3>2. row.Volume \in Nat  BY <2>3 DEF Row
      <3>3. total_volum \in Nat /\ MaxVolume \in Nat
        BY ConstantsAssumption DEF TypeOK, ConstantsAssumption
      <3>4. QED  BY <3>1, <3>2, <3>3
    <2>5. [InstrumentID |-> row.InstrumentID, TradingDay |-> 1,
           UpdateTime |-> row.UpdateTime, Volume |-> total_volum'] \in Tick
      BY <2>3, <2>4, ConstantsAssumption DEF Row, Tick, ConstantsAssumption
    <2>6. sub_ticks_' \in Seq(Tick) /\ Len(sub_ticks_') = Len(sub_ticks_) + 1
      BY <1>3, <2>5 DEF distribute_fake_tick_function, TypeOK
    <2>7. dist' \in 0..Len(sub_ticks_') + 1 /\ sub_mutex_' = "fake" /\ dist' = 0
      BY <1>3, <2>6 DEF distribute_fake_tick_function, TypeOK, SubFree
    <2>8. data_index' \in 0..Len(day)
      BY <1>3, <2>1, <2>2 DEF distribute_fake_tick_function
    <2>9. restarted' \in BOOLEAN
      BY <1>3 DEF distribute_fake_tick_function, TypeOK
    <2>10. QED
      BY <1>3, <2>4, <2>6, <2>7, <2>8, <2>9
      DEF distribute_fake_tick_function, TypeOK, basevars
  <1>4. ASSUME FakeWake PROVE TypeOK'
    BY <1>4 DEF FakeWake, TypeOK, basevars, feedvars
  <1>5. QED  BY <1>1, <1>2, <1>3, <1>4 DEF Feed

LEMMA DistributorType == ASSUME TypeOK, Distributor PROVE TypeOK'
  <1>1. ASSUME DistLock PROVE TypeOK'
    BY <1>1 DEF DistLock, TypeOK, basevars, feedvars
  <1>2. ASSUME DistDone PROVE TypeOK'
    BY <1>2 DEF DistDone, TypeOK, basevars, feedvars
  <1>3. ASSUME NEW i \in Ins, DistPush(i) PROVE TypeOK'
    <2>1. /\ sub_ticks_[dist] \in Tick
          /\ dist' \in 0..Len(sub_ticks_) + 1 /\ dist' # 0
      BY SMTT(60), <1>3 DEF DistPush, Distributing, TypeOK
    <2>2. tick_base_' \in [Ins -> Seq(Tick)] /\ accepted' \in [Ins -> Seq(Tick)]
      <3>1. \/ /\ tick_base_' = [tick_base_ EXCEPT ![i] = Append(@, sub_ticks_[dist])]
               /\ accepted' = [accepted EXCEPT ![i] = Append(@, sub_ticks_[dist])]
            \/ UNCHANGED <<tick_base_, accepted>>
        BY <1>3 DEF DistPush, tick_base_pushback
      <3>2. tick_base_ \in [Ins -> Seq(Tick)] /\ accepted \in [Ins -> Seq(Tick)]
        BY DEF TypeOK
      <3>3. CASE UNCHANGED <<tick_base_, accepted>>  BY <3>2, <3>3
      <3>4. CASE /\ tick_base_' = [tick_base_ EXCEPT ![i] = Append(@, sub_ticks_[dist])]
                 /\ accepted' = [accepted EXCEPT ![i] = Append(@, sub_ticks_[dist])]
        <4>1. /\ Append(tick_base_[i], sub_ticks_[dist]) \in Seq(Tick)
              /\ Append(accepted[i], sub_ticks_[dist]) \in Seq(Tick)
          BY <2>1, <3>2
        <4>2. QED  BY <3>2, <3>4, <4>1
      <3>5. QED  BY <3>1, <3>3, <3>4
    <2>3. check_mtk_time(sub_ticks_[dist].UpdateTime) \in BOOLEAN
      BY DEF check_mtk_time
    <2>4. mtk_open_' \in [Ins -> BOOLEAN]
      BY <1>3, <2>3 DEF DistPush, tick_base_pushback, TypeOK
    <2>5. taken' \in [Ins -> Nat]
      BY <1>3 DEF DistPush, tick_base_pushback, TypeOK
    <2>6. QED
      BY <1>3, <2>1, <2>2, <2>4, <2>5 DEF DistPush, Distributing, TypeOK, feedvars
  <1>4. ASSUME NEW i \in Ins, DistAbort(i) PROVE TypeOK'
    BY <1>4 DEF DistAbort, TypeOK, subvars, basevars, feedvars
  <1>5. QED  BY <1>1, <1>2, <1>3, <1>4 DEF Distributor

\* The bar made of a minute's ticks is a candle.
LEMMA CandleType == ASSUME TypeOK, NEW ticks \in Seq(Tick), ticks # <<>>
                    PROVE convert_tick2min(ticks) \in Candle
  <1>1. /\ ticks[1] \in Tick /\ ticks[Len(ticks)] \in Tick
    OBVIOUS
  <1>2. Minute(Last(ticks)) \in Nat  BY <1>1, MinuteType DEF Last
  <1>3. ticks[1].TradingDay \in 1..MaxSessions  BY <1>1 DEF Tick
  <1>4. QED  BY <1>2, <1>3 DEF convert_tick2min, Candle

LEMMA CalculatorType == ASSUME TypeOK, Calculator PROVE TypeOK'
  <1> DEFINE CalcT == [k : DOMAIN subscribe_inst_, pc : {"scan", "erase"}, n : Nat]
  <1>n. NextInst \in CalcT  BY NextInstType
  <1>1. ASSUME NEW i \in Ins, CalcSkip(i) PROVE TypeOK'
    BY <1>1, <1>n DEF CalcSkip, TypeOK, subvars, basevars, feedvars
  <1>2. ASSUME NEW i \in Ins, CalcPublish(i) PROVE TypeOK'
    <2>1. PICK n \in 1..Len(tick_base_[i]) - 1 :
            /\ candles' = [candles EXCEPT ![i] =
                              Append(@, convert_tick2min(SubSeq(tick_base_[i], 1, n)))]
            /\ calc' = [calc EXCEPT !.pc = "erase", !.n = n]
      BY <1>2 DEF CalcPublish
    <2>2. tick_base_[i] \in Seq(Tick) /\ Len(tick_base_[i]) \in Nat
      BY DEF TypeOK
    <2>3. /\ SubSeq(tick_base_[i], 1, n) \in Seq(Tick)
          /\ SubSeq(tick_base_[i], 1, n) # <<>>
          /\ n \in Nat
      <3>1. 1 \in 1..Len(tick_base_[i]) + 1 /\ n \in 1 - 1..Len(tick_base_[i]) /\ n > 0
        BY <2>2
      <3>2. /\ SubSeq(tick_base_[i], 1, n) \in Seq(Tick)
            /\ Len(SubSeq(tick_base_[i], 1, n)) = n - 1 + 1
        BY <2>2, <3>1, Segment
      <3>3. QED  BY <3>1, <3>2
    <2>4. convert_tick2min(SubSeq(tick_base_[i], 1, n)) \in Candle
      BY <2>2, <2>3, CandleType
    <2>5. candles' \in [Ins -> Seq(Candle)]
      BY <2>1, <2>4 DEF TypeOK
    <2>6. calc' \in CalcT
      BY <2>1, <2>3 DEF TypeOK
    <2>7. QED  BY SMTT(60), <1>2, <2>5, <2>6 DEF CalcPublish, TypeOK, subvars, basevars, feedvars
  <1>3. ASSUME NEW i \in Ins, CalcErase(i) PROVE TypeOK'
    <2>1. calc.n \in Nat /\ tick_base_[i] \in Seq(Tick)  BY DEF TypeOK
    <2>2. erase(tick_base_[i], calc.n) \in Seq(Tick)  BY <2>1, EraseType
    <2>3. tick_base_' \in [Ins -> Seq(Tick)] /\ taken' \in [Ins -> Nat]
      <3>1. tick_base_ \in [Ins -> Seq(Tick)] /\ taken \in [Ins -> Nat]
        BY DEF TypeOK
      <3>2. /\ tick_base_' = [tick_base_ EXCEPT ![i] = erase(@, calc.n)]
            /\ taken' = [taken EXCEPT ![i] = @ + calc.n]
        BY <1>3 DEF CalcErase
      <3>3. QED  BY <2>1, <2>2, <3>1, <3>2
    <2>4. QED  BY <1>3, <1>n, <2>3 DEF CalcErase, TypeOK, subvars, feedvars
  <1>4. ASSUME NEW i \in Ins, CalcNoTail(i) PROVE TypeOK'
    <2>1. tick_base_' \in [Ins -> Seq(Tick)] /\ taken' \in [Ins -> Nat]
      <3>1. \/ /\ tick_base_' = [tick_base_ EXCEPT ![i] = <<>>]
               /\ taken' = [taken EXCEPT ![i] = @ + Len(tick_base_[i])]
            \/ UNCHANGED <<tick_base_, taken>>
        BY <1>4 DEF CalcNoTail
      <3>2. tick_base_ \in [Ins -> Seq(Tick)] /\ taken \in [Ins -> Nat]
        BY DEF TypeOK
      <3>3. Len(tick_base_[i]) \in Nat /\ <<>> \in Seq(Tick)  BY <3>2
      <3>4. taken[i] + Len(tick_base_[i]) \in Nat  BY <3>2, <3>3
      <3>5. CASE UNCHANGED <<tick_base_, taken>>  BY <3>2, <3>5
      <3>6. CASE /\ tick_base_' = [tick_base_ EXCEPT ![i] = <<>>]
                 /\ taken' = [taken EXCEPT ![i] = @ + Len(tick_base_[i])]
        BY <3>2, <3>3, <3>4, <3>6
      <3>7. QED  BY <3>1, <3>5, <3>6
    <2>2. QED  BY <1>4, <1>n, <2>1 DEF CalcNoTail, TypeOK, subvars, feedvars
  <1>5. ASSUME NEW i \in Ins, CalcAbort(i) PROVE TypeOK'
    BY <1>5 DEF CalcAbort, TypeOK, subvars, basevars, feedvars
  <1>6. QED  BY <1>1, <1>2, <1>3, <1>4, <1>5 DEF Calculator, Calculate

\* Type correctness for any number of instruments, ticks and days.
THEOREM TypeCorrect == Spec => []TypeOK
  <1>1. Init => TypeOK  BY InitType
  <1>2. TypeOK /\ [Next]_vars => TypeOK'
    <2>1. TypeOK /\ UNCHANGED vars => TypeOK'
      BY DEF TypeOK, vars, subvars, basevars, feedvars
    <2>2. QED  BY <2>1, FeedType, DistributorType, CalculatorType DEF Next
  <1>3. QED  BY <1>1, <1>2, PTL DEF Spec

\* The feed's steps are not among those of a distribution under way: it holds
\* sub_mutex_ as long as it has a place in sub_ticks_.
LEMMA IteratorStep == ASSUME TypeOK, [Next]_vars
                      PROVE dist # 0 /\ dist' # 0 => sub_ticks_' = sub_ticks_
  <1>1. SubFree => dist = 0  BY DEF SubFree, TypeOK
  <1>2. CASE Feed
    BY <1>1, <1>2 DEF Feed, NewSession, distribute_fake_tick_function, OnRtnDepthMarketData, subvars
  <1>3. CASE FakeWake  BY <1>3 DEF FakeWake
  <1>4. CASE Distributor
    BY <1>4 DEF Distributor, DistLock, DistDone, DistPush, DistAbort, subvars
  <1>5. CASE Calculator
    BY <1>5 DEF Calculator, Calculate, CalcSkip, CalcPublish, CalcErase, CalcNoTail, CalcAbort, subvars
  <1>6. CASE UNCHANGED vars  BY <1>6 DEF vars, subvars
  <1>7. QED  BY <1>2, <1>3, <1>4, <1>5, <1>6 DEF Next

\* Nothing is appended to sub_ticks_ while the distributor walks it, for any
\* number of instruments and ticks and in both builds.
THEOREM NoAppendUnderTheIterator == Spec => NoAppendWhileIterating
  <1>1. TypeOK /\ [Next]_vars
        => [dist # 0 /\ dist' # 0 => sub_ticks_' = sub_ticks_]_vars
    BY IteratorStep
  <1>2. QED  BY <1>1, TypeCorrect, PTL DEF Spec, NoAppendWhileIterating

-----------------------------------------------------------------------------
(* No tick is lost or used twice between tick_base_ and the bars.           *)

\* What an erasure from the front leaves.
LEMMA EraseContents == ASSUME NEW S, NEW s \in Seq(S), NEW n \in 0..Len(s)
                       PROVE /\ Len(erase(s, n)) = Len(s) - n
                             /\ \A j \in 1..Len(s) - n : erase(s, n)[j] = s[n + j]
  <1>1. n + 1 \in 1..Len(s) + 1 /\ Len(s) \in n + 1 - 1..Len(s) /\ Len(s) \in Nat  OBVIOUS
  <1>2. /\ Len(SubSeq(s, n + 1, Len(s))) = Len(s) - (n + 1) + 1
        /\ \A j \in 1..Len(s) - (n + 1) + 1 :
              SubSeq(s, n + 1, Len(s))[j] = s[n + 1 + j - 1]
    BY <1>1, Segment
  <1>3. QED  BY <1>1, <1>2 DEF erase

\* A step of the distributor or the feed leaves the calculator and its
\* locks alone; only DistPush touches tick_base_ and accepted.
LEMMA PushAccounted == ASSUME TypeOK, Accounted, NEW i \in Ins, DistPush(i)
                       PROVE Accounted'
  <1> DEFINE dt == sub_ticks_[dist]
  <1>1. /\ tick_base_ \in [Ins -> Seq(Tick)] /\ accepted \in [Ins -> Seq(Tick)]
        /\ taken \in [Ins -> Nat]
    BY DEF TypeOK
  <1>2. /\ \/ /\ tick_base_' = [tick_base_ EXCEPT ![i] = Append(@, dt)]
              /\ accepted' = [accepted EXCEPT ![i] = Append(@, dt)]
           \/ UNCHANGED <<tick_base_, accepted>>
        /\ UNCHANGED <<taken, calc>>
        /\ ~TickLocked(i)
        /\ \A x \in Ins : TickLocked(x)' <=> TickLocked(x)
    BY DEF DistPush, tick_base_pushback, Distributing, TickLocked, Inst
  <1>3. CASE UNCHANGED <<tick_base_, accepted>>
    BY <1>2, <1>3 DEF Accounted
  <1>4. CASE /\ tick_base_' = [tick_base_ EXCEPT ![i] = Append(@, dt)]
             /\ accepted' = [accepted EXCEPT ![i] = Append(@, dt)]
    <2> SUFFICES ASSUME NEW x \in Ins
                 PROVE /\ Len(accepted'[x]) = taken'[x] + Len(tick_base_'[x])
                       /\ \A j \in 1..Len(tick_base_'[x]) :
                            tick_base_'[x][j] = accepted'[x][taken'[x] + j]
                       /\ TickLocked(x)' => calc'.n \in 1..Len(tick_base_'[x]) - 1
      BY DEF Accounted
    <2>1. /\ Len(accepted[x]) = taken[x] + Len(tick_base_[x])
          /\ \A j \in 1..Len(tick_base_[x]) : tick_base_[x][j] = accepted[x][taken[x] + j]
          /\ TickLocked(x) => calc.n \in 1..Len(tick_base_[x]) - 1
      BY DEF Accounted
    <2>2. CASE x # i
      BY <1>1, <1>2, <1>4, <2>1, <2>2
    <2>3. CASE x = i
      <3>1. /\ tick_base_'[x] = Append(tick_base_[x], dt)
            /\ accepted'[x] = Append(accepted[x], dt)
            /\ taken'[x] = taken[x] /\ ~TickLocked(x)'
        BY <1>1, <1>2, <1>4, <2>3
      <3>2. tick_base_[x] \in Seq(Tick) /\ accepted[x] \in Seq(Tick) /\ taken[x] \in Nat
        BY <1>1
      <3>3. /\ Len(tick_base_'[x]) = Len(tick_base_[x]) + 1
            /\ Len(accepted'[x]) = Len(accepted[x]) + 1
            /\ \A j \in 1..Len(tick_base_[x]) : tick_base_'[x][j] = tick_base_[x][j]
            /\ \A j \in 1..Len(accepted[x]) : accepted'[x][j] = accepted[x][j]
            /\ tick_base_'[x][Len(tick_base_[x]) + 1] = dt
            /\ accepted'[x][Len(accepted[x]) + 1] = dt
        BY <3>1, <3>2
      <3>4. Len(tick_base_[x]) \in Nat /\ Len(accepted[x]) \in Nat  BY <3>2
      <3>5. Len(accepted'[x]) = taken'[x] + Len(tick_base_'[x])
        BY <2>1, <3>1, <3>2, <3>3, <3>4
      <3>6. ASSUME NEW j \in 1..Len(tick_base_'[x])
            PROVE tick_base_'[x][j] = accepted'[x][taken'[x] + j]
        <4>1. CASE j = Len(tick_base_[x]) + 1
          BY <2>1, <3>1, <3>2, <3>3, <3>4, <4>1
        <4>2. CASE j \in 1..Len(tick_base_[x])
          <5>1. taken[x] + j \in 1..Len(accepted[x])  BY <2>1, <3>2, <3>4, <4>2
          <5>2. QED  BY <2>1, <3>1, <3>3, <4>2, <5>1
        <4>3. QED  BY <3>3, <3>4, <4>1, <4>2
      <3>7. QED  BY <3>1, <3>5, <3>6
    <2>4. QED  BY <2>2, <2>3
  <1>5. QED  BY <1>2, <1>3, <1>4

LEMMA PublishAccounted == ASSUME TypeOK, Accounted, NEW i \in Ins, CalcPublish(i)
                          PROVE Accounted'
  <1>1. PICK n \in 1..Len(tick_base_[i]) - 1 : calc' = [calc EXCEPT !.pc = "erase", !.n = n]
    BY DEF CalcPublish
  <1>2. /\ UNCHANGED <<tick_base_, accepted, taken>> /\ Inst = i
    BY DEF CalcPublish, Calculating, basevars
  <1>3. /\ calc'.n = n /\ calc'.k = calc.k
    BY <1>1 DEF TypeOK
  <1>4. \A x \in Ins : TickLocked(x)' => x = i
    BY <1>2, <1>3 DEF TickLocked, Inst
  <1>5. QED  BY <1>2, <1>3, <1>4 DEF Accounted

\* After an erasure no instrument is locked.
LEMMA EraseAccounted == ASSUME TypeOK, Accounted, NEW i \in Ins, CalcErase(i)
                        PROVE Accounted'
  <1>1. /\ tick_base_ \in [Ins -> Seq(Tick)] /\ accepted \in [Ins -> Seq(Tick)]
        /\ taken \in [Ins -> Nat]
    BY DEF TypeOK
  <1>2. /\ tick_base_' = [tick_base_ EXCEPT ![i] = erase(@, calc.n)]
        /\ taken' = [taken EXCEPT ![i] = @ + calc.n]
        /\ accepted' = accepted
        /\ calc' = NextInst /\ TickLocked(i)
    BY DEF CalcErase
  <1>3. \A x \in Ins : ~TickLocked(x)'
    BY <1>2 DEF NextInst, TickLocked
  <1>4. ASSUME NEW x \in Ins
        PROVE /\ Len(accepted'[x]) = taken'[x] + Len(tick_base_'[x])
              /\ \A j \in 1..Len(tick_base_'[x]) : tick_base_'[x][j] = accepted'[x][taken'[x] + j]
    <2>1. /\ Len(accepted[x]) = taken[x] + Len(tick_base_[x])
          /\ \A j \in 1..Len(tick_base_[x]) : tick_base_[x][j] = accepted[x][taken[x] + j]
          /\ TickLocked(x) => calc.n \in 1..Len(tick_base_[x]) - 1
      BY DEF Accounted
    <2>2. CASE x # i  BY <1>1, <1>2, <2>1, <2>2
    <2>3. CASE x = i
      <3>1. /\ tick_base_'[x] = erase(tick_base_[x], calc.n)
            /\ taken'[x] = taken[x] + calc.n
            /\ accepted'[x] = accepted[x]
        BY <1>1, <1>2, <2>3
      <3>2. /\ calc.n \in 0..Len(tick_base_[x]) /\ calc.n \in Nat
            /\ tick_base_[x] \in Seq(Tick) /\ Len(tick_base_[x]) \in Nat /\ taken[x] \in Nat
        BY <1>1, <1>2, <2>1, <2>3
      <3>3. /\ Len(tick_base_'[x]) = Len(tick_base_[x]) - calc.n
            /\ \A j \in 1..Len(tick_base_[x]) - calc.n :
                  tick_base_'[x][j] = tick_base_[x][calc.n + j]
        <4>1. \A t \in Seq(Tick) : \A n \in 0..Len(t) :
                 /\ Len(erase(t, n)) = Len(t) - n
                 /\ \A j \in 1..Len(t) - n : erase(t, n)[j] = t[n + j]
          BY EraseContents
        <4>2. /\ Len(erase(tick_base_[x], calc.n)) = Len(tick_base_[x]) - calc.n
              /\ \A j \in 1..Len(tick_base_[x]) - calc.n :
                    erase(tick_base_[x], calc.n)[j] = tick_base_[x][calc.n + j]
          BY <3>2, <4>1
        <4>3. QED  BY <3>1, <4>2
      <3>4. Len(accepted'[x]) = taken'[x] + Len(tick_base_'[x])
        BY <2>1, <3>1, <3>2, <3>3
      <3>5. ASSUME NEW j \in 1..Len(tick_base_'[x])
            PROVE tick_base_'[x][j] = accepted'[x][taken'[x] + j]
        <4>1. calc.n + j \in 1..Len(tick_base_[x])  BY <3>2, <3>3
        <4>2. tick_base_[x][calc.n + j] = accepted[x][taken[x] + (calc.n + j)]  BY <2>1, <4>1
        <4>3. taken[x] + (calc.n + j) = taken'[x] + j  BY <3>1, <3>2
        <4>4. QED  BY <3>1, <3>3, <4>2, <4>3
      <3>6. QED  BY <3>4, <3>5
    <2>4. QED  BY <2>2, <2>3
  <1>5. QED  BY <1>3, <1>4 DEF Accounted

LEMMA NoTailAccounted == ASSUME TypeOK, Accounted, NEW i \in Ins, CalcNoTail(i)
                         PROVE Accounted'
  <1>1. /\ tick_base_ \in [Ins -> Seq(Tick)] /\ taken \in [Ins -> Nat]
    BY DEF TypeOK
  <1>2. /\ \/ /\ tick_base_' = [tick_base_ EXCEPT ![i] = <<>>]
              /\ taken' = [taken EXCEPT ![i] = @ + Len(tick_base_[i])]
           \/ UNCHANGED <<tick_base_, taken>>
        /\ accepted' = accepted
        /\ calc' = NextInst
    BY DEF CalcNoTail
  <1>3. \A x \in Ins : ~TickLocked(x)'
    BY <1>2 DEF NextInst, TickLocked
  <1>4. CASE UNCHANGED <<tick_base_, taken>>
    BY <1>2, <1>3, <1>4 DEF Accounted
  <1>5. CASE /\ tick_base_' = [tick_base_ EXCEPT ![i] = <<>>]
             /\ taken' = [taken EXCEPT ![i] = @ + Len(tick_base_[i])]
    <2>1. ASSUME NEW x \in Ins
          PROVE /\ Len(accepted'[x]) = taken'[x] + Len(tick_base_'[x])
                /\ \A j \in 1..Len(tick_base_'[x]) : tick_base_'[x][j] = accepted'[x][taken'[x] + j]
      <3>1. CASE x # i  BY <1>1, <1>2, <1>5, <3>1 DEF Accounted
      <3>2. CASE x = i
        <4>1. tick_base_'[x] = <<>> /\ taken'[x] = taken[x] + Len(tick_base_[x])
          BY <1>1, <1>5, <3>2
        <4>2. Len(tick_base_[x]) \in Nat /\ taken[x] \in Nat  BY <1>1
        <4>3. Len(tick_base_'[x]) = 0 /\ 1..Len(tick_base_'[x]) = {}  BY <4>1
        <4>4. Len(accepted[x]) = taken[x] + Len(tick_base_[x])  BY DEF Accounted
        <4>5. QED  BY <1>2, <4>1, <4>2, <4>3, <4>4
      <3>3. QED  BY <3>1, <3>2
    <2>2. QED  BY <1>3, <2>1 DEF Accounted
  <1>6. QED  BY <1>2, <1>4, <1>5

LEMMA AccountedStep == ASSUME TypeOK, Accounted, [Next]_vars PROVE Accounted'
  <1> USE DEF Accounted, TickLocked, Inst, basevars
  <1>1. ASSUME NEW i \in Ins, OnRtnDepthMarketData(i) PROVE Accounted'
    BY <1>1 DEF OnRtnDepthMarketData
  <1>2. ASSUME NewSession PROVE Accounted'
    BY <1>2 DEF NewSession
  <1>3. ASSUME distribute_fake_tick_function PROVE Accounted'
    BY <1>3 DEF distribute_fake_tick_function
  <1>4. ASSUME FakeWake PROVE Accounted'
    BY <1>4 DEF FakeWake
  <1>5. ASSUME DistLock PROVE Accounted'
    BY <1>5 DEF DistLock
  <1>6. ASSUME DistDone PROVE Accounted'
    BY <1>6 DEF DistDone
  <1>7. ASSUME NEW i \in Ins, DistAbort(i) PROVE Accounted'
    BY <1>7 DEF DistAbort
  <1>8. ASSUME NEW i \in Ins, CalcSkip(i) PROVE Accounted'
    BY <1>8 DEF CalcSkip, NextInst
  <1>9. ASSUME NEW i \in Ins, CalcAbort(i) PROVE Accounted'
    BY <1>9 DEF CalcAbort
  <1>10. ASSUME UNCHANGED vars PROVE Accounted'
    BY <1>10 DEF vars
  <1>11. QED
    BY <1>1, <1>2, <1>3, <1>4, <1>5, <1>6, <1>7, <1>8, <1>9, <1>10, PushAccounted,
       PublishAccounted, EraseAccounted, NoTailAccounted
    DEF Next, Feed, Distributor, Calculator, Calculate

\* Every tick is accounted for, in order, in every run of the three threads.
THEOREM AlwaysAccounted == Spec => []Accounted
  <1>1. Init => Accounted
    BY DEF Init, Accounted, TickLocked
  <1>2. TypeOK /\ Accounted /\ [Next]_vars => Accounted'
    BY AccountedStep
  <1>3. QED  BY <1>1, <1>2, TypeCorrect, PTL DEF Spec

-----------------------------------------------------------------------------
(* CMdBroadCast implements MinuteBars.                                      *)

\* The cut points move only when a bar is published or ticks are dumped.
LEMMA CutUnlocked == ASSUME TypeOK, \A x \in Ins : ~TickLocked(x)
                     PROVE cutpoint = taken
  <1>1. cutpoint = [x \in Ins |-> taken[x] + 0]  BY DEF cutpoint
  <1>2. taken \in [Ins -> Nat]  BY DEF TypeOK
  <1>3. QED  BY <1>1, <1>2

LEMMA PushRefines == ASSUME TypeOK, Accounted, NEW i \in Ins, DistPush(i)
                     PROVE Bars!Accept(i)
  <1>1. sub_ticks_[dist] \in Tick
    BY DEF DistPush, Distributing, TypeOK
  <1>2. \/ \E t \in Tick : accepted' = [accepted EXCEPT ![i] = Append(@, t)]
        \/ UNCHANGED accepted
    BY <1>1 DEF DistPush, tick_base_pushback
  <1>3. \E o \in BOOLEAN : mtk_open_' = [mtk_open_ EXCEPT ![i] = o]
    <2>1. check_mtk_time(sub_ticks_[dist].UpdateTime) \in BOOLEAN  BY DEF check_mtk_time
    <2>2. QED  BY <2>1 DEF DistPush, tick_base_pushback
  <1>4. UNCHANGED <<cutpoint, candles>>
    BY DEF DistPush, tick_base_pushback, cutpoint, TickLocked, Inst
  <1>5. QED  BY <1>2, <1>3, <1>4 DEF Bars!Accept

\* A prefix of a sequence is the segment of another it agrees with.
LEMMA SameSegment == ASSUME NEW S, NEW s \in Seq(S), NEW t \in Seq(S), NEW c \in Nat,
                            NEW n \in 1..Len(s), c + n <= Len(t),
                            \A j \in 1..Len(s) : s[j] = t[c + j]
                     PROVE SubSeq(s, 1, n) = SubSeq(t, c + 1, c + n)
  <1>1. /\ 1 \in 1..Len(s) + 1 /\ n \in 1 - 1..Len(s) /\ n \in Nat
        /\ c + 1 \in 1..Len(t) + 1 /\ c + n \in c + 1 - 1..Len(t)
    OBVIOUS
  <1>2. /\ SubSeq(s, 1, n) \in Seq(S)
        /\ Len(SubSeq(s, 1, n)) = n - 1 + 1
        /\ \A j \in 1..n - 1 + 1 : SubSeq(s, 1, n)[j] = s[1 + j - 1]
    BY <1>1, Segment
  <1>3. /\ SubSeq(t, c + 1, c + n) \in Seq(S)
        /\ Len(SubSeq(t, c + 1, c + n)) = c + n - (c + 1) + 1
        /\ \A j \in 1..c + n - (c + 1) + 1 : SubSeq(t, c + 1, c + n)[j] = t[c + 1 + j - 1]
    BY <1>1, Segment
  <1>4. /\ Len(SubSeq(s, 1, n)) = n /\ Len(SubSeq(t, c + 1, c + n)) = n
        /\ \A j \in 1..n : SubSeq(s, 1, n)[j] = s[j]
        /\ \A j \in 1..n : SubSeq(t, c + 1, c + n)[j] = t[c + j]
    BY <1>1, <1>2, <1>3
  <1>5. \A j \in 1..n : SubSeq(s, 1, n)[j] = SubSeq(t, c + 1, c + n)[j]
    BY <1>4
  <1>6. QED  BY <1>2, <1>3, <1>4, <1>5, SeqEqual

LEMMA PublishRefines == ASSUME TypeOK, Accounted, NEW i \in Ins, CalcPublish(i)
                        PROVE Bars!Publish(i)
  <1> DEFINE base == tick_base_[i]
             c == taken[i]
  <1>1. PICK n \in 1..Len(base) - 1 :
          /\ TailAt(base, n)
          /\ candles' = [candles EXCEPT ![i] = Append(@, convert_tick2min(SubSeq(base, 1, n)))]
          /\ calc' = [calc EXCEPT !.pc = "erase", !.n = n]
    BY DEF CalcPublish
  <1>2. /\ base \in Seq(Tick) /\ accepted[i] \in Seq(Tick) /\ c \in Nat
        /\ Len(base) \in Nat /\ n \in Nat \ {0} /\ n < Len(base)
    BY SMTT(60) DEF TypeOK
  <1>3. /\ Len(accepted[i]) = c + Len(base)
        /\ \A j \in 1..Len(base) : base[j] = accepted[i][c + j]
    BY DEF Accounted
  <1>4. /\ \A x \in Ins : ~TickLocked(x)
        /\ Inst = i /\ UNCHANGED <<tick_base_, mtk_open_, accepted, taken>>
    BY DEF CalcPublish, Calculating, TickLocked, basevars
  <1>5. cutpoint = taken  BY <1>4, CutUnlocked
  <1>6. cutpoint' = [cutpoint EXCEPT ![i] = @ + n]
    <2>1. calc'.pc = "erase" /\ calc'.n = n /\ calc'.k = calc.k  BY <1>1 DEF TypeOK
    <2>2. \A x \in Ins : TickLocked(x)' <=> x = i
      BY <1>4, <2>1 DEF TickLocked, Inst
    <2>3. cutpoint' = [x \in Ins |-> taken[x] + (IF x = i THEN n ELSE 0)]
      BY <1>4, <2>1, <2>2 DEF cutpoint
    <2>4. taken \in [Ins -> Nat]  BY DEF TypeOK
    <2>5. cutpoint' = [x \in Ins |-> IF x = i THEN taken[x] + n ELSE taken[x]]
      BY <1>2, <2>3, <2>4
    <2>6. QED  BY <1>5, <2>4, <2>5
  <1>7. n \in 1..Len(base) /\ n + 1 \in 1..Len(base) /\ 1 \in 1..Len(base) /\ n \in 1..Len(accepted[i])
    BY <1>2, <1>3
  <1>8. Bars!IsMinute(i, n)
    <2>1. n > 0 /\ c + n < Len(accepted[i])  BY <1>2, <1>3
    <2>2. \A j \in 1..n : Minute(accepted[i][c + j]) = Minute(accepted[i][c + n])
      BY <1>1, <1>2, <1>3, <1>7 DEF TailAt, OneMinute
    <2>3. Minute(accepted[i][c + n]) < Minute(accepted[i][c + n + 1])
      <3>1. base[n + 1] = accepted[i][c + (n + 1)]  BY <1>3, <1>7
      <3>2. c + (n + 1) = c + n + 1  BY <1>2
      <3>3. QED  BY <1>1, <1>3, <1>7, <3>1, <3>2 DEF TailAt
    <2>4. QED  BY <1>5, <2>1, <2>2, <2>3 DEF Bars!IsMinute
  <1>9. convert_tick2min(SubSeq(base, 1, n)) =
          [trade_day |-> TradingDay(accepted[i][c + 1]),
           trade_time |-> 100 * Minute(accepted[i][c + n]),
           ticks |-> SubSeq(accepted[i], c + 1, c + n)]
    <2>1. SubSeq(base, 1, n) = SubSeq(accepted[i], c + 1, c + n)
      <3>1. c + n <= Len(accepted[i])  BY <1>2, <1>3
      <3> HIDE DEF base, c
      <3>2. QED  BY <1>2, <1>3, <1>7, <3>1, SameSegment
    <2>2. /\ Len(SubSeq(base, 1, n)) = n
          /\ SubSeq(base, 1, n)[1] = base[1]
          /\ SubSeq(base, 1, n)[n] = base[n]
      BY <1>2, <1>7
    <2>3. base[1] = accepted[i][c + 1] /\ base[n] = accepted[i][c + n]
      BY <1>3, <1>7
    <2>4. QED  BY <2>1, <2>2, <2>3 DEF convert_tick2min, Last, TradingDay
  <1>10. candles' = [candles EXCEPT ![i] = Append(@,
            [trade_day |-> TradingDay(accepted[i][cutpoint[i] + 1]),
             trade_time |-> 100 * Minute(accepted[i][cutpoint[i] + n]),
             ticks |-> SubSeq(accepted[i], cutpoint[i] + 1, cutpoint[i] + n)])]
    BY <1>1, <1>5, <1>9
  <1>11. QED  BY <1>4, <1>6, <1>7, <1>8, <1>10 DEF Bars!Publish

LEMMA EraseRefines == ASSUME TypeOK, NEW i \in Ins, CalcErase(i)
                      PROVE UNCHANGED Bars!mbvars
  <1>1. /\ taken' = [taken EXCEPT ![i] = @ + calc.n] /\ calc' = NextInst
        /\ TickLocked(i) /\ UNCHANGED <<accepted, candles, mtk_open_>>
    BY DEF CalcErase
  <1>2. taken \in [Ins -> Nat] /\ calc.n \in Nat  BY DEF TypeOK
  <1>3. \A x \in Ins : ~TickLocked(x)'  BY <1>1 DEF NextInst, TickLocked
  <1>4. \A x \in Ins : TickLocked(x) <=> x = i  BY <1>1 DEF TickLocked
  <1>5. cutpoint = [x \in Ins |-> taken[x] + (IF x = i THEN calc.n ELSE 0)]
    BY <1>4 DEF cutpoint
  <1>6. cutpoint' = [x \in Ins |-> taken'[x] + 0]
    BY <1>3 DEF cutpoint
  <1>7. \A x \in Ins : taken'[x] = taken[x] + (IF x = i THEN calc.n ELSE 0)
    BY <1>1, <1>2
  <1>8. \A x \in Ins : taken'[x] + 0 = taken[x] + (IF x = i THEN calc.n ELSE 0)
    BY <1>2, <1>7
  <1>9. cutpoint' = cutpoint  BY <1>5, <1>6, <1>8
  <1>10. QED  BY <1>1, <1>9 DEF Bars!mbvars

LEMMA NoTailRefines == ASSUME TypeOK, Accounted, NEW i \in Ins, CalcNoTail(i)
                       PROVE Bars!Discard(i) \/ UNCHANGED Bars!mbvars
  <1>1. /\ \A x \in Ins : ~TickLocked(x)
        /\ calc' = NextInst /\ UNCHANGED <<accepted, candles, mtk_open_>>
    BY DEF CalcNoTail, Calculating, TickLocked
  <1>2. \A x \in Ins : ~TickLocked(x)'
    BY <1>1 DEF NextInst, TickLocked
  <1>3. taken \in [Ins -> Nat]  BY DEF TypeOK
  <1>4. cutpoint = taken  BY <1>1, CutUnlocked
  <1>5. ASSUME taken' \in [Ins -> Nat] PROVE cutpoint' = taken'
    <2>1. cutpoint' = [x \in Ins |-> taken'[x] + 0]  BY <1>2 DEF cutpoint
    <2>2. \A x \in Ins : taken'[x] + 0 = taken'[x]  BY <1>5
    <2>3. QED  BY <1>5, <2>1, <2>2
  <1>6. CASE Dumps(i)
    <2>1. taken' = [taken EXCEPT ![i] = @ + Len(tick_base_[i])] /\ ~mtk_open_[i]
      BY <1>6 DEF CalcNoTail, Dumps
    <2>2. Len(tick_base_[i]) \in Nat  BY DEF TypeOK
    <2>3. taken[i] + Len(tick_base_[i]) = Len(accepted[i])  BY DEF Accounted
    <2>4. taken[i] + Len(tick_base_[i]) \in Nat  BY <1>3, <2>2
    <2>5. taken' \in [Ins -> Nat]  BY <1>3, <2>1, <2>4
    <2>6. cutpoint' = [cutpoint EXCEPT ![i] = Len(accepted[i])]
      BY <1>4, <1>5, <2>1, <2>3, <2>5
    <2>7. QED  BY <1>1, <2>1, <2>6 DEF Bars!Discard
  <1>7. CASE ~Dumps(i)
    <2>1. taken' = taken  BY <1>7 DEF CalcNoTail
    <2>2. cutpoint' = cutpoint  BY <1>3, <1>4, <1>5, <2>1
    <2>3. QED  BY <1>1, <2>2 DEF Bars!mbvars
  <1>8. QED  BY <1>6, <1>7

\* The steps that MinuteBars can see.
LEMMA StepKinds == ASSUME TypeOK, Accounted, [Next]_vars
                   PROVE \/ \E i \in Ins : DistPush(i) \/ CalcPublish(i) \/ Bars!Discard(i)
                         \/ UNCHANGED Bars!mbvars
  <1> USE DEF cutpoint, TickLocked, Inst, basevars, Bars!mbvars
  <1>1. ASSUME NEW i \in Ins, OnRtnDepthMarketData(i) PROVE UNCHANGED Bars!mbvars
    BY <1>1 DEF OnRtnDepthMarketData
  <1>2. ASSUME NewSession PROVE UNCHANGED Bars!mbvars
    BY <1>2 DEF NewSession
  <1>3. ASSUME distribute_fake_tick_function PROVE UNCHANGED Bars!mbvars
    BY <1>3 DEF distribute_fake_tick_function
  <1>4. ASSUME FakeWake PROVE UNCHANGED Bars!mbvars
    BY <1>4 DEF FakeWake
  <1>5. ASSUME DistLock PROVE UNCHANGED Bars!mbvars
    BY <1>5 DEF DistLock
  <1>6. ASSUME DistDone PROVE UNCHANGED Bars!mbvars
    BY <1>6 DEF DistDone
  <1>7. ASSUME NEW i \in Ins, DistAbort(i) PROVE UNCHANGED Bars!mbvars
    BY <1>7 DEF DistAbort
  <1>8. ASSUME NEW i \in Ins, CalcSkip(i) PROVE UNCHANGED Bars!mbvars
    BY <1>8 DEF CalcSkip, NextInst, Calculating
  <1>9. ASSUME NEW i \in Ins, CalcAbort(i) PROVE UNCHANGED Bars!mbvars
    BY <1>9 DEF CalcAbort
  <1>10. ASSUME UNCHANGED vars PROVE UNCHANGED Bars!mbvars
    BY <1>10 DEF vars
  <1>11. QED
    BY <1>1, <1>2, <1>3, <1>4, <1>5, <1>6, <1>7, <1>8, <1>9, <1>10, EraseRefines, NoTailRefines
    DEF Next, Feed, Distributor, Calculator, Calculate

LEMMA StepRefines == ASSUME TypeOK, Accounted, [Next]_vars
                     PROVE [Bars!Next]_(Bars!mbvars)
  BY StepKinds, PushRefines, PublishRefines DEF Bars!Next

\* CMdBroadCast, with its threads, locks and buffers, implements MinuteBars:
\* whatever the feed sends, each bar is exactly the next ticks of one minute.
THEOREM Refinement == Spec => ImplementsMinuteBars
  <1>1. Init => Bars!Init
    <2> SUFFICES ASSUME Init PROVE Bars!Init  OBVIOUS
    <2>1. cutpoint = [x \in Ins |-> 0]  BY DEF Init, cutpoint, TickLocked
    <2>2. QED  BY <2>1 DEF Init, Bars!Init
  <1>2. TypeOK /\ Accounted /\ [Next]_vars => [Bars!Next]_(Bars!mbvars)
    BY StepRefines
  <1>3. QED
    BY <1>1, <1>2, TypeCorrect, AlwaysAccounted, PTL DEF Spec, ImplementsMinuteBars, Bars!Spec

-----------------------------------------------------------------------------
(***************************************************************************)
(* Nothing overtakes on the way from the feed to the bars.  The argument   *)
(* is one invariant, NothingOvertakes: the ticks of tick_base_, then those *)
(* of sub_ticks_ the distributor has not reached, then the feed's position *)
(* are in order, and every bar is of an earlier minute than all of them.   *)
(* That abort() is not reached and that bars are in order follow from it,  *)
(* and, with why the market counts as closed, that bars are complete.      *)
(***************************************************************************)

\* What NotAfter compares.
Stamp(x) == x.UpdateTime \in Nat \X Nat \X Nat /\ x.Volume \in Nat

LEMMA TickStamp == ASSUME NEW t \in Tick PROVE Stamp(t)
  BY ConstantsAssumption DEF Tick, Stamp, ConstantsAssumption

LEMMA NotAfterTransitive ==
    ASSUME NEW a, NEW b, NEW c, Stamp(a), Stamp(b), Stamp(c), NotAfter(a, b), NotAfter(b, c)
    PROVE NotAfter(a, c)
  BY TimeType DEF Stamp, NotAfter

LEMMA NotAfterReflexive == ASSUME NEW a, Stamp(a) PROVE NotAfter(a, a)
  BY TimeType DEF Stamp, NotAfter

LEMMA StampMinute == ASSUME NEW a, Stamp(a) PROVE Minute(a) \in Nat
  <1>1. convert_time_str2int(a.UpdateTime) \in Nat  BY TimeType DEF Stamp
  <1>2. QED  BY <1>1 DEF Minute

\* Minutes grow with time.
LEMMA MinuteMonotone ==
    ASSUME NEW a, NEW b, Stamp(a), Stamp(b), NotAfter(a, b)
    PROVE Minute(a) <= Minute(b)
  <1>1. /\ convert_time_str2int(a.UpdateTime) \in Nat
        /\ convert_time_str2int(b.UpdateTime) \in Nat
        /\ convert_time_str2int(a.UpdateTime) <= convert_time_str2int(b.UpdateTime)
    BY TimeType DEF Stamp, NotAfter
  <1>2. \A x, y \in Nat : x <= y => x \div 100 <= y \div 100  OBVIOUS
  <1>3. QED  BY <1>1, <1>2 DEF Minute

LEMMA BehindMonotone ==
    ASSUME NEW c \in Candle, NEW day \in Nat, NEW a, NEW b, Stamp(a), Stamp(b),
           NotAfter(a, b), Behind(c, day, a)
    PROVE Behind(c, day, b)
  <1>1. Minute(a) \in Nat /\ Minute(b) \in Nat /\ Minute(a) <= Minute(b)
    BY StampMinute, MinuteMonotone
  <1>2. c.trade_day \in Nat /\ c.trade_time \in Nat
    BY ConstantsAssumption DEF Candle, ConstantsAssumption
  <1>3. 100 * Minute(a) <= 100 * Minute(b)  BY <1>1
  <1>4. QED  BY <1>1, <1>2, <1>3 DEF Behind, Earlier

\* The feed's position is a stamp.
LEMMA PositionStamp == ASSUME TypeOK, NEW i \in Ins PROVE Stamp(position(i))
  <1>1. CASE TradeTime
    <2>1. market[i] \in [UpdateTime : Nat \X Nat \X Nat, Volume : 0..MaxVolume]
      BY DEF TypeOK
    <2>2. MaxVolume \in Nat  BY ConstantsAssumption DEF ConstantsAssumption
    <2>3. QED  BY <1>1, <2>1, <2>2 DEF position, Stamp
  <1>2. CASE ~TradeTime
    <2>1. /\ instrument_tick_one_day \in Seq(Row) /\ total_volum \in Nat
      BY <1>2, ConstantsAssumption DEF TypeOK, ConstantsAssumption
    <2>2. CASE data_index = 0
      BY <1>2, <2>1, <2>2 DEF position, Stamp
    <2>3. CASE data_index # 0
      <3>1. data_index \in 1..Len(instrument_tick_one_day)  BY <2>3 DEF TypeOK
      <3>2. instrument_tick_one_day[data_index] \in Row  BY <2>1, <3>1
      <3>3. instrument_tick_one_day[data_index].UpdateTime \in Nat \X Nat \X Nat
        BY <3>2, ConstantsAssumption DEF Row, ConstantsAssumption
      <3>4. QED  BY <1>2, <2>1, <2>3, <3>3 DEF position, Stamp
    <2>4. QED  BY <2>2, <2>3
  <1>3. QED  BY <1>1, <1>2

-----------------------------------------------------------------------------
(* The feed: a tick joins the end of the line, the position moves on.       *)

InLine == \A i \in Ins : BaseInOrder(i) /\ PendingInOrder(i) /\ BarsBehind(i)

\* The feed appends tick t of instrument i0.
Feeds(i0, t) ==
    /\ t.InstrumentID = i0 /\ t.TradingDay = session
    /\ sub_ticks_' = Append(sub_ticks_, t) /\ dist = 0 /\ dist' = 0
    /\ UNCHANGED <<tick_base_, candles, calc, session>>
    /\ \A i \in Ins : Stamp(position(i)') /\ NotAfter(position(i), position(i)')
    /\ NotAfter(position(i0), t) /\ NotAfter(t, position(i0)')

LEMMA FeedInLine ==
    ASSUME TypeOK, InLine, NEW i0 \in Ins, NEW t \in Tick, Feeds(i0, t)
    PROVE InLine'
  <1> USE DEF Feeds
  <1> DEFINE new == Len(sub_ticks_) + 1
  <1>1. /\ sub_ticks_ \in Seq(Tick) /\ Len(sub_ticks_) \in Nat
        /\ tick_base_ \in [Ins -> Seq(Tick)] /\ candles \in [Ins -> Seq(Candle)]
        /\ session \in Nat
    <2>1. session \in Nat  BY ConstantsAssumption DEF TypeOK, ConstantsAssumption
    <2>2. QED  BY <2>1 DEF TypeOK
  <1>2. /\ Len(sub_ticks_') = new
        /\ \A p \in 1..Len(sub_ticks_) : sub_ticks_'[p] = sub_ticks_[p]
        /\ sub_ticks_'[new] = t
    BY <1>1
  <1>3. SUFFICES ASSUME NEW i \in Ins
                 PROVE BaseInOrder(i)' /\ PendingInOrder(i)' /\ BarsBehind(i)'
    BY DEF InLine
  <1>4. BaseInOrder(i) /\ PendingInOrder(i) /\ BarsBehind(i)
    BY DEF InLine
  <1>5. ASSUME NEW p \in Undistributed(i)'
        PROVE \/ p \in Undistributed(i) /\ sub_ticks_'[p] = sub_ticks_[p]
              \/ p = new /\ i = i0 /\ sub_ticks_'[p] = t
    <2>1. p \in 1..new /\ sub_ticks_'[p].InstrumentID = i
      BY <1>2 DEF Undistributed
    <2>2. CASE p = new  BY <1>2, <2>1, <2>2
    <2>3. CASE p \in 1..Len(sub_ticks_)
      <3>1. sub_ticks_'[p] = sub_ticks_[p] /\ dist <= p  BY <1>2, <2>3
      <3>2. QED  BY <2>1, <2>3, <3>1 DEF Undistributed
    <2>4. QED  BY <1>1, <2>1, <2>2, <2>3
  <1>6. /\ Stamp(position(i)) /\ Stamp(position(i)') /\ Stamp(t)
        /\ NotAfter(position(i), position(i)')
    BY PositionStamp, TickStamp
  <1>7. \A p \in Undistributed(i) : Stamp(sub_ticks_[p]) /\ p \in Nat /\ p <= Len(sub_ticks_)
    BY <1>1, TickStamp DEF Undistributed
  <1>8. BaseInOrder(i)'
    <2> SUFFICES ASSUME NEW j \in 1..Len(tick_base_[i])
                 PROVE /\ \A k \in j..Len(tick_base_[i]) : NotAfter(tick_base_[i][j], tick_base_[i][k])
                       /\ \A p \in Undistributed(i)' : NotAfter(tick_base_[i][j], sub_ticks_'[p])
                       /\ NotAfter(tick_base_[i][j], position(i)')
                       /\ tick_base_[i][j].TradingDay = session
      BY DEF BaseInOrder, NotAfter
    <2>1. /\ \A k \in j..Len(tick_base_[i]) : NotAfter(tick_base_[i][j], tick_base_[i][k])
          /\ \A p \in Undistributed(i) : NotAfter(tick_base_[i][j], sub_ticks_[p])
          /\ NotAfter(tick_base_[i][j], position(i))
          /\ tick_base_[i][j].TradingDay = session
      BY <1>4 DEF BaseInOrder
    <2>2. Stamp(tick_base_[i][j])  BY <1>1, TickStamp
    <2>3. NotAfter(tick_base_[i][j], position(i)')
      BY <1>6, <2>1, <2>2, NotAfterTransitive
    <2>4. i = i0 => NotAfter(tick_base_[i][j], t)
      BY <1>6, <2>1, <2>2, NotAfterTransitive
    <2>5. QED  BY <1>5, <2>1, <2>3, <2>4
  <1>9. PendingInOrder(i)'
    <2> SUFFICES ASSUME NEW p \in Undistributed(i)'
                 PROVE /\ \A q \in Undistributed(i)' : p <= q => NotAfter(sub_ticks_'[p], sub_ticks_'[q])
                       /\ NotAfter(sub_ticks_'[p], position(i)')
                       /\ sub_ticks_'[p].TradingDay = session
      BY DEF PendingInOrder, NotAfter
    <2>1. CASE p \in Undistributed(i) /\ sub_ticks_'[p] = sub_ticks_[p]
      <3>1. /\ \A q \in Undistributed(i) : p <= q => NotAfter(sub_ticks_[p], sub_ticks_[q])
            /\ NotAfter(sub_ticks_[p], position(i))
            /\ sub_ticks_[p].TradingDay = session
        BY <1>4, <2>1 DEF PendingInOrder
      <3>2. Stamp(sub_ticks_[p])  BY <1>7, <2>1
      <3>3. NotAfter(sub_ticks_[p], position(i)')
        BY <1>6, <3>1, <3>2, NotAfterTransitive
      <3>4. i = i0 => NotAfter(sub_ticks_[p], t)
        BY <1>6, <3>1, <3>2, NotAfterTransitive
      <3>5. QED  BY <1>5, <2>1, <3>1, <3>3, <3>4
    <2>2. CASE p = new /\ i = i0 /\ sub_ticks_'[p] = t
      <3>1. ASSUME NEW q \in Undistributed(i)', p <= q PROVE sub_ticks_'[q] = t
        BY <1>1, <1>5, <1>7, <2>2, <3>1
      <3>2. NotAfter(t, t)  BY <1>6, NotAfterReflexive
      <3>3. QED  BY <2>2, <3>1, <3>2
    <2>3. QED  BY <1>5, <2>1, <2>2
  <1>10. BarsBehind(i)'
    <2> SUFFICES ASSUME NEW k \in DOMAIN candles[i]
                 PROVE /\ \A j \in NotYetCut(i) : Behind(candles[i][k], session, tick_base_[i][j])
                       /\ \A p \in Undistributed(i)' : Behind(candles[i][k], session, sub_ticks_'[p])
                       /\ Behind(candles[i][k], session, position(i)')
      <3>1. NotYetCut(i)' = NotYetCut(i)  BY DEF NotYetCut, TickLocked, Inst
      <3>2. QED  BY <3>1 DEF BarsBehind
    <2>1. /\ \A j \in NotYetCut(i) : Behind(candles[i][k], session, tick_base_[i][j])
          /\ \A p \in Undistributed(i) : Behind(candles[i][k], session, sub_ticks_[p])
          /\ Behind(candles[i][k], session, position(i))
      BY <1>4 DEF BarsBehind
    <2>2. candles[i][k] \in Candle  BY <1>1
    <2>3. Behind(candles[i][k], session, position(i)')
      BY <1>1, <1>6, <2>1, <2>2, BehindMonotone
    <2>4. i = i0 => Behind(candles[i][k], session, t)
      BY <1>1, <1>6, <2>1, <2>2, BehindMonotone
    <2>5. QED  BY <1>5, <2>1, <2>3, <2>4
  <1>11. QED  BY <1>8, <1>9, <1>10

LEMMA QuoteFeeds == ASSUME TypeOK, NEW i0 \in Ins, OnRtnDepthMarketData(i0)
                    PROVE \E t \in Tick : Feeds(i0, t)
  <1>1. PICK time \in Times, volume \in 0..MaxVolume :
          /\ TradeTime /\ Quote(i0, time, volume) /\ SubFree
          /\ sub_ticks_' = Append(sub_ticks_,
                [InstrumentID |-> i0, TradingDay |-> session,
                 UpdateTime |-> time, Volume |-> volume])
          /\ market' = [market EXCEPT ![i0] = [UpdateTime |-> time, Volume |-> volume]]
          /\ UNCHANGED <<dist, basevars, candles, calc, session>>
    BY DEF OnRtnDepthMarketData
  <1> DEFINE t == [InstrumentID |-> i0, TradingDay |-> session,
                   UpdateTime |-> time, Volume |-> volume]
  <1>2. t \in Tick  BY DEF Tick, TypeOK
  <1>3. market \in [Ins -> [UpdateTime : Nat \X Nat \X Nat, Volume : 0..MaxVolume]]
    BY DEF TypeOK
  <1>4. Stamp(t)  BY <1>2, TickStamp
  <1>5. \A i \in Ins : position(i) = market[i] /\ position(i)' = market'[i]
    BY <1>1 DEF position
  <1>6. NotAfter(position(i0), t)
    BY <1>1, <1>5 DEF Quote, NotAfter
  <1>7. /\ NotAfter(t, position(i0)') /\ NotAfter(position(i0), position(i0)')
        /\ Stamp(position(i0)')
    <2>1. position(i0)' = [UpdateTime |-> time, Volume |-> volume]
      BY <1>1, <1>3, <1>5
    <2>2. Stamp(position(i0)')  BY <1>4, <2>1 DEF Stamp
    <2>3. NotAfter(t, t)  BY <1>4, NotAfterReflexive
    <2>4. QED  BY <1>6, <2>1, <2>2, <2>3 DEF NotAfter
  <1>8. ASSUME NEW i \in Ins PROVE Stamp(position(i)') /\ NotAfter(position(i), position(i)')
    <2>1. CASE i = i0  BY <1>7, <2>1
    <2>2. CASE i # i0
      <3>1. position(i)' = position(i)  BY <1>1, <1>3, <1>5, <2>2
      <3>2. QED  BY <3>1, PositionStamp, NotAfterReflexive
    <2>3. QED  BY <2>1, <2>2
  <1>9. dist = 0 /\ dist' = 0  BY <1>1 DEF SubFree, TypeOK
  <1>10. sub_ticks_' = Append(sub_ticks_, t)  BY <1>1
  <1>11. t.InstrumentID = i0 /\ t.TradingDay = session  OBVIOUS
  <1>12. UNCHANGED <<tick_base_, candles, calc, session>>  BY <1>1 DEF basevars
  <1> HIDE DEF t
  <1>13. QED  BY <1>2, <1>6, <1>7, <1>8, <1>9, <1>10, <1>11, <1>12 DEF Feeds

LEMMA ReplayFeeds ==
    ASSUME TypeOK, session = 1, distribute_fake_tick_function, ~restarted'
    PROVE \E i0 \in Ins, t \in Tick : Feeds(i0, t)
  <1> DEFINE day == instrument_tick_one_day
             row == day[row_index + 1]
             t == [InstrumentID |-> row.InstrumentID, TradingDay |-> 1,
                   UpdateTime |-> row.UpdateTime, Volume |-> total_volum']
  <1>1. /\ ~TradeTime /\ SubFree
        /\ total_volum' = total_volum + row.Volume
        /\ data_index' = row_index + 1
        /\ sub_ticks_' = Append(sub_ticks_, t)
        /\ ~(row_index < data_index)
        /\ UNCHANGED <<dist, basevars, candles, calc, session, day>>
    BY DEF distribute_fake_tick_function
  <1>2. /\ day \in Seq(Row) /\ Len(day) \in Nat \ {0} /\ day \in FakeDays
    BY <1>1, ConstantsAssumption DEF TypeOK, ConstantsAssumption
  <1>3. row_index = data_index /\ data_index \in 0..Len(day) - 1
    <2>1. data_index \in 0..Len(day)  BY DEF TypeOK
    <2>2. data_index < Len(day)
      <3>1. ASSUME data_index >= Len(day) PROVE FALSE
        <4>1. data_index = Len(day)  BY <1>2, <2>1, <3>1
        <4>2. data_index % Len(day) \in 0..Len(day) - 1  BY <1>2, <2>1
        <4>3. row_index = data_index % Len(day)  BY <3>1 DEF row_index
        <4>4. QED  BY <1>1, <1>2, <4>1, <4>2, <4>3
      <3>2. QED  BY <1>2, <2>1, <3>1
    <2>3. QED  BY <1>2, <2>1, <2>2 DEF row_index
  <1>4. row = day[data_index + 1] /\ row \in Row /\ data_index' = data_index + 1
    BY <1>1, <1>2, <1>3
  <1>5. /\ row.UpdateTime \in Nat \X Nat \X Nat /\ row.Volume \in Nat
        /\ total_volum \in Nat /\ total_volum' \in Nat /\ total_volum <= total_volum'
        /\ total_volum' \in 0..MaxVolume
    <2>1. row.UpdateTime \in Nat \X Nat \X Nat /\ row.Volume \in Nat
      BY <1>4, ConstantsAssumption DEF Row, ConstantsAssumption
    <2>2. total_volum \in Nat /\ MaxVolume \in Nat
      BY ConstantsAssumption DEF TypeOK, ConstantsAssumption
    <2>3. total_volum' <= MaxVolume
      BY <1>1 DEF distribute_fake_tick_function
    <2>4. QED  BY <1>1, <2>1, <2>2, <2>3
  <1>6. t \in Tick /\ Stamp(t)
    <2>1. row.InstrumentID \in Ins /\ row.UpdateTime \in Times  BY <1>4 DEF Row
    <2>2. 1 \in 1..MaxSessions  BY ConstantsAssumption DEF ConstantsAssumption
    <2>3. t \in Tick  BY <1>5, <2>1, <2>2 DEF Tick
    <2>4. QED  BY <2>3, TickStamp
  <1>7. ASSUME NEW i \in Ins
        PROVE position(i)' = [UpdateTime |-> row.UpdateTime, Volume |-> total_volum']
    <2>1. data_index' # 0  BY <1>3, <1>4
    <2>2. day'[data_index'] = row  BY <1>1, <1>4
    <2>3. QED  BY <1>1, <2>1, <2>2 DEF position
  <1>8. ASSUME NEW i \in Ins
        PROVE NotAfter(position(i), [UpdateTime |-> row.UpdateTime, Volume |-> total_volum'])
    <2>1. position(i).Volume <= total_volum'  BY <1>1, <1>5 DEF position
    <2>2. convert_time_str2int(position(i).UpdateTime) <= convert_time_str2int(row.UpdateTime)
      <3>1. CASE data_index = 0
        <4>1. position(i).UpdateTime = <<0, 0, 0>>  BY <1>1, <3>1 DEF position
        <4>2. convert_time_str2int(<<0, 0, 0>>) = 0  BY DEF convert_time_str2int
        <4>3. convert_time_str2int(row.UpdateTime) \in Nat  BY <1>5, TimeType
        <4>4. QED  BY <4>1, <4>2, <4>3
      <3>2. CASE data_index # 0
        <4>1. position(i).UpdateTime = day[data_index].UpdateTime
          BY <1>1, <3>2 DEF position
        <4>2. data_index \in 1..Len(day) /\ data_index + 1 \in 1..Len(day) /\ data_index <= data_index + 1
          BY <1>2, <1>3, <3>2
        <4>3. QED  BY <1>2, <1>4, <4>1, <4>2, FilesAssumption
      <3>3. QED  BY <3>1, <3>2
    <2>3. QED  BY <2>1, <2>2 DEF NotAfter
  <1>9. ASSUME NEW i \in Ins
        PROVE /\ Stamp(position(i)') /\ NotAfter(position(i), position(i)')
              /\ NotAfter(position(i), t) /\ NotAfter(t, position(i)')
    <2>1. Stamp(position(i)')  BY <1>5, <1>7 DEF Stamp
    <2>2. NotAfter(position(i), position(i)')  BY <1>7, <1>8
    <2>3. NotAfter(position(i), t)  BY <1>8 DEF NotAfter
    <2>4. NotAfter(t, t)  BY <1>6, NotAfterReflexive
    <2>5. NotAfter(t, position(i)')  BY <1>7, <2>4 DEF NotAfter
    <2>6. QED  BY <2>1, <2>2, <2>3, <2>5
  <1>10. dist = 0 /\ dist' = 0  BY <1>1 DEF SubFree, TypeOK
  <1>11. t.InstrumentID \in Ins /\ t.TradingDay = session  BY <1>6 DEF Tick
  <1>12. UNCHANGED <<tick_base_, candles, calc, session>>  BY <1>1 DEF basevars
  <1>13. sub_ticks_' = Append(sub_ticks_, t)  BY <1>1
  <1> HIDE DEF t
  <1>14. PICK i0 \in Ins : i0 = t.InstrumentID  BY <1>11
  <1>15. Feeds(i0, t)  BY <1>9, <1>10, <1>11, <1>12, <1>13, <1>14 DEF Feeds
  <1>16. QED  BY <1>6, <1>15

\* The next day finds the line empty, or has restarted.
LEMMA SessionInLine == ASSUME TypeOK, InLine, NewSession, ~restarted' PROVE InLine'
  <1>1. /\ \A i \in Ins : tick_base_[i] = <<>>
        /\ sub_ticks_ = <<>> /\ TradeTime /\ session' = session + 1
        /\ UNCHANGED <<subvars, basevars, candles, calc>>
    BY DEF NewSession
  <1>2. session \in Nat /\ session' \in Nat
    BY <1>1, ConstantsAssumption DEF TypeOK, ConstantsAssumption
  <1>3. SUFFICES ASSUME NEW i \in Ins
                 PROVE BaseInOrder(i)' /\ PendingInOrder(i)' /\ BarsBehind(i)'
    BY DEF InLine
  <1>4. tick_base_'[i] = <<>> /\ sub_ticks_' = <<>>  BY <1>1 DEF basevars, subvars
  <1>5. 1..Len(tick_base_'[i]) = {} /\ Undistributed(i)' = {} /\ NotYetCut(i)' = {}
    BY <1>4 DEF Undistributed, NotYetCut
  <1>6. BaseInOrder(i)' /\ PendingInOrder(i)'
    BY <1>5 DEF BaseInOrder, PendingInOrder
  <1>7. BarsBehind(i)'
    <2>1. SUFFICES ASSUME NEW k \in DOMAIN candles[i]
                   PROVE Behind(candles[i][k], session', position(i)')
      BY <1>1, <1>5 DEF BarsBehind
    <2>2. Behind(candles[i][k], session, position(i))
      BY DEF InLine, BarsBehind
    <2>3. candles[i][k] \in Candle  BY DEF TypeOK
    <2>4. candles[i][k].trade_day \in Nat
      BY <2>3, ConstantsAssumption DEF Candle, ConstantsAssumption
    <2>5. candles[i][k].trade_day < session'
      BY <1>1, <1>2, <2>2, <2>4 DEF Behind, Earlier
    <2>6. QED  BY <2>5 DEF Behind, Earlier
  <1>8. QED  BY <1>6, <1>7

-----------------------------------------------------------------------------
(* The distributor: a tick moves from the head of one buffer to the end of  *)
(* the next.                                                                *)

LEMMA PushInLine == ASSUME TypeOK, InLine, NEW i0 \in Ins, DistPush(i0) PROVE InLine'
  <1> DEFINE dt == sub_ticks_[dist]
  <1>1. /\ dist \in Undistributed(i0) /\ dt \in Tick /\ dist' = dist + 1
        /\ dist \in 1..Len(sub_ticks_) /\ ~TickLocked(i0)
    BY DEF DistPush, Distributing, TypeOK, Undistributed
  <1>2. /\ UNCHANGED <<sub_ticks_, candles, calc, session>>
        /\ UNCHANGED <<market, instrument_tick_one_day, data_index, total_volum>>
    BY DEF DistPush, feedvars
  <1>3. /\ tick_base_ \in [Ins -> Seq(Tick)] /\ sub_ticks_ \in Seq(Tick)
        /\ candles \in [Ins -> Seq(Candle)] /\ Len(sub_ticks_) \in Nat
    BY DEF TypeOK
  <1>4. SUFFICES ASSUME NEW i \in Ins
                 PROVE BaseInOrder(i)' /\ PendingInOrder(i)' /\ BarsBehind(i)'
    BY DEF InLine
  <1>5. BaseInOrder(i) /\ PendingInOrder(i) /\ BarsBehind(i)
    BY DEF InLine
  <1>6. /\ position(i)' = position(i)
        /\ Undistributed(i)' \subseteq Undistributed(i)
        /\ \A p \in Undistributed(i)' : dist < p
    BY <1>1, <1>2 DEF position, Undistributed
  <1>7. PendingInOrder(i)'
    BY <1>2, <1>5, <1>6 DEF PendingInOrder
  <1>8. CASE tick_base_'[i] = tick_base_[i]
    <2>1. NotYetCut(i)' = NotYetCut(i)  BY <1>2, <1>8 DEF NotYetCut, TickLocked, Inst
    <2>2. BaseInOrder(i)'  BY <1>2, <1>5, <1>6, <1>8 DEF BaseInOrder
    <2>3. BarsBehind(i)'  BY <1>2, <1>5, <1>6, <1>8, <2>1 DEF BarsBehind
    <2>4. QED  BY <1>7, <2>2, <2>3
  <1>9. CASE i = i0 /\ tick_base_'[i] = Append(tick_base_[i], dt)
    <2> DEFINE base == tick_base_[i]
               new == Len(base) + 1
    <2>1. base \in Seq(Tick) /\ Len(base) \in Nat  BY <1>3
    <2>2. /\ Len(tick_base_'[i]) = new
          /\ \A j \in 1..Len(base) : tick_base_'[i][j] = base[j]
          /\ tick_base_'[i][new] = dt
      BY <1>1, <1>9, <2>1
    <2>3. /\ \A p \in Undistributed(i) : dist <= p => NotAfter(dt, sub_ticks_[p])
          /\ NotAfter(dt, position(i)) /\ dt.TradingDay = session
      BY <1>1, <1>5, <1>9 DEF PendingInOrder
    <2>4. \A j \in 1..Len(base) :
             /\ \A k \in j..Len(base) : NotAfter(base[j], base[k])
             /\ \A p \in Undistributed(i) : NotAfter(base[j], sub_ticks_[p])
             /\ NotAfter(base[j], position(i)) /\ base[j].TradingDay = session
      BY <1>5 DEF BaseInOrder
    <2>5. NotAfter(dt, dt)  BY <1>1, TickStamp, NotAfterReflexive
    <2>6. BaseInOrder(i)'
      <3>1. SUFFICES ASSUME NEW j \in 1..new
                     PROVE /\ \A k \in j..new : NotAfter(tick_base_'[i][j], tick_base_'[i][k])
                           /\ \A p \in Undistributed(i)' : NotAfter(tick_base_'[i][j], sub_ticks_[p])
                           /\ NotAfter(tick_base_'[i][j], position(i))
                           /\ tick_base_'[i][j].TradingDay = session
        BY <1>2, <1>6, <2>2 DEF BaseInOrder
      <3>2. CASE j = new
        <4>1. \A k \in j..new : tick_base_'[i][k] = dt  BY <2>1, <2>2, <3>2
        <4>2. \A p \in Undistributed(i)' : NotAfter(dt, sub_ticks_[p])
          <5>1. \A p \in Undistributed(i)' : p \in Undistributed(i) /\ dist <= p
            BY <1>1, <1>6 DEF Undistributed
          <5>2. QED  BY <2>3, <5>1
        <4>3. QED  BY <2>2, <2>3, <2>5, <3>2, <4>1, <4>2
      <3>3. CASE j \in 1..Len(base)
        <4>1. tick_base_'[i][j] = base[j]  BY <2>2, <3>3
        <4>2. ASSUME NEW k \in j..new PROVE NotAfter(base[j], tick_base_'[i][k])
          <5>1. CASE k = new
            <6>1. dist \in Undistributed(i)  BY <1>1, <1>9
            <6>2. NotAfter(base[j], dt)  BY <2>4, <3>3, <6>1
            <6>3. QED  BY <2>2, <5>1, <6>2
          <5>2. CASE k \in j..Len(base)
            <6>1. k \in 1..Len(base)  BY <2>1, <3>3, <5>2
            <6>2. QED  BY <2>2, <2>4, <3>3, <5>2, <6>1
          <5>3. QED  BY <2>1, <3>3, <5>1, <5>2
        <4>3. \A p \in Undistributed(i)' : NotAfter(base[j], sub_ticks_[p])
          BY <1>6, <2>4, <3>3
        <4>4. QED  BY <2>4, <3>3, <4>1, <4>2, <4>3
      <3>4. QED  BY <2>1, <3>2, <3>3
    <2>7. BarsBehind(i)'
      <3>1. SUFFICES ASSUME NEW k \in DOMAIN candles[i]
                     PROVE /\ \A j \in NotYetCut(i)' : Behind(candles[i][k], session, tick_base_'[i][j])
                           /\ \A p \in Undistributed(i)' : Behind(candles[i][k], session, sub_ticks_[p])
                           /\ Behind(candles[i][k], session, position(i))
        BY <1>2, <1>6 DEF BarsBehind
      <3>2. /\ \A j \in NotYetCut(i) : Behind(candles[i][k], session, base[j])
            /\ \A p \in Undistributed(i) : Behind(candles[i][k], session, sub_ticks_[p])
            /\ Behind(candles[i][k], session, position(i))
        BY <1>5 DEF BarsBehind
      <3>3. ASSUME NEW j \in NotYetCut(i)'
            PROVE Behind(candles[i][k], session, tick_base_'[i][j])
        <4>1. j \in 1..new  BY <2>2 DEF NotYetCut
        <4>2. ~TickLocked(i)  BY <1>1, <1>9
        <4>3. CASE j = new
          <5>1. dist \in Undistributed(i)  BY <1>1, <1>9
          <5>2. QED  BY <2>2, <3>2, <4>3, <5>1
        <4>4. CASE j \in 1..Len(base)
          <5>1. j \in NotYetCut(i)  BY <4>2, <4>4 DEF NotYetCut
          <5>2. QED  BY <2>2, <3>2, <4>4, <5>1
        <4>5. QED  BY <2>1, <4>1, <4>3, <4>4
      <3>4. QED  BY <1>6, <3>2, <3>3
    <2>8. QED  BY <1>7, <2>6, <2>7
  <1>10. \/ tick_base_'[i] = tick_base_[i]
         \/ i = i0 /\ tick_base_'[i] = Append(tick_base_[i], dt)
    BY <1>3 DEF DistPush, tick_base_pushback
  <1>11. QED  BY <1>8, <1>9, <1>10

-----------------------------------------------------------------------------
(* The calculator: a bar is cut off the head of the line.                   *)

\* Publishing keeps the line, and appends a bar later than all before it.
LEMMA PublishInLine ==
    ASSUME TypeOK, InLine, OneBarPerMinute, ~restarted, NEW i0 \in Ins, CalcPublish(i0)
    PROVE InLine' /\ OneBarPerMinute'
  <1> DEFINE base == tick_base_[i0]
  <1>1. PICK n \in 1..Len(base) - 1 :
          /\ TailAt(base, n)
          /\ candles' = [candles EXCEPT ![i0] = Append(@, convert_tick2min(SubSeq(base, 1, n)))]
          /\ calc' = [calc EXCEPT !.pc = "erase", !.n = n]
    BY DEF CalcPublish
  <1> DEFINE bar == convert_tick2min(SubSeq(base, 1, n))
  <1>2. /\ UNCHANGED <<tick_base_, sub_ticks_, dist, session>>
        /\ UNCHANGED <<market, instrument_tick_one_day, data_index, total_volum>>
        /\ \A x \in Ins : ~TickLocked(x)
        /\ Inst = i0
    BY DEF CalcPublish, Calculating, TickLocked, feedvars, basevars, subvars
  <1>3. /\ base \in Seq(Tick) /\ Len(base) \in Nat /\ n \in Nat \ {0} /\ n < Len(base)
        /\ n \in 1..Len(base) /\ n + 1 \in 1..Len(base) /\ 1 \in 1..Len(base)
        /\ candles \in [Ins -> Seq(Candle)] /\ session \in Nat
    <2>1. session \in Nat  BY ConstantsAssumption DEF TypeOK, ConstantsAssumption
    <2>2. base \in Seq(Tick) /\ candles \in [Ins -> Seq(Candle)]  BY DEF TypeOK
    <2>3. QED  BY <2>1, <2>2
  <1>4. /\ \A x \in Ins : TickLocked(x)' <=> x = i0
        /\ calc'.n = n
    <2>1. calc'.pc = "erase" /\ calc'.n = n /\ calc'.k = calc.k  BY <1>1 DEF TypeOK
    <2>2. QED  BY <1>2, <2>1 DEF TickLocked, Inst
  <1>5. /\ BaseInOrder(i0) /\ PendingInOrder(i0) /\ BarsBehind(i0)
    BY DEF InLine
  <1>6. /\ bar.trade_day = session /\ bar.trade_time = 100 * Minute(base[n])
        /\ bar \in Candle
    <2>1. /\ SubSeq(base, 1, n) \in Seq(Tick) /\ SubSeq(base, 1, n) # <<>>
          /\ Len(SubSeq(base, 1, n)) = n
          /\ SubSeq(base, 1, n)[1] = base[1]
          /\ SubSeq(base, 1, n)[n] = base[n]
      BY <1>3
    <2>2. base[1].TradingDay = session  BY <1>3, <1>5 DEF BaseInOrder
    <2>3. QED  BY <2>1, <2>2, CandleType DEF convert_tick2min, Last
  <1>7. /\ Minute(base[n]) \in Nat /\ Minute(base[n + 1]) \in Nat
        /\ Minute(base[n]) < Minute(base[n + 1])
    BY <1>1, <1>3, MinuteType DEF TailAt
  <1>8. Behind(bar, session, base[n + 1])
    BY <1>3, <1>6, <1>7 DEF Behind, Earlier
  <1>9. Stamp(base[n + 1])  BY <1>3, TickStamp
  <1>10. /\ \A j \in n + 1..Len(base) : Behind(bar, session, base[j])
         /\ \A p \in Undistributed(i0) : Behind(bar, session, sub_ticks_[p])
         /\ Behind(bar, session, position(i0))
    <2>1. /\ \A j \in n + 1..Len(base) : NotAfter(base[n + 1], base[j])
          /\ \A p \in Undistributed(i0) : NotAfter(base[n + 1], sub_ticks_[p])
          /\ NotAfter(base[n + 1], position(i0))
      BY <1>3, <1>5 DEF BaseInOrder
    <2>2. /\ \A j \in n + 1..Len(base) : Stamp(base[j])
          /\ \A p \in Undistributed(i0) : Stamp(sub_ticks_[p])
          /\ Stamp(position(i0))
      <3>1. \A j \in n + 1..Len(base) : base[j] \in Tick  BY <1>3
      <3>2. \A p \in Undistributed(i0) : sub_ticks_[p] \in Tick  BY SMTT(60) DEF Undistributed, TypeOK
      <3>3. QED  BY <3>1, <3>2, TickStamp, PositionStamp
    <2> HIDE DEF bar, base
    <2>3. QED  BY <1>3, <1>6, <1>8, <1>9, <2>1, <2>2, BehindMonotone
  <1>11. \A k \in DOMAIN candles[i0] : Earlier(candles[i0][k], bar)
    <2>1. n \in NotYetCut(i0)  BY <1>2, <1>3 DEF NotYetCut
    <2>2. \A k \in DOMAIN candles[i0] : Behind(candles[i0][k], session, base[n])
      BY <1>5, <2>1 DEF BarsBehind
    <2>3. QED  BY <1>6, <2>2 DEF Behind, Earlier
  <1>12. /\ candles'[i0] = Append(candles[i0], bar)
         /\ \A x \in Ins : x # i0 => candles'[x] = candles[x]
         /\ DOMAIN candles[i0] = 1..Len(candles[i0]) /\ Len(candles[i0]) \in Nat
         /\ DOMAIN candles'[i0] = 1..Len(candles[i0]) + 1
         /\ \A k \in 1..Len(candles[i0]) : candles'[i0][k] = candles[i0][k]
         /\ candles'[i0][Len(candles[i0]) + 1] = bar
    <2>1. candles'[i0] = Append(candles[i0], bar) /\ candles[i0] \in Seq(Candle)
      BY <1>1, <1>3
    <2>2. \A x \in Ins : x # i0 => candles'[x] = candles[x]  BY <1>1, <1>3
    <2> HIDE DEF bar
    <2>3. QED  BY <2>1, <2>2, <1>6
  <1> HIDE DEF bar
  <1>13. ASSUME NEW i \in Ins
         PROVE BaseInOrder(i)' /\ PendingInOrder(i)' /\ BarsBehind(i)'
    <2>1. BaseInOrder(i) /\ PendingInOrder(i) /\ BarsBehind(i)  BY DEF InLine
    <2>2. /\ position(i)' = position(i) /\ Undistributed(i)' = Undistributed(i)
          /\ NotYetCut(i)' \subseteq NotYetCut(i)
          /\ i = i0 => NotYetCut(i)' = {j \in 1..Len(base) : n < j}
      BY <1>2, <1>4 DEF position, Undistributed, NotYetCut
    <2>3. BaseInOrder(i)' /\ PendingInOrder(i)'
      BY <1>2, <2>1, <2>2 DEF BaseInOrder, PendingInOrder
    <2>4. CASE i # i0
      <3>1. candles'[i] = candles[i]  BY <1>12, <2>4
      <3>2. BarsBehind(i)'  BY <1>2, <2>1, <2>2, <3>1 DEF BarsBehind
      <3>3. QED  BY <2>3, <3>2
    <2>5. CASE i = i0
      <3>1. ASSUME NEW k \in DOMAIN candles'[i]
            PROVE /\ \A j \in NotYetCut(i)' : Behind(candles'[i][k], session, tick_base_[i][j])
                  /\ \A p \in Undistributed(i) : Behind(candles'[i][k], session, sub_ticks_[p])
                  /\ Behind(candles'[i][k], session, position(i))
        <4>1. CASE k = Len(candles[i0]) + 1
          <5>1. \A j \in NotYetCut(i)' : j \in n + 1..Len(base)  BY <1>3, <2>2, <2>5
          <5>2. candles'[i][k] = bar  BY <1>12, <2>5, <4>1
          <5>3. QED  BY <1>10, <2>5, <5>1, <5>2
        <4>2. CASE k \in 1..Len(candles[i0])
          <5>1. candles'[i][k] = candles[i][k] /\ k \in DOMAIN candles[i]
            BY <1>12, <2>5, <4>2
          <5>2. QED  BY <2>1, <2>2, <5>1 DEF BarsBehind
        <4>3. QED  BY <1>12, <2>5, <4>1, <4>2
      <3>2. BarsBehind(i)'  BY <1>2, <2>2, <3>1 DEF BarsBehind
      <3>3. QED  BY <2>3, <3>2
    <2>6. QED  BY <2>4, <2>5
  <1>14. OneBarPerMinute'
    <2>1. SUFFICES ASSUME NEW i \in Ins, NEW j \in DOMAIN candles'[i], NEW k \in DOMAIN candles'[i],
                          j < k
                   PROVE Earlier(candles'[i][j], candles'[i][k])
      BY DEF OneBarPerMinute
    <2>2. \A x \in Ins : \A y, z \in DOMAIN candles[x] :
             y < z => Earlier(candles[x][y], candles[x][z])
      BY DEF OneBarPerMinute
    <2>3. CASE i # i0  BY <1>12, <2>1, <2>2, <2>3
    <2>4. CASE i = i0
      <3>1. CASE k = Len(candles[i0]) + 1
        <4>1. j \in 1..Len(candles[i0])  BY <1>12, <2>1, <2>4, <3>1
        <4>2. QED  BY <1>11, <1>12, <2>4, <3>1, <4>1
      <3>2. CASE k \in 1..Len(candles[i0])
        <4>1. j \in 1..Len(candles[i0])  BY <1>12, <2>1, <2>4, <3>2
        <4>2. QED  BY <1>12, <2>1, <2>2, <2>4, <3>2, <4>1
      <3>3. QED  BY <1>12, <2>4, <3>1, <3>2
    <2>5. QED  BY <2>3, <2>4
  <1>15. QED  BY <1>13, <1>14 DEF InLine

\* Erasing moves the ticks not yet cut to the front.
LEMMA EraseInLine == ASSUME TypeOK, Accounted, InLine, NEW i0 \in Ins, CalcErase(i0)
                     PROVE InLine'
  <1> DEFINE base == tick_base_[i0]
             n == calc.n
  <1>1. /\ tick_base_' = [tick_base_ EXCEPT ![i0] = erase(@, n)]
        /\ UNCHANGED <<sub_ticks_, dist, candles, session>>
        /\ UNCHANGED <<market, instrument_tick_one_day, data_index, total_volum>>
        /\ TickLocked(i0) /\ calc' = NextInst
    BY DEF CalcErase, subvars, feedvars
  <1>2. /\ \A x \in Ins : ~TickLocked(x)'
        /\ \A x \in Ins : x # i0 => ~TickLocked(x)
    BY <1>1 DEF NextInst, TickLocked
  <1>3. /\ base \in Seq(Tick) /\ Len(base) \in Nat /\ n \in 0..Len(base)
        /\ tick_base_ \in [Ins -> Seq(Tick)]
    <2>1. base \in Seq(Tick) /\ tick_base_ \in [Ins -> Seq(Tick)]  BY DEF TypeOK
    <2>2. n \in 1..Len(base) - 1  BY <1>1 DEF Accounted
    <2>3. QED  BY <2>1, <2>2
  <1>4. /\ Len(tick_base_'[i0]) = Len(base) - n
        /\ \A j \in 1..Len(base) - n : tick_base_'[i0][j] = base[n + j]
    <2>1. tick_base_'[i0] = erase(base, n)  BY <1>1, <1>3
    <2>2. \A t \in Seq(Tick) : \A m \in 0..Len(t) :
             /\ Len(erase(t, m)) = Len(t) - m
             /\ \A j \in 1..Len(t) - m : erase(t, m)[j] = t[m + j]
      BY EraseContents
    <2>3. /\ Len(erase(base, n)) = Len(base) - n
          /\ \A j \in 1..Len(base) - n : erase(base, n)[j] = base[n + j]
      BY <1>3, <2>2
    <2>4. QED  BY <2>1, <2>3
  <1>5. SUFFICES ASSUME NEW i \in Ins
                 PROVE BaseInOrder(i)' /\ PendingInOrder(i)' /\ BarsBehind(i)'
    BY DEF InLine
  <1>6. BaseInOrder(i) /\ PendingInOrder(i) /\ BarsBehind(i)  BY DEF InLine
  <1>7. position(i)' = position(i) /\ Undistributed(i)' = Undistributed(i)
    BY <1>1 DEF position, Undistributed
  <1>8. PendingInOrder(i)'  BY <1>1, <1>6, <1>7 DEF PendingInOrder
  <1>9. CASE i # i0
    <2>1. tick_base_'[i] = tick_base_[i]  BY <1>1, <1>3, <1>9
    <2>2. NotYetCut(i)' = NotYetCut(i)  BY <1>2, <1>9, <2>1 DEF NotYetCut
    <2>3. BaseInOrder(i)'  BY <1>1, <1>6, <1>7, <2>1 DEF BaseInOrder
    <2>4. BarsBehind(i)'  BY <1>1, <1>6, <1>7, <2>1, <2>2 DEF BarsBehind
    <2>5. QED  BY <1>8, <2>3, <2>4
  <1>10. CASE i = i0
    <2>1. ASSUME NEW j \in 1..Len(tick_base_'[i])
          PROVE n + j \in 1..Len(base) /\ tick_base_'[i][j] = base[n + j]
      BY <1>3, <1>4, <1>10
    <2>2. ASSUME NEW j \in 1..Len(tick_base_'[i])
          PROVE /\ \A k \in j..Len(tick_base_'[i]) : NotAfter(tick_base_'[i][j], tick_base_'[i][k])
                /\ \A p \in Undistributed(i) : NotAfter(tick_base_'[i][j], sub_ticks_[p])
                /\ NotAfter(tick_base_'[i][j], position(i))
                /\ tick_base_'[i][j].TradingDay = session
      <3>1. ASSUME NEW k \in j..Len(tick_base_'[i])
            PROVE NotAfter(tick_base_'[i][j], tick_base_'[i][k])
        <4>1. k \in 1..Len(tick_base_'[i]) /\ n + k \in n + j..Len(base)
          BY <1>3, <1>4, <1>10
        <4>2. NotAfter(base[n + j], base[n + k])
          BY <1>6, <1>10, <2>1, <4>1 DEF BaseInOrder
        <4>3. QED  BY <2>1, <4>1, <4>2
      <3>2. QED  BY <1>6, <1>10, <2>1, <3>1 DEF BaseInOrder
    <2>3. BaseInOrder(i)'  BY <1>1, <1>7, <2>2 DEF BaseInOrder
    <2>4. ASSUME NEW k \in DOMAIN candles[i]
          PROVE /\ \A j \in NotYetCut(i)' : Behind(candles[i][k], session, tick_base_'[i][j])
                /\ \A p \in Undistributed(i) : Behind(candles[i][k], session, sub_ticks_[p])
                /\ Behind(candles[i][k], session, position(i))
      <3>1. ASSUME NEW j \in NotYetCut(i)' PROVE Behind(candles[i][k], session, tick_base_'[i][j])
        <4>1. j \in 1..Len(tick_base_'[i])  BY DEF NotYetCut
        <4>2. n + j \in NotYetCut(i)  BY <1>3, <1>10, <2>1, <4>1 DEF NotYetCut
        <4>3. QED  BY <1>6, <1>10, <2>1, <4>1, <4>2 DEF BarsBehind
      <3>2. QED  BY <1>6, <3>1 DEF BarsBehind
    <2>5. BarsBehind(i)'  BY <1>1, <1>7, <2>4 DEF BarsBehind
    <2>6. QED  BY <1>8, <2>3, <2>5
  <1>11. QED  BY <1>9, <1>10

LEMMA NoTailInLine == ASSUME TypeOK, InLine, NEW i0 \in Ins, CalcNoTail(i0)
                      PROVE InLine'
  <1>1. /\ \/ tick_base_' = [tick_base_ EXCEPT ![i0] = <<>>]
           \/ UNCHANGED tick_base_
        /\ UNCHANGED <<sub_ticks_, dist, candles, session>>
        /\ UNCHANGED <<market, instrument_tick_one_day, data_index, total_volum>>
        /\ \A x \in Ins : ~TickLocked(x) /\ calc' = NextInst
    BY DEF CalcNoTail, Calculating, TickLocked, subvars, feedvars
  <1>2. \A x \in Ins : ~TickLocked(x)'
    BY <1>1 DEF NextInst, TickLocked
  <1>3. SUFFICES ASSUME NEW i \in Ins
                 PROVE BaseInOrder(i)' /\ PendingInOrder(i)' /\ BarsBehind(i)'
    BY DEF InLine
  <1>4. BaseInOrder(i) /\ PendingInOrder(i) /\ BarsBehind(i)  BY DEF InLine
  <1>5. position(i)' = position(i) /\ Undistributed(i)' = Undistributed(i)
    BY <1>1 DEF position, Undistributed
  <1>6. PendingInOrder(i)'  BY <1>1, <1>4, <1>5 DEF PendingInOrder
  <1>7. tick_base_'[i] = tick_base_[i] \/ tick_base_'[i] = <<>>
    BY <1>1 DEF TypeOK
  <1>8. CASE tick_base_'[i] = tick_base_[i]
    <2>1. NotYetCut(i)' = NotYetCut(i)  BY <1>1, <1>2, <1>8 DEF NotYetCut
    <2>2. BaseInOrder(i)'  BY <1>1, <1>4, <1>5, <1>8 DEF BaseInOrder
    <2>3. BarsBehind(i)'  BY <1>1, <1>4, <1>5, <1>8, <2>1 DEF BarsBehind
    <2>4. QED  BY <1>6, <2>2, <2>3
  <1>9. CASE tick_base_'[i] = <<>>
    <2>1. 1..Len(tick_base_'[i]) = {} /\ NotYetCut(i)' = {}  BY <1>9 DEF NotYetCut
    <2>2. BaseInOrder(i)'  BY <2>1 DEF BaseInOrder
    <2>3. BarsBehind(i)'  BY <1>1, <1>4, <1>5, <2>1 DEF BarsBehind
    <2>4. QED  BY <1>6, <2>2, <2>3
  <1>10. QED  BY <1>7, <1>8, <1>9

-----------------------------------------------------------------------------
(* In line, neither abort() is reached.                                     *)

LEMMA NoDistAbort == ASSUME TypeOK, InLine, NEW i \in Ins, DistAbort(i) PROVE FALSE
  <1>1. /\ dist \in Undistributed(i) /\ tick_base_[i] # <<>>
        /\ Last(tick_base_[i]).Volume > sub_ticks_[dist].Volume
        /\ sub_ticks_[dist] \in Tick
    BY DEF DistAbort, Distributing, TypeOK, Undistributed
  <1>2. tick_base_[i] \in Seq(Tick)  BY DEF TypeOK
  <1>3. Len(tick_base_[i]) \in 1..Len(tick_base_[i]) /\ Last(tick_base_[i]) \in Tick
    BY <1>1, <1>2 DEF Last
  <1>4. NotAfter(Last(tick_base_[i]), sub_ticks_[dist])
    BY <1>1, <1>3 DEF InLine, BaseInOrder, Last
  <1>5. QED  BY <1>1, <1>3, <1>4, TickStamp DEF NotAfter, Stamp

LEMMA NoCalcAbort == ASSUME TypeOK, InLine, NEW i \in Ins, CalcAbort(i) PROVE FALSE
  <1>1. PICK n \in 1..Len(tick_base_[i]) - 1 : BackwardsAt(tick_base_[i], n)
    BY DEF CalcAbort
  <1>2. tick_base_[i] \in Seq(Tick) /\ Len(tick_base_[i]) \in Nat  BY DEF TypeOK
  <1>3. /\ n \in 1..Len(tick_base_[i]) /\ n + 1 \in n..Len(tick_base_[i])
        /\ n + 1 \in 1..Len(tick_base_[i])
    BY <1>2
  <1>4. NotAfter(tick_base_[i][n], tick_base_[i][n + 1])
    BY <1>3 DEF InLine, BaseInOrder
  <1>5. tick_base_[i][n] \in Tick /\ tick_base_[i][n + 1] \in Tick  BY <1>2, <1>3
  <1>6. Minute(tick_base_[i][n]) <= Minute(tick_base_[i][n + 1])
    BY <1>4, <1>5, TickStamp, MinuteMonotone
  <1>7. QED  BY <1>1, <1>5, <1>6, MinuteType DEF BackwardsAt

-----------------------------------------------------------------------------
(* The inductive invariant *)

OrderInv == /\ ~restarted => InLine /\ OneBarPerMinute /\ ~aborted
            /\ ~TradeTime => session = 1

LEMMA OrderInit == ASSUME Init PROVE OrderInv
  <1>1. \A i \in Ins : /\ Len(tick_base_[i]) = 0 /\ 1..Len(tick_base_[i]) = {}
                       /\ Undistributed(i) = {} /\ DOMAIN candles[i] = {}
    BY DEF Init, Undistributed
  <1>2. InLine  BY <1>1 DEF InLine, BaseInOrder, PendingInOrder, BarsBehind
  <1>3. OneBarPerMinute  BY <1>1 DEF OneBarPerMinute
  <1>4. QED  BY <1>2, <1>3 DEF OrderInv, Init

\* What only moves a lock, or the calculator to the next instrument.
LEMMA QuietInLine ==
    ASSUME TypeOK, InLine, FakeWake \/ DistLock \/ \E i \in Ins : CalcSkip(i)
    PROVE InLine'
  <1>1. /\ UNCHANGED <<sub_ticks_, tick_base_, candles, session>>
        /\ UNCHANGED <<market, instrument_tick_one_day, data_index, total_volum>>
        /\ \A i \in Ins : TickLocked(i)' => TickLocked(i) /\ calc'.n = calc.n
        /\ \A i \in Ins : TickLocked(i) => TickLocked(i)'
    BY DEF FakeWake, DistLock, CalcSkip, Calculating, NextInst, TickLocked, Inst,
           subvars, basevars, feedvars
  <1>2. dist' = dist \/ (dist = 0 /\ dist' = 1)
    <2>1. CASE DistLock
      <3>1. sub_mutex_ = "free" /\ dist' = 1  BY <2>1 DEF DistLock, SubFree
      <3>2. dist = 0  BY <3>1 DEF TypeOK
      <3>3. QED  BY <3>1, <3>2
    <2>2. CASE FakeWake  BY <2>2 DEF FakeWake
    <2>3. ASSUME NEW i \in Ins, CalcSkip(i) PROVE dist' = dist
      BY <2>3 DEF CalcSkip, subvars
    <2>4. QED  BY <2>1, <2>2, <2>3
  <1>3. ASSUME NEW i \in Ins
        PROVE /\ position(i)' = position(i) /\ Undistributed(i)' = Undistributed(i)
              /\ NotYetCut(i)' = NotYetCut(i)
    BY <1>1, <1>2 DEF position, Undistributed, NotYetCut
  <1>4. QED  BY <1>1, <1>3 DEF InLine, BaseInOrder, PendingInOrder, BarsBehind

LEMMA DoneInLine == ASSUME TypeOK, InLine, DistDone PROVE InLine'
  <1>1. /\ sub_ticks_' = <<>> /\ UNCHANGED <<tick_base_, candles, calc, session>>
        /\ UNCHANGED <<market, instrument_tick_one_day, data_index, total_volum>>
    BY DEF DistDone, basevars, feedvars
  <1>2. ASSUME NEW i \in Ins
        PROVE /\ position(i)' = position(i) /\ Undistributed(i)' = {}
              /\ NotYetCut(i)' = NotYetCut(i)
    BY <1>1 DEF position, Undistributed, NotYetCut, TickLocked, Inst
  <1>3. QED  BY <1>1, <1>2 DEF InLine, BaseInOrder, PendingInOrder, BarsBehind

\* Bars in order stay so when none is added.
LEMMA SameBars == ASSUME OneBarPerMinute, ~restarted, UNCHANGED candles
                  PROVE OneBarPerMinute'
  BY DEF OneBarPerMinute

LEMMA RestartStays == ASSUME [Next]_vars, restarted PROVE restarted'
  BY DEF Next, vars, Feed, FakeWake, Distributor, Calculator, Calculate,
         OnRtnDepthMarketData, NewSession, distribute_fake_tick_function, DistLock, DistDone,
         DistPush, DistAbort, CalcSkip, CalcPublish, CalcErase, CalcNoTail, CalcAbort, feedvars

LEMMA OrderStep == ASSUME TypeOK, Accounted, OrderInv, [Next]_vars PROVE OrderInv'
  <1>1. (~TradeTime => session = 1)'
    BY DEF OrderInv, Next, vars, Feed, FakeWake, Distributor, Calculator, Calculate,
           OnRtnDepthMarketData, NewSession, distribute_fake_tick_function, DistLock, DistDone,
           DistPush, DistAbort, CalcSkip, CalcPublish, CalcErase, CalcNoTail, CalcAbort, feedvars
  <1>2. restarted => restarted'  BY RestartStays
  <1>3. SUFFICES ASSUME ~restarted' PROVE InLine' /\ OneBarPerMinute' /\ ~aborted'
    BY <1>1 DEF OrderInv
  <1>4. ~restarted /\ InLine /\ OneBarPerMinute /\ ~aborted
    BY <1>2, <1>3 DEF OrderInv
  <1> DEFINE Goal == InLine' /\ OneBarPerMinute' /\ ~aborted'
  <1>5. ASSUME NEW i \in Ins, OnRtnDepthMarketData(i) PROVE Goal
    <2>1. UNCHANGED <<candles, aborted>>  BY <1>5 DEF OnRtnDepthMarketData
    <2>2. QED  BY <1>4, <1>5, <2>1, QuoteFeeds, FeedInLine, SameBars
  <1>6. ASSUME NewSession PROVE Goal
    <2>1. UNCHANGED <<candles, aborted>>  BY <1>6 DEF NewSession
    <2>2. QED  BY <1>3, <1>4, <1>6, <2>1, SessionInLine, SameBars
  <1>7. ASSUME distribute_fake_tick_function PROVE Goal
    <2>1. UNCHANGED <<candles, aborted>>  BY <1>7 DEF distribute_fake_tick_function
    <2>2. session = 1  BY <1>7 DEF distribute_fake_tick_function, OrderInv
    <2>3. QED  BY <1>3, <1>4, <1>7, <2>1, <2>2, ReplayFeeds, FeedInLine, SameBars
  <1>8. ASSUME FakeWake \/ DistLock \/ \E i \in Ins : CalcSkip(i) PROVE Goal
    <2>1. UNCHANGED <<candles, aborted>>  BY <1>8 DEF FakeWake, DistLock, CalcSkip
    <2>2. QED  BY <1>4, <1>8, <2>1, QuietInLine, SameBars
  <1>9. ASSUME DistDone PROVE Goal
    <2>1. UNCHANGED <<candles, aborted>>  BY <1>9 DEF DistDone
    <2>2. QED  BY <1>4, <1>9, <2>1, DoneInLine, SameBars
  <1>10. ASSUME NEW i \in Ins, DistPush(i) PROVE Goal
    <2>1. UNCHANGED <<candles, aborted>>  BY <1>10 DEF DistPush
    <2>2. QED  BY <1>4, <1>10, <2>1, PushInLine, SameBars
  <1>11. ASSUME NEW i \in Ins, DistAbort(i) \/ CalcAbort(i) PROVE Goal
    BY <1>4, <1>11, NoDistAbort, NoCalcAbort
  <1>12. ASSUME NEW i \in Ins, CalcPublish(i) PROVE Goal
    <2>1. UNCHANGED aborted  BY <1>12 DEF CalcPublish
    <2>2. QED  BY <1>4, <1>12, <2>1, PublishInLine
  <1>13. ASSUME NEW i \in Ins, CalcErase(i) PROVE Goal
    <2>1. UNCHANGED <<candles, aborted>>  BY <1>13 DEF CalcErase
    <2>2. QED  BY <1>4, <1>13, <2>1, EraseInLine, SameBars
  <1>14. ASSUME NEW i \in Ins, CalcNoTail(i) PROVE Goal
    <2>1. UNCHANGED <<candles, aborted>>  BY <1>14 DEF CalcNoTail
    <2>2. QED  BY <1>4, <1>14, <2>1, NoTailInLine, SameBars
  <1>15. ASSUME UNCHANGED vars PROVE Goal
    <2>1. UNCHANGED <<candles, aborted>>  BY <1>15 DEF vars
    <2>2. InLine'
      BY <1>4, <1>15 DEF vars, subvars, basevars, feedvars, InLine, BaseInOrder, PendingInOrder,
         BarsBehind, position, Undistributed, NotYetCut, TickLocked, Inst
    <2>3. QED  BY <1>4, <2>1, <2>2, SameBars
  <1>16. QED
    BY <1>5, <1>6, <1>7, <1>8, <1>9, <1>10, <1>11, <1>12, <1>13, <1>14, <1>15
    DEF Next, Feed, Distributor, Calculator, Calculate

THEOREM OrderInvariant == Spec => []OrderInv
  <1>1. TypeOK /\ Accounted /\ OrderInv /\ [Next]_vars => OrderInv'  BY OrderStep
  <1>2. QED  BY OrderInit, <1>1, TypeCorrect, AlwaysAccounted, PTL DEF Spec

\* Nothing overtakes, for any number of instruments, ticks, days and any
\* threshold, as long as the feed does not start over on undigested ticks.
THEOREM NeverOvertakes == Spec => []NothingOvertakes
  <1>1. OrderInv => NothingOvertakes  BY DEF OrderInv, NothingOvertakes, InLine
  <1>2. QED  BY <1>1, OrderInvariant, PTL

\* Bars come out one per minute, in order.
THEOREM BarsInOrder == Spec => []OneBarPerMinute
  <1>1. OrderInv => OneBarPerMinute  BY DEF OrderInv, OneBarPerMinute
  <1>2. QED  BY <1>1, OrderInvariant, PTL

\* The process does not abort on a feed in order.
THEOREM NoSpuriousAbort == Spec => []AbortsOnlyAfterRestart
  <1>1. OrderInv => AbortsOnlyAfterRestart  BY DEF OrderInv, AbortsOnlyAfterRestart
  <1>2. QED  BY <1>1, OrderInvariant, PTL

-----------------------------------------------------------------------------
(* Bars of whole minutes are complete.  Ticks that have been cut, into a    *)
(* bar or dropped, are of earlier minutes than all that is still to come;   *)
(* for the dropped ones that follows from why the market counts as closed:  *)
(* a tick has come that is after them and out of the market's hours.        *)

\* What the distributor or the feed still has for i is of later minutes.
After(i, bar) == /\ \A p \in Undistributed(i) : Behind(bar, session, sub_ticks_[p])
                 /\ Behind(bar, session, position(i))

\* The bar a tick would be by itself.
BarOf(tick) == convert_tick2min(<<tick>>)

\* The ticks that are cut are behind the others,
Settled(i) == \A j \in 1..cutpoint[i] : WholeMinute(Minute(accepted[i][j])) =>
    /\ After(i, BarOf(accepted[i][j]))
    /\ \A k \in cutpoint[i] + 1..Len(accepted[i]) :
          Earlier(BarOf(accepted[i][j]), BarOf(accepted[i][k]))

\* ... and on a closed market those that are not cut are behind what comes.
Closing(i) == ~mtk_open_[i] =>
    \A j \in cutpoint[i] + 1..Len(accepted[i]) :
        WholeMinute(Minute(accepted[i][j])) => After(i, BarOf(accepted[i][j]))

CompleteInv == /\ CompleteBars
               /\ ~restarted => \A i \in Ins : Settled(i) /\ Closing(i)

LEMMA BarOfTick == ASSUME TypeOK, NEW t \in Tick
                   PROVE /\ BarOf(t) \in Candle
                         /\ BarOf(t).trade_day = t.TradingDay
                         /\ BarOf(t).trade_time = 100 * Minute(t)
  <1>1. <<t>> \in Seq(Tick) /\ <<t>> # <<>> /\ Len(<<t>>) = 1 /\ <<t>>[1] = t  OBVIOUS
  <1>2. BarOf(t) \in Candle  BY <1>1, CandleType DEF BarOf
  <1>3. QED  BY <1>1, <1>2 DEF BarOf, convert_tick2min, Last

\* No step of the day brings anything before what a bar was before.
LEMMA AfterKept ==
    ASSUME TypeOK, OrderInv, [Next]_vars, ~restarted', NEW i \in Ins, NEW bar \in Candle,
           After(i, bar)
    PROVE After(i, bar)'
  <1>1. /\ sub_ticks_ \in Seq(Tick) /\ Len(sub_ticks_) \in Nat
        /\ session \in Nat /\ bar.trade_day \in Nat /\ dist \in Nat
    <2>1. MaxSessions \in Nat  BY ConstantsAssumption DEF ConstantsAssumption
    <2>2. session \in Nat /\ bar.trade_day \in Nat  BY <2>1 DEF TypeOK, Candle
    <2>3. QED  BY <2>2 DEF TypeOK
  <1>2. ASSUME NEW i0 \in Ins, NEW t \in Tick, Feeds(i0, t) PROVE After(i, bar)'
    <2>1. Behind(bar, session, position(i)')
      BY <1>1, <1>2, PositionStamp, BehindMonotone DEF Feeds, After
    <2>2. ASSUME NEW p \in Undistributed(i)' PROVE Behind(bar, session, sub_ticks_'[p])
      <3>1. /\ p \in 1..Len(sub_ticks_) + 1 /\ sub_ticks_'[p].InstrumentID = i
            /\ \A q \in 1..Len(sub_ticks_) : sub_ticks_'[q] = sub_ticks_[q]
            /\ sub_ticks_'[Len(sub_ticks_) + 1] = t
        BY <1>1, <1>2 DEF Feeds, Undistributed
      <3>2. CASE p = Len(sub_ticks_) + 1
        <4>1. i = i0  BY <1>2, <3>1, <3>2 DEF Feeds
        <4>2. NotAfter(position(i), t) /\ Behind(bar, session, position(i))
          BY <1>2, <4>1 DEF Feeds, After
        <4>3. Stamp(t) /\ Stamp(position(i))  BY TickStamp, PositionStamp
        <4>4. QED  BY <1>1, <3>1, <3>2, <4>2, <4>3, BehindMonotone
      <3>3. CASE p \in 1..Len(sub_ticks_)
        <4>1. p \in Undistributed(i)  BY <1>2, <3>1, <3>3 DEF Feeds, Undistributed
        <4>2. QED  BY <3>1, <3>3, <4>1 DEF After
      <3>4. QED  BY <1>1, <3>1, <3>2, <3>3
    <2>3. QED  BY <1>2, <2>1, <2>2 DEF After, Feeds
  <1>3. CASE NewSession
    <2>1. sub_ticks_' = <<>> /\ session' = session + 1
      BY <1>3 DEF NewSession, subvars
    <2>2. bar.trade_day < session'
      BY <1>1, <2>1 DEF After, Behind, Earlier
    <2>3. Undistributed(i)' = {}  BY <2>1 DEF Undistributed
    <2>4. Behind(bar, session, position(i))'  BY <2>2 DEF Behind, Earlier
    <2>5. QED  BY <2>3, <2>4 DEF After
  <1> DEFINE Same == /\ UNCHANGED <<session, market, instrument_tick_one_day, data_index, total_volum>>
                     /\ sub_ticks_' = <<>> \/ (sub_ticks_' = sub_ticks_ /\ dist' \in Nat /\ dist <= dist')
  <1>4. ASSUME Same PROVE After(i, bar)'
    <2>1. position(i)' = position(i)  BY <1>4 DEF position
    <2>2. \A p \in Undistributed(i)' : p \in Undistributed(i) /\ sub_ticks_'[p] = sub_ticks_[p]
      <3>1. CASE sub_ticks_' = <<>>  BY <3>1 DEF Undistributed
      <3>2. CASE sub_ticks_' = sub_ticks_ /\ dist' \in Nat /\ dist <= dist'
        BY <1>1, <3>2 DEF Undistributed
      <3>3. QED  BY <1>4, <3>1, <3>2
    <2>3. QED  BY <1>4, <2>1, <2>2 DEF After
  <1>5. CASE UNCHANGED <<sub_ticks_, dist, feedvars>>
    <2>1. Same  BY <1>1, <1>5 DEF feedvars
    <2>2. QED  BY <1>4, <2>1
  <1>6. CASE DistLock \/ DistDone \/ \E x \in Ins : DistPush(x)
    <2>1. SubFree => dist = 0  BY DEF TypeOK, SubFree
    <2>2. Same  BY <1>1, <1>6, <2>1 DEF DistLock, DistDone, DistPush, feedvars
    <2>3. QED  BY <1>4, <2>2
  <1>7. ASSUME FakeWake \/ UNCHANGED vars \/ \E x \in Ins : DistAbort(x) \/ Calculate(x)
        PROVE UNCHANGED <<sub_ticks_, dist, feedvars>>
    <2>1. ASSUME NEW x \in Ins, Calculate(x) PROVE UNCHANGED <<sub_ticks_, dist, feedvars>>
      BY <2>1 DEF Calculate, CalcSkip, CalcPublish, CalcErase, CalcNoTail, CalcAbort, subvars
    <2>2. CASE FakeWake  BY <2>2 DEF FakeWake
    <2>3. ASSUME NEW x \in Ins, DistAbort(x) PROVE UNCHANGED <<sub_ticks_, dist, feedvars>>
      BY <2>3 DEF DistAbort, subvars
    <2>4. CASE UNCHANGED vars  BY <2>4 DEF vars, subvars
    <2>5. QED  BY <1>7, <2>1, <2>2, <2>3, <2>4
  <1>8. CASE distribute_fake_tick_function
    <2>1. session = 1  BY <1>8 DEF distribute_fake_tick_function, OrderInv
    <2>2. QED  BY <1>2, <1>8, <2>1, ReplayFeeds
  <1>9. ASSUME NEW x \in Ins, OnRtnDepthMarketData(x) PROVE After(i, bar)'
    BY <1>2, <1>9, QuoteFeeds
  <1> HIDE DEF Same
  <1>10. QED
    BY <1>3, <1>5, <1>6, <1>7, <1>8, <1>9 DEF Next, Feed, Distributor, Calculator

\* A tick that all to come is after stays one.
LEMMA TickKept ==
    ASSUME TypeOK, OrderInv, [Next]_vars, ~restarted', NEW i \in Ins, NEW j \in DOMAIN accepted[i],
           accepted'[i][j] = accepted[i][j], After(i, BarOf(accepted[i][j]))
    PROVE After(i, BarOf(accepted[i][j]))'
  <1>1. accepted[i][j] \in Tick  BY DEF TypeOK
  <1>2. PICK c \in Candle : c = BarOf(accepted[i][j])  BY <1>1, BarOfTick
  <1>3. After(i, c)  BY <1>2
  <1>4. After(i, c)'  BY <1>3, AfterKept
  <1>5. BarOf(accepted[i][j])' = c  BY <1>2
  <1>6. QED  BY <1>4, <1>5 DEF After

LEMMA CutRange == ASSUME TypeOK, Accounted, NEW i \in Ins
                  PROVE /\ accepted[i] \in Seq(Tick) /\ Len(accepted[i]) \in Nat
                        /\ DOMAIN accepted[i] = 1..Len(accepted[i])
                        /\ cutpoint[i] \in 0..Len(accepted[i]) /\ cutpoint[i] >= taken[i]
                        /\ taken[i] \in Nat
  <1>1. /\ accepted[i] \in Seq(Tick) /\ tick_base_[i] \in Seq(Tick)
        /\ taken[i] \in Nat /\ calc.n \in Nat
    BY DEF TypeOK
  <1>2. /\ Len(accepted[i]) = taken[i] + Len(tick_base_[i])
        /\ TickLocked(i) => calc.n \in 1..Len(tick_base_[i]) - 1
    BY DEF Accounted
  <1>3. cutpoint[i] = taken[i] + (IF TickLocked(i) THEN calc.n ELSE 0)  BY DEF cutpoint
  <1>4. QED  BY <1>1, <1>2, <1>3

\* A tick that is not cut is in tick_base_, and of today.
LEMMA Uncut ==
    ASSUME TypeOK, Accounted, InLine, NEW i \in Ins, NEW j \in cutpoint[i] + 1..Len(accepted[i])
    PROVE /\ j - taken[i] \in 1..Len(tick_base_[i])
          /\ j - taken[i] \in NotYetCut(i)
          /\ tick_base_[i][j - taken[i]] = accepted[i][j]
          /\ accepted[i][j] \in Tick /\ accepted[i][j].TradingDay = session
  <1>1. /\ accepted[i] \in Seq(Tick) /\ tick_base_[i] \in Seq(Tick)
        /\ taken[i] \in Nat /\ calc.n \in Nat /\ Len(tick_base_[i]) \in Nat
    BY DEF TypeOK
  <1>2. /\ Len(accepted[i]) = taken[i] + Len(tick_base_[i])
        /\ \A m \in 1..Len(tick_base_[i]) : tick_base_[i][m] = accepted[i][taken[i] + m]
    BY DEF Accounted
  <1>3. cutpoint[i] = taken[i] + (IF TickLocked(i) THEN calc.n ELSE 0)  BY DEF cutpoint
  <1>4. /\ j - taken[i] \in 1..Len(tick_base_[i]) /\ taken[i] + (j - taken[i]) = j
        /\ TickLocked(i) => calc.n < j - taken[i]
    BY <1>1, <1>2, <1>3
  <1>5. tick_base_[i][j - taken[i]] = accepted[i][j]  BY <1>2, <1>4
  <1>6. tick_base_[i][j - taken[i]].TradingDay = session
    BY <1>4 DEF InLine, BaseInOrder
  <1>7. QED  BY <1>1, <1>4, <1>5, <1>6 DEF NotYetCut

\* A stream on which nothing happens.
LEMMA StreamKept ==
    ASSUME TypeOK, Accounted, OrderInv, [Next]_vars, ~restarted', NEW i \in Ins,
           Settled(i), Closing(i), accepted'[i] = accepted[i], cutpoint'[i] = cutpoint[i],
           mtk_open_'[i] = mtk_open_[i]
    PROVE Settled(i)' /\ Closing(i)'
  <1>1. \A j \in DOMAIN accepted[i] :
           After(i, BarOf(accepted[i][j])) => After(i, BarOf(accepted[i][j]))'
    BY TickKept
  <1>2. /\ \A j \in 1..cutpoint[i] : j \in DOMAIN accepted[i]
        /\ \A j \in cutpoint[i] + 1..Len(accepted[i]) : j \in DOMAIN accepted[i]
    BY CutRange
  <1>3. Settled(i)'  BY <1>1, <1>2 DEF Settled
  <1>4. Closing(i)'  BY <1>1, <1>2 DEF Closing
  <1>5. QED  BY <1>3, <1>4

\* In a minute of the market's hours every second is.
LEMMA OpenMinute == ASSUME NEW t \in Tick, WholeMinute(Minute(t))
                    PROVE check_mtk_time(t.UpdateTime)
  <1>1. convert_time_str2int(t.UpdateTime) \in Nat  BY TickStamp, TimeType DEF Stamp
  <1>2. ASSUME NEW s \in Nat, InMarketHours(100 * (s \div 100)), InMarketHours(100 * (s \div 100) + 59)
        PROVE InMarketHours(s)
    <2>1. PICK m \in Nat : m = s \div 100  OBVIOUS
    <2>2. 100 * m <= s /\ s <= 100 * m + 99  BY <2>1
    <2>3. /\ 100 * m \in Nat /\ 100 * m + 59 \in Nat
          /\ InMarketHours(100 * m) /\ InMarketHours(100 * m + 59)
      BY <1>2, <2>1
    <2>4. \/ 930 <= m /\ m <= 1129
          \/ 1300 <= m /\ m <= 1499
      BY <2>3 DEF InMarketHours
    <2>5. QED  BY <2>2, <2>4 DEF InMarketHours
  <1>3. QED  BY <1>1, <1>2 DEF WholeMinute, Minute, check_mtk_time

\* A tick out of the hours that is after one of a whole minute is after all
\* of that minute.
LEMMA ClosesBehind ==
    ASSUME NEW a \in Tick, NEW t \in Tick, NEW x, Stamp(x), NotAfter(a, t), NotAfter(t, x),
           WholeMinute(Minute(a)), ~check_mtk_time(t.UpdateTime)
    PROVE Minute(a) < Minute(x)
  <1>1. /\ Minute(a) \in Nat /\ Minute(t) \in Nat /\ Minute(x) \in Nat
        /\ Minute(a) <= Minute(t) /\ Minute(t) <= Minute(x)
    BY TickStamp, StampMinute, MinuteMonotone
  <1>2. Minute(t) # Minute(a)  BY OpenMinute
  <1>3. QED  BY <1>1, <1>2

\* A tick the distributor hands on: what is published is of earlier minutes.
LEMMA PushComplete ==
    ASSUME TypeOK, Accounted, OrderInv, CompleteInv, [Next]_vars, ~restarted, ~restarted',
           NEW i0 \in Ins, DistPush(i0)
    PROVE CompleteInv'
  <1> DEFINE dt == sub_ticks_[dist]
  <1>1. /\ dist \in Undistributed(i0) /\ dt \in Tick /\ dist' = dist + 1
        /\ UNCHANGED <<candles, cutpoint, sub_ticks_, session>>
        /\ UNCHANGED <<market, instrument_tick_one_day, data_index, total_volum>>
    BY DEF DistPush, Distributing, TypeOK, Undistributed, tick_base_pushback, cutpoint,
           TickLocked, Inst, feedvars
  <1>2. /\ accepted' = accepted \/ accepted' = [accepted EXCEPT ![i0] = Append(@, dt)]
        /\ mtk_open_' = [mtk_open_ EXCEPT ![i0] = check_mtk_time(dt.UpdateTime)]
    BY DEF DistPush, tick_base_pushback
  <1>3. InLine /\ CompleteBars /\ \A i \in Ins : Settled(i) /\ Closing(i)
    BY DEF OrderInv, CompleteInv
  <1>4. /\ accepted \in [Ins -> Seq(Tick)] /\ candles \in [Ins -> Seq(Candle)]
        /\ mtk_open_ \in [Ins -> BOOLEAN]
    BY DEF TypeOK
  <1>5. ASSUME NEW i \in Ins, NEW j \in 1..Len(accepted'[i])
        PROVE \/ j \in 1..Len(accepted[i]) /\ accepted'[i][j] = accepted[i][j]
              \/ i = i0 /\ j > Len(accepted[i]) /\ accepted'[i][j] = dt
    <2>1. accepted[i] \in Seq(Tick) /\ Len(accepted[i]) \in Nat  BY <1>4
    <2>2. CASE accepted'[i] = accepted[i]  BY <1>5, <2>2
    <2>3. CASE i = i0 /\ accepted'[i] = Append(accepted[i], dt)
      BY <1>1, <1>5, <2>1, <2>3
    <2>4. QED  BY <1>2, <1>4, <2>2, <2>3
  <1>6. ASSUME NEW i \in Ins, NEW j \in DOMAIN accepted[i]
        PROVE accepted'[i][j] = accepted[i][j]
    <2>1. accepted[i] \in Seq(Tick) /\ j \in 1..Len(accepted[i])  BY <1>4
    <2>2. Append(accepted[i], dt)[j] = accepted[i][j]  BY <1>1, <2>1
    <2>3. CASE accepted' = accepted  BY <2>3
    <2>4. CASE accepted' = [accepted EXCEPT ![i0] = Append(@, dt)]
      BY <1>4, <2>2, <2>4
    <2>5. QED  BY <1>2, <2>3, <2>4
  <1>7. dt.TradingDay = session /\ BarOf(dt) \in Candle
        /\ BarOf(dt).trade_day = session /\ BarOf(dt).trade_time = 100 * Minute(dt)
    BY <1>1, <1>3, BarOfTick DEF InLine, PendingInOrder
  <1> HIDE DEF dt
  <1>8. CompleteBars'
    <2>1. SUFFICES ASSUME NEW i \in Ins, NEW k \in DOMAIN candles[i], NEW j \in 1..Len(accepted'[i]),
                          100 * Minute(accepted'[i][j]) = candles[i][k].trade_time,
                          accepted'[i][j].TradingDay = candles[i][k].trade_day,
                          WholeMinute(Minute(accepted'[i][j]))
                   PROVE \E n \in DOMAIN candles[i][k].ticks : candles[i][k].ticks[n] = accepted'[i][j]
      <3>1. \A i \in Ins : DOMAIN accepted'[i] = 1..Len(accepted'[i])
        <4>1. dt \in Tick  BY <1>1 DEF dt
        <4>2. \A i \in Ins : accepted'[i] \in Seq(Tick)
          <5>1. CASE accepted' = accepted  BY <1>4, <5>1
          <5>2. CASE accepted' = [accepted EXCEPT ![i0] = Append(@, dt)]
            BY <1>4, <4>1, <5>2
          <5>3. QED  BY <1>2, <5>1, <5>2
        <4>3. QED  BY <4>2
      <3>2. QED  BY <1>1, <3>1 DEF CompleteBars
    <2>2. CASE j \in 1..Len(accepted[i]) /\ accepted'[i][j] = accepted[i][j]
      <3>1. j \in DOMAIN accepted[i]  BY <2>2, CutRange
      <3>2. \E n \in DOMAIN candles[i][k].ticks : candles[i][k].ticks[n] = accepted[i][j]
        BY <1>3, <2>1, <2>2, <3>1 DEF CompleteBars
      <3>3. QED  BY <2>2, <3>2
    <2>3. CASE i = i0 /\ accepted'[i][j] = dt
      <3>1. Behind(candles[i][k], session, dt)
        BY <1>1, <1>3, <2>3 DEF InLine, BarsBehind, dt
      <3>2. candles[i][k] \in Candle  BY <1>4
      <3>3. candles[i][k].trade_day \in Nat /\ candles[i][k].trade_time \in Nat
        BY <3>2, ConstantsAssumption DEF Candle, ConstantsAssumption
      <3>4. QED  BY <1>7, <2>1, <2>3, <3>1, <3>3 DEF Behind, Earlier
    <2>4. QED  BY <1>5, <2>2, <2>3
  <1>9. ASSUME NEW i \in Ins PROVE Settled(i)'
    <2>1. SUFFICES ASSUME NEW j \in 1..cutpoint[i], WholeMinute(Minute(accepted'[i][j]))
                   PROVE /\ After(i, BarOf(accepted[i][j]))'
                         /\ \A k \in cutpoint[i] + 1..Len(accepted'[i]) :
                               Earlier(BarOf(accepted[i][j]), BarOf(accepted'[i][k]))
      <3>1. \A j \in 1..cutpoint[i] : accepted'[i][j] = accepted[i][j]
        BY <1>6, CutRange
      <3>2. QED  BY <1>1, <3>1 DEF Settled
    <2>2. j \in DOMAIN accepted[i] /\ accepted'[i][j] = accepted[i][j]
      BY <1>6, CutRange
    <2>3. /\ After(i, BarOf(accepted[i][j]))
          /\ \A k \in cutpoint[i] + 1..Len(accepted[i]) :
                Earlier(BarOf(accepted[i][j]), BarOf(accepted[i][k]))
      BY <1>3, <2>1, <2>2 DEF Settled
    <2>4. After(i, BarOf(accepted[i][j]))'  BY <2>2, <2>3, TickKept
    <2>5. ASSUME NEW k \in cutpoint[i] + 1..Len(accepted'[i])
          PROVE Earlier(BarOf(accepted[i][j]), BarOf(accepted'[i][k]))
      <3>1. k \in 1..Len(accepted'[i])  BY CutRange
      <3>2. CASE k \in 1..Len(accepted[i]) /\ accepted'[i][k] = accepted[i][k]
        <4>1. k \in cutpoint[i] + 1..Len(accepted[i])  BY <3>2, CutRange
        <4>2. QED  BY <2>3, <3>2, <4>1
      <3>3. CASE i = i0 /\ accepted'[i][k] = dt
        <4>1. Behind(BarOf(accepted[i][j]), session, dt)
          BY <1>1, <2>3, <3>3 DEF After, dt
        <4>2. QED  BY <1>7, <3>3, <4>1 DEF Behind, Earlier
      <3>4. QED  BY <1>5, <3>1, <3>2, <3>3
    <2>6. QED  BY <2>4, <2>5
  <1>10. ASSUME NEW i \in Ins PROVE Closing(i)'
    <2>1. CASE i # i0
      <3>1. accepted'[i] = accepted[i] /\ mtk_open_'[i] = mtk_open_[i] /\ cutpoint'[i] = cutpoint[i]
        BY <1>1, <1>2, <1>4, <2>1
      <3>2. QED  BY <1>3, <3>1, StreamKept
    <2>2. CASE i = i0 /\ check_mtk_time(dt.UpdateTime)
      BY <1>2, <1>4, <2>2 DEF Closing
    <2>3. CASE i = i0 /\ ~check_mtk_time(dt.UpdateTime)
      <3>1. SUFFICES ASSUME NEW j \in cutpoint[i] + 1..Len(accepted'[i]),
                            WholeMinute(Minute(accepted'[i][j]))
                     PROVE After(i, BarOf(accepted[i][j]))'
        BY <1>1 DEF Closing
      <3>2. PICK a \in Tick : a = accepted'[i][j] /\ a.TradingDay = session /\ NotAfter(a, dt)
        <4>1. j \in 1..Len(accepted'[i])  BY CutRange
        <4>2. CASE j \in 1..Len(accepted[i]) /\ accepted'[i][j] = accepted[i][j]
          <5>1. j \in cutpoint[i] + 1..Len(accepted[i])  BY <4>2, CutRange
          <5>2. /\ j - taken[i] \in 1..Len(tick_base_[i])
                /\ tick_base_[i][j - taken[i]] = accepted[i][j]
                /\ accepted[i][j] \in Tick /\ accepted[i][j].TradingDay = session
            BY <1>3, <5>1, Uncut
          <5>3. NotAfter(tick_base_[i][j - taken[i]], dt)
            BY <1>1, <1>3, <2>3, <5>2 DEF InLine, BaseInOrder, dt
          <5>4. QED  BY <4>2, <5>2, <5>3
        <4>3. CASE accepted'[i][j] = dt
          BY <1>1, <1>7, <4>3, TickStamp, NotAfterReflexive DEF dt
        <4>4. QED  BY <1>5, <4>1, <4>2, <4>3
      <3>3. ASSUME NEW x, Stamp(x), NotAfter(dt, x) PROVE Behind(BarOf(a), session, x)
        <4>1. dt \in Tick /\ WholeMinute(Minute(a))  BY <1>1, <3>1, <3>2 DEF dt
        <4>2. Minute(a) < Minute(x)  BY <2>3, <3>2, <3>3, <4>1, ClosesBehind
        <4>3. /\ BarOf(a).trade_day = session /\ BarOf(a).trade_time = 100 * Minute(a)
              /\ Minute(a) \in Nat /\ Minute(x) \in Nat
          BY <3>2, <3>3, BarOfTick, MinuteType, StampMinute
        <4>4. QED  BY <4>2, <4>3 DEF Behind, Earlier
      <3>4. /\ Undistributed(i)' \subseteq Undistributed(i)
            /\ \A p \in Undistributed(i)' : dist < p
            /\ position(i)' = position(i)
        <4>1. dist \in Nat  BY DEF TypeOK
        <4>2. QED  BY <1>1, <4>1 DEF Undistributed, position
      <3>5. /\ \A p \in Undistributed(i)' : Stamp(sub_ticks_[p]) /\ NotAfter(dt, sub_ticks_[p])
            /\ Stamp(position(i)) /\ NotAfter(dt, position(i))
        <4>1. \A p \in Undistributed(i)' : sub_ticks_[p] \in Tick /\ dist <= p
          <5>1. dist \in Nat /\ sub_ticks_ \in Seq(Tick)  BY DEF TypeOK
          <5>2. \A p \in Undistributed(i) : p \in 1..Len(sub_ticks_)  BY DEF Undistributed
          <5>3. \A p \in Undistributed(i) : sub_ticks_[p] \in Tick /\ p \in Nat  BY <5>1, <5>2
          <5>4. QED  BY <3>4, <5>1, <5>3
        <4>2. /\ \A p \in Undistributed(i) : dist <= p => NotAfter(dt, sub_ticks_[p])
              /\ NotAfter(dt, position(i))
          BY <1>1, <1>3, <2>3 DEF InLine, PendingInOrder, dt
        <4>3. QED  BY <3>4, <4>1, <4>2, TickStamp, PositionStamp
      <3>6. /\ \A p \in Undistributed(i)' : Behind(BarOf(a), session', sub_ticks_'[p])
            /\ Behind(BarOf(a), session', position(i)')
        BY <1>1, <3>3, <3>4, <3>5
      <3>7. BarOf(accepted[i][j])' = BarOf(a)  BY <3>2
      <3>8. QED  BY <3>6, <3>7 DEF After
    <2>4. QED  BY <2>1, <2>2, <2>3
  <1>11. QED  BY <1>8, <1>9, <1>10 DEF CompleteInv

\* A bar: its ticks are all there are of its minute.
LEMMA PublishComplete ==
    ASSUME TypeOK, Accounted, OrderInv, OrderInv', CompleteInv, [Next]_vars, ~restarted,
           ~restarted', NEW i0 \in Ins, CalcPublish(i0)
    PROVE CompleteInv'
  <1> DEFINE acc == accepted[i0]
             c == cutpoint[i0]
  <1>1. PICK n \in 1..Len(acc) :
          /\ Bars!IsMinute(i0, n)
          /\ candles' = [candles EXCEPT ![i0] = Append(@,
                [trade_day |-> TradingDay(acc[c + 1]), trade_time |-> 100 * Minute(acc[c + n]),
                 ticks |-> SubSeq(acc, c + 1, c + n)])]
          /\ cutpoint' = [cutpoint EXCEPT ![i0] = @ + n]
          /\ UNCHANGED <<accepted, mtk_open_>>
    BY PublishRefines DEF Bars!Publish
  <1> DEFINE bar == [trade_day |-> TradingDay(acc[c + 1]), trade_time |-> 100 * Minute(acc[c + n]),
                     ticks |-> SubSeq(acc, c + 1, c + n)]
             K == Len(candles[i0]) + 1
  <1>2. /\ InLine /\ InLine' /\ CompleteBars /\ \A i \in Ins : Settled(i) /\ Closing(i)
        /\ session' = session
    BY DEF OrderInv, CompleteInv, CalcPublish, feedvars
  <1>3. /\ acc \in Seq(Tick) /\ Len(acc) \in Nat /\ DOMAIN acc = 1..Len(acc)
        /\ c \in 0..Len(acc) /\ c + n < Len(acc) /\ n \in Nat \ {0}
        /\ \A j \in 1..n : Minute(acc[c + j]) = Minute(acc[c + n])
        /\ Minute(acc[c + n]) < Minute(acc[c + n + 1])
    BY <1>1, CutRange DEF Bars!IsMinute
  <1>4. /\ candles \in [Ins -> Seq(Candle)] /\ K \in Nat
        /\ cutpoint'[i0] = c + n
        /\ \A i \in Ins : i # i0 => candles'[i] = candles[i] /\ cutpoint'[i] = cutpoint[i]
        /\ candles'[i0] = Append(candles[i0], bar)
    <2>1. candles \in [Ins -> Seq(Candle)]  BY DEF TypeOK
    <2>2. cutpoint \in [Ins -> Nat]
      <3>1. calc.n \in Nat /\ \A i \in Ins : taken[i] \in Nat  BY DEF TypeOK
      <3>2. \A i \in Ins : taken[i] + (IF TickLocked(i) THEN calc.n ELSE 0) \in Nat  BY <3>1
      <3>3. QED  BY <3>2 DEF cutpoint
    <2>3. candles[i0] \in Seq(Candle) /\ K \in Nat  BY <2>1
    <2>4. cutpoint'[i0] = c + n /\ \A i \in Ins : i # i0 => cutpoint'[i] = cutpoint[i]
      BY <1>1, <2>2
    <2>5. /\ candles'[i0] = Append(candles[i0], bar)
          /\ \A i \in Ins : i # i0 => candles'[i] = candles[i]
      BY <1>1, <2>1
    <2>6. QED  BY <2>1, <2>3, <2>4, <2>5
  <1>5. /\ DOMAIN candles'[i0] = 1..K /\ candles'[i0][K] = bar
        /\ \A k \in 1..K - 1 : candles'[i0][k] = candles[i0][k] /\ k \in DOMAIN candles[i0]
    <2>1. candles[i0] \in Seq(Candle)  BY <1>4
    <2>2. QED  BY <1>4, <2>1
  <1>6. ASSUME NEW j \in c + 1..Len(acc)
        PROVE /\ acc[j] \in Tick /\ acc[j].TradingDay = session /\ Minute(acc[j]) \in Nat
              /\ BarOf(acc[j]).trade_day = session /\ BarOf(acc[j]).trade_time = 100 * Minute(acc[j])
    BY <1>2, Uncut, BarOfTick, MinuteType
  <1>7. ASSUME NEW j \in c + 1..c + n
        PROVE j \in c + 1..Len(acc) /\ Minute(acc[j]) = Minute(acc[c + n])
    <2>1. j - c \in 1..n /\ c + (j - c) = j  BY <1>3
    <2>2. QED  BY <1>3, <2>1
  <1>8. ASSUME NEW k \in c + n + 1..Len(acc)
        PROVE k \in c + 1..Len(acc) /\ Minute(acc[c + n]) < Minute(acc[k])
    <2> DEFINE m == c + n + 1
    <2>1. m \in c + 1..Len(acc) /\ k \in c + 1..Len(acc) /\ m <= k /\ c + n \in c + 1..Len(acc)
      BY <1>3
    <2>2. /\ m - taken[i0] \in 1..Len(tick_base_[i0]) /\ tick_base_[i0][m - taken[i0]] = acc[m]
          /\ k - taken[i0] \in 1..Len(tick_base_[i0]) /\ tick_base_[i0][k - taken[i0]] = acc[k]
      BY <1>2, <2>1, Uncut
    <2>3. k - taken[i0] \in m - taken[i0]..Len(tick_base_[i0])
      BY <1>3, <2>1, <2>2, CutRange
    <2>4. NotAfter(acc[m], acc[k])  BY <1>2, <2>2, <2>3 DEF InLine, BaseInOrder
    <2>5. acc[m] \in Tick /\ acc[k] \in Tick /\ acc[c + n] \in Tick  BY <1>6, <2>1
    <2>6. Minute(acc[m]) <= Minute(acc[k])
      BY <2>4, <2>5, TickStamp, MinuteMonotone
    <2>7. Minute(acc[m]) \in Nat /\ Minute(acc[k]) \in Nat /\ Minute(acc[c + n]) \in Nat
      BY <2>5, MinuteType
    <2>8. Minute(acc[c + n]) < Minute(acc[m])  BY <1>3
    <2> HIDE DEF m, acc, c
    <2>9. QED  BY <2>1, <2>6, <2>7, <2>8
  <1>9. c + 1 \in c + 1..c + n /\ c + n \in c + 1..c + n  BY <1>3
  <1>10. /\ bar.trade_day = session /\ bar.trade_time = 100 * Minute(acc[c + n])
         /\ Minute(acc[c + n]) \in Nat
    BY <1>6, <1>7, <1>9 DEF TradingDay
  <1>11. ASSUME NEW i \in Ins, i # i0 PROVE Settled(i)' /\ Closing(i)'
    BY <1>1, <1>2, <1>4, <1>11, StreamKept
  <1> HIDE DEF acc, c, K
  <1>12. ASSUME NEW j \in c + 1..c + n, WholeMinute(Minute(acc[j]))
         PROVE After(i0, BarOf(accepted[i0][j]))'
    <2>1. /\ \A p \in Undistributed(i0)' : Behind(bar, session', sub_ticks_'[p])
          /\ Behind(bar, session', position(i0)')
      <3>1. K \in DOMAIN candles'[i0]  BY <1>4, <1>5
      <3>2. BarsBehind(i0)'  BY <1>2 DEF InLine
      <3>3. QED  BY <1>5, <3>1, <3>2 DEF BarsBehind
    <2>2. /\ BarOf(acc[j]).trade_day = bar.trade_day
          /\ BarOf(acc[j]).trade_time = bar.trade_time
      BY <1>6, <1>7, <1>10
    <2>3. /\ \A p \in Undistributed(i0)' : Behind(BarOf(acc[j]), session', sub_ticks_'[p])
          /\ Behind(BarOf(acc[j]), session', position(i0)')
      BY <2>1, <2>2 DEF Behind, Earlier
    <2>4. BarOf(accepted[i0][j])' = BarOf(acc[j])  BY <1>1 DEF acc
    <2>5. QED  BY <2>3, <2>4 DEF After
  <1>13. Settled(i0)'
    <2>1. SUFFICES ASSUME NEW j \in 1..c + n, WholeMinute(Minute(acc[j]))
                   PROVE /\ After(i0, BarOf(accepted[i0][j]))'
                         /\ \A k \in c + n + 1..Len(acc) : Earlier(BarOf(acc[j]), BarOf(acc[k]))
      BY <1>1, <1>4 DEF Settled, acc
    <2>2. CASE j \in 1..c
      <3>1. /\ After(i0, BarOf(acc[j])) /\ j \in DOMAIN acc
            /\ \A k \in c + 1..Len(acc) : Earlier(BarOf(acc[j]), BarOf(acc[k]))
        <4>1. j \in DOMAIN acc  BY <1>3, <2>2
        <4>2. Settled(i0)  BY <1>2
        <4>3. QED  BY <2>1, <2>2, <4>1, <4>2 DEF Settled, acc, c
      <3>2. After(i0, BarOf(accepted[i0][j]))'
        BY <1>1, <3>1, TickKept DEF acc
      <3>3. QED  BY <1>8, <3>1, <3>2
    <2>3. CASE j \in c + 1..c + n
      <3>1. After(i0, BarOf(accepted[i0][j]))'  BY <1>12, <2>1, <2>3
      <3>2. ASSUME NEW k \in c + n + 1..Len(acc) PROVE Earlier(BarOf(acc[j]), BarOf(acc[k]))
        <4>1. Minute(acc[j]) < Minute(acc[k])  BY <1>7, <1>8, <2>3
        <4>2. /\ BarOf(acc[j]).trade_day = session /\ BarOf(acc[j]).trade_time = 100 * Minute(acc[j])
              /\ BarOf(acc[k]).trade_day = session /\ BarOf(acc[k]).trade_time = 100 * Minute(acc[k])
              /\ Minute(acc[j]) \in Nat /\ Minute(acc[k]) \in Nat
          BY <1>6, <1>7, <1>8, <2>3
        <4>3. QED  BY <4>1, <4>2 DEF Earlier
      <3>3. QED  BY <3>1, <3>2
    <2>4. QED  BY <1>3, <2>1, <2>2, <2>3
  <1>14. Closing(i0)'
    <2>1. SUFFICES ASSUME ~mtk_open_[i0], NEW j \in c + n + 1..Len(acc), WholeMinute(Minute(acc[j]))
                   PROVE After(i0, BarOf(accepted[i0][j]))'
      BY <1>1, <1>4 DEF Closing, acc
    <2>2. j \in c + 1..Len(acc) /\ j \in DOMAIN acc  BY <1>3, <1>8
    <2>3. After(i0, BarOf(acc[j]))  BY <1>2, <2>1, <2>2 DEF Closing, acc, c
    <2>4. QED  BY <1>1, <2>2, <2>3, TickKept DEF acc
  <1>15. CompleteBars'
    <2>1. SUFFICES ASSUME NEW i \in Ins, NEW k \in DOMAIN candles'[i], NEW j \in DOMAIN accepted[i],
                          100 * Minute(accepted[i][j]) = candles'[i][k].trade_time,
                          accepted[i][j].TradingDay = candles'[i][k].trade_day,
                          WholeMinute(Minute(accepted[i][j]))
                   PROVE \E m \in DOMAIN candles'[i][k].ticks : candles'[i][k].ticks[m] = accepted[i][j]
      <3>1. accepted' = accepted  BY <1>1
      <3>2. QED  BY <3>1 DEF CompleteBars
    <2>2. CASE i # i0 \/ k \in 1..K - 1
      <3>1. k \in DOMAIN candles[i] /\ candles'[i][k] = candles[i][k]
        BY <1>4, <1>5, <2>1, <2>2
      <3>2. QED  BY <1>2, <2>1, <3>1 DEF CompleteBars
    <2>3. CASE i = i0 /\ k = K
      <3>1. 100 * Minute(acc[j]) = bar.trade_time /\ acc[j].TradingDay = session /\ j \in 1..Len(acc)
            /\ WholeMinute(Minute(acc[j])) /\ acc[j] \in Tick
        BY <1>3, <1>5, <1>10, <2>1, <2>3 DEF acc
      <3>2. Minute(acc[j]) = Minute(acc[c + n])
        BY <1>10, <3>1, MinuteType
      <3>3. ~(j \in 1..c)
        <4>1. SUFFICES ASSUME j \in 1..c PROVE FALSE  OBVIOUS
        <4>2. c + 1 \in c + 1..Len(acc)  BY <1>7, <1>9
        <4>3. Earlier(BarOf(acc[j]), BarOf(acc[c + 1]))
          BY <1>2, <3>1, <4>1, <4>2 DEF Settled, acc, c
        <4>4. /\ BarOf(acc[j]).trade_day = session /\ BarOf(acc[j]).trade_time = 100 * Minute(acc[j])
          BY <3>1, BarOfTick
        <4>5. /\ BarOf(acc[c + 1]).trade_day = session
              /\ BarOf(acc[c + 1]).trade_time = 100 * Minute(acc[c + n])
          BY <1>6, <1>7, <1>9
        <4>6. session \in Nat  BY ConstantsAssumption DEF TypeOK, ConstantsAssumption
        <4>7. QED  BY <1>10, <3>2, <4>3, <4>4, <4>5, <4>6 DEF Earlier
      <3>4. ~(j \in c + n + 1..Len(acc))  BY <1>8, <1>10, <3>2
      <3>5. j \in c + 1..c + n  BY <1>3, <3>1, <3>3, <3>4
      <3>6. /\ Len(bar.ticks) = n /\ bar.ticks \in Seq(Tick) /\ bar.ticks[j - c] = acc[j]
            /\ j - c \in 1..n
        <4>1. c + 1 \in 1..Len(acc) + 1 /\ c + n \in c + 1 - 1..Len(acc)  BY <1>3
        <4>2. /\ SubSeq(acc, c + 1, c + n) \in Seq(Tick)
              /\ Len(SubSeq(acc, c + 1, c + n)) = c + n - (c + 1) + 1
              /\ \A q \in 1..c + n - (c + 1) + 1 :
                    SubSeq(acc, c + 1, c + n)[q] = acc[c + 1 + q - 1]
          BY <1>3, <4>1, Segment
        <4>3. c + n - (c + 1) + 1 = n /\ j - c \in 1..n /\ c + 1 + (j - c) - 1 = j
          BY <1>3, <3>5
        <4>4. QED  BY <4>2, <4>3
      <3>7. j - c \in DOMAIN bar.ticks  BY <3>6
      <3>8. QED  BY <1>5, <2>3, <3>6, <3>7 DEF acc
    <2>4. QED  BY <1>4, <1>5, <2>2, <2>3
  <1>16. QED  BY <1>11, <1>13, <1>14, <1>15 DEF CompleteInv

\* Bars stay complete when no tick and no bar is added.
LEMMA SameComplete == ASSUME CompleteBars, ~restarted, UNCHANGED <<candles, accepted>>
                      PROVE CompleteBars'
  BY DEF CompleteBars

\* Dropping: what was held back on a closed market is before all to come.
LEMMA DiscardComplete ==
    ASSUME TypeOK, Accounted, OrderInv, CompleteInv, [Next]_vars, ~restarted, ~restarted',
           NEW i0 \in Ins, Bars!Discard(i0)
    PROVE CompleteInv'
  <1>1. /\ ~mtk_open_[i0] /\ UNCHANGED <<accepted, candles, mtk_open_>>
        /\ cutpoint' = [cutpoint EXCEPT ![i0] = Len(accepted[i0])]
    BY DEF Bars!Discard
  <1>2. CompleteBars /\ \A i \in Ins : Settled(i) /\ Closing(i)  BY DEF CompleteInv
  <1>3. cutpoint'[i0] = Len(accepted[i0]) /\ \A i \in Ins : i # i0 => cutpoint'[i] = cutpoint[i]
    BY <1>1 DEF cutpoint
  <1>4. ASSUME NEW i \in Ins, i # i0 PROVE Settled(i)' /\ Closing(i)'
    BY <1>1, <1>2, <1>3, <1>4, StreamKept
  <1>5. \A j \in Len(accepted[i0]) + 1..Len(accepted[i0]) : FALSE  BY CutRange
  <1>6. Closing(i0)'  BY <1>1, <1>3, <1>5 DEF Closing
  <1>7. Settled(i0)'
    <2>1. SUFFICES ASSUME NEW j \in 1..Len(accepted[i0]), WholeMinute(Minute(accepted[i0][j]))
                   PROVE After(i0, BarOf(accepted[i0][j]))'
      BY <1>1, <1>3, <1>5 DEF Settled
    <2>2. j \in DOMAIN accepted[i0] /\ (j \in 1..cutpoint[i0] \/ j \in cutpoint[i0] + 1..Len(accepted[i0]))
      BY CutRange
    <2>3. After(i0, BarOf(accepted[i0][j]))  BY <1>1, <1>2, <2>1, <2>2 DEF Settled, Closing
    <2>4. QED  BY <1>1, <2>2, <2>3, TickKept
  <1>8. CompleteBars'
    <2>1. UNCHANGED <<candles, accepted>>  BY <1>1
    <2>2. QED  BY <1>2, <2>1, SameComplete
  <1>9. QED  BY <1>4, <1>6, <1>7, <1>8 DEF CompleteInv

LEMMA CompleteStep ==
    ASSUME TypeOK, Accounted, OrderInv, OrderInv', CompleteInv, [Next]_vars
    PROVE CompleteInv'
  <1>1. CASE restarted'  BY <1>1 DEF CompleteInv, CompleteBars
  <1>2. CASE ~restarted'
    <2>1. ~restarted  BY <1>2, RestartStays
    <2>2. ASSUME NEW i \in Ins, DistPush(i) PROVE CompleteInv'
      BY <1>2, <2>1, <2>2, PushComplete
    <2>3. ASSUME NEW i \in Ins, CalcPublish(i) PROVE CompleteInv'
      BY <1>2, <2>1, <2>3, PublishComplete
    <2>4. ASSUME NEW i \in Ins, Bars!Discard(i) PROVE CompleteInv'
      BY <1>2, <2>1, <2>4, DiscardComplete
    <2>5. CASE UNCHANGED Bars!mbvars
      <3>1. UNCHANGED <<accepted, cutpoint, candles, mtk_open_>>  BY <2>5 DEF Bars!mbvars
      <3>2. CompleteBars /\ \A i \in Ins : Settled(i) /\ Closing(i)
        BY <2>1 DEF CompleteInv
      <3>3. \A i \in Ins : Settled(i)' /\ Closing(i)'
        BY <1>2, <3>1, <3>2, StreamKept
      <3>4. CompleteBars'  BY <2>1, <3>1, <3>2, SameComplete
      <3>5. QED  BY <3>3, <3>4 DEF CompleteInv
    <2>6. QED  BY <2>2, <2>3, <2>4, <2>5, StepKinds
  <1>3. QED  BY <1>1, <1>2

\* The bar of a whole minute has every tick accepted in it, for any number of
\* instruments, ticks and days, until the feed starts over.
THEOREM WholeMinutesComplete == Spec => []CompleteBars
  <1>1. Init => CompleteInv
    <2>1. SUFFICES ASSUME Init PROVE CompleteInv  OBVIOUS
    <2>2. \A i \in Ins : candles[i] = <<>> /\ accepted[i] = <<>> /\ cutpoint[i] = 0
      <3>1. calc.pc = "scan" /\ \A i \in Ins : taken[i] = 0  BY <2>1 DEF Init
      <3>2. \A i \in Ins : cutpoint[i] = 0  BY <3>1 DEF cutpoint, TickLocked
      <3>3. QED  BY <2>1, <3>2 DEF Init
    <2>3. \A i \in Ins : Settled(i) /\ Closing(i)  BY <2>2 DEF Settled, Closing
    <2>4. CompleteBars  BY <2>2 DEF CompleteBars
    <2>5. QED  BY <2>3, <2>4 DEF CompleteInv
  <1>2. TypeOK /\ Accounted /\ OrderInv /\ OrderInv' /\ CompleteInv /\ [Next]_vars => CompleteInv'
    BY CompleteStep
  <1>3. CompleteInv => CompleteBars  BY DEF CompleteInv
  <1>4. QED  BY <1>1, <1>2, <1>3, TypeCorrect, AlwaysAccounted, OrderInvariant, PTL DEF Spec
=============================================================================
