------------------------ MODULE TradePipelineProofs ------------------------
(***************************************************************************)
(* The components put together, for any instruments, periods, strategy,    *)
(* feed and bounds.  First: the pipeline's steps are steps of each of its  *)
(* components, so what is proved of a component holds in it.  Then, from   *)
(* that: the calculator never runs ahead of the strategy, and an order is  *)
(* about a finished, whole and archived minute.                            *)
(***************************************************************************)
EXTENDS TradePipeline, SequenceTheorems, TLAPS

\* The manager's proofs, about the same variables.
Proved == INSTANCE MdManagerProofs

LEMMA SameManager == Manager!Spec <=> Proved!Spec
BY PTL DEF
    Manager!Ins, Manager!Periods, Manager!Types, Manager!setup, Manager!scanned, Manager!vars,
    Manager!Init, Manager!OpenThread, Manager!Running, Manager!SetInstruments,
    Manager!Interested, Manager!Writing, Manager!Notify, Manager!Torn, Manager!Written,
    Manager!write_save_data, Manager!push_bar,
    Manager!MinuteBar, Manager!push_min_one_data, Manager!OneBack, Manager!get_instruments,
    Manager!Scanning, Manager!NextAt, Manager!Enough, Manager!NoBarYet, Manager!NextBar,
    Manager!Compose, Manager!Advance, Manager!Position, Manager!PeriodThread,
    Manager!OneThread, Manager!Main, Manager!Publish, Manager!Next, Manager!Spec,
    Proved!Ins, Proved!Periods, Proved!Types, Proved!setup, Proved!scanned, Proved!vars,
    Proved!Init, Proved!OpenThread, Proved!Running, Proved!SetInstruments,
    Proved!Interested, Proved!Writing, Proved!Notify, Proved!Torn, Proved!Written,
    Proved!write_save_data, Proved!push_bar,
    Proved!MinuteBar, Proved!push_min_one_data, Proved!OneBack, Proved!get_instruments,
    Proved!Scanning, Proved!NextAt, Proved!Enough, Proved!NoBarYet, Proved!NextBar,
    Proved!Compose, Proved!Advance, Proved!Position, Proved!PeriodThread,
    Proved!OneThread, Proved!Main, Proved!Publish, Proved!Next, Proved!Spec

LEMMA SameConstants ==
    Proved!ManagerAssumption /\ Manager!Ins = Proved!Ins /\ Manager!Types = Proved!Types
BY PipelineAssumption
   DEF Manager!ManagerAssumption, Proved!ManagerAssumption, Manager!Ins, Proved!Ins,
       Manager!Periods, Proved!Periods, Manager!Types, Proved!Types

-----------------------------------------------------------------------------
(* Every step is one of each component, or nothing to it.                  *)

LEMMA BroadcastStep == [Next]_vars => [Broadcast!Next]_(Broadcast!vars)
<1> SUFFICES ASSUME [Next]_vars PROVE [Broadcast!Next]_(Broadcast!vars)
  OBVIOUS
<1> USE DEF Broadcast!vars, Broadcast!subvars, Broadcast!basevars, Broadcast!feedvars,
            broadcastvars
<1>1. CASE Feed \/ FakeWake \/ Distributor
  BY <1>1 DEF Feed, FakeWake, Distributor, Alone, Broadcast!Next
<1>2. ASSUME NEW i \in Ins, CalcAlone(i) \/ CalcPublish(i) \/ CalcErase(i)
      PROVE  Broadcast!Next
  <2>1. Broadcast!Calculate(i) /\ i \in Broadcast!Ins
    BY <1>2 DEF CalcAlone, CalcPublish, CalcErase, Alone, Broadcast!Calculate,
                Ins, Manager!Ins, Broadcast!Ins
  <2> QED BY <2>1 DEF Broadcast!Next, Broadcast!Calculator
<1>3. ASSUME NEW t, PeriodThread(t) \/ Update(t)
      PROVE  UNCHANGED Broadcast!vars
  BY <1>3 DEF PeriodThread, PeriodStep, Update, write_save_data, push_bar
<1>4. CASE Main \/ IndicatorThread \/ UNCHANGED vars
  BY <1>4 DEF Main, IndicatorThread, vars
<1> QED BY <1>1, <1>2, <1>3, <1>4 DEF Next, Calculator

LEMMA ManagerStep == [Next]_vars => [Manager!Next]_(Manager!vars)
<1> SUFFICES ASSUME [Next]_vars PROVE [Manager!Next]_(Manager!vars)
  OBVIOUS
<1> USE DEF Manager!vars, Manager!setup, Manager!scanned, managervars
<1>1. CASE Feed \/ FakeWake \/ Distributor \/ IndicatorThread \/ UNCHANGED vars
  BY <1>1 DEF Feed, FakeWake, Distributor, IndicatorThread, Alone, vars
<1>2. ASSUME NEW i \in Ins, CalcAlone(i) \/ CalcPublish(i) \/ CalcErase(i)
      PROVE  [Manager!Next]_(Manager!vars)
  BY <1>2 DEF CalcAlone, CalcPublish, CalcErase, Alone, Ins, Manager!Next, Manager!Publish,
              Manager!OneThread
<1>3. ASSUME NEW t \in Manager!Types, Update(t) PROVE Manager!Next
  BY <1>3 DEF Update, write_save_data, push_bar, Manager!Next, Manager!OneThread,
              Manager!PeriodThread, Manager!Types
<1>4. ASSUME NEW t \in Manager!Periods, PeriodStep(t) PROVE Manager!Next
  BY <1>4 DEF PeriodStep, Ins, Manager!Next, Manager!PeriodThread
<1>5. CASE Main
  BY <1>5 DEF Main, Manager!Next
<1> QED BY <1>1, <1>2, <1>3, <1>4, <1>5 DEF Next, Calculator, PeriodThread, Manager!Types

LEMMA ManagerHere == Spec => Manager!Spec
<1>1. Init => Manager!Init
  BY DEF Init
<1> QED BY <1>1, ManagerStep, PTL DEF Spec, Manager!Spec

LEMMA ManagerFacts == Spec => []Proved!ManagerInv /\ []Proved!Numbered
<1>1. Proved!Spec => []Proved!ManagerInv
  BY Proved!ManagerInvariant, SameConstants
<1>2. Proved!Spec => []Proved!Numbered
  BY Proved!MinutesNumbered, SameConstants
<1> QED BY <1>1, <1>2, ManagerHere, SameManager, PTL

\* The bars that reach a node's series are of one the strategy keeps.
LEMMA StrategyStep ==
    Proved!ManagerInv /\ [Next]_vars => [Strategy!Next]_(Strategy!vars)
<1> SUFFICES ASSUME Proved!ManagerInv, [Next]_vars PROVE [Strategy!Next]_(Strategy!vars)
  OBVIOUS
<1> USE DEF Strategy!vars, Strategy!thread, strategyvars
<1>1. CASE Feed \/ FakeWake \/ Distributor \/ Main \/ UNCHANGED vars
  BY <1>1 DEF Feed, FakeWake, Distributor, Main, Alone, vars
<1>2. ASSUME NEW i \in Ins, CalcAlone(i) \/ CalcPublish(i) \/ CalcErase(i)
      PROVE  UNCHANGED Strategy!vars
  BY <1>2 DEF CalcAlone, CalcPublish, CalcErase, Alone
<1>3. ASSUME NEW t \in Manager!Types, Update(t) PROVE [Strategy!Next]_(Strategy!vars)
  <2>1. CASE write_save_data(t)
    BY <2>1 DEF write_save_data
  <2>2. CASE push_bar(t)
    <3>1. phase[t] = "push" /\ Strategy!push_bar(<<t, notified[t].ins>>)
      BY <2>2 DEF push_bar, Manager!push_bar
    <3>2. t \in k_type /\ notified[t].ins \in focused
      BY <3>1, SameConstants DEF Proved!ManagerInv, Proved!OnlyAskedFor, Proved!Updating,
                                 Proved!Interested
    <3>3. <<t, notified[t].ins>> \in Strategy!Nodes
      BY <3>2, PipelineAssumption
    <3> QED BY <3>1, <3>3 DEF Strategy!Next
  <2> QED BY <1>3, <2>1, <2>2 DEF Update
<1>4. ASSUME NEW t, PeriodStep(t) PROVE UNCHANGED Strategy!vars
  BY <1>4 DEF PeriodStep
<1>5. CASE IndicatorThread
  BY <1>5 DEF IndicatorThread, Strategy!Next
<1> QED BY <1>1, <1>2, <1>3, <1>4, <1>5 DEF Next, Calculator, PeriodThread, Manager!Types

\* The pipeline is a behaviour of each of its components: putting them
\* together adds no step to any, and takes no promise of theirs away.
THEOREM Components == Spec => Broadcast!Spec /\ Manager!Spec /\ Strategy!Spec
<1>1. Init => Broadcast!Init /\ Strategy!Init
  BY DEF Init
<1> QED BY <1>1, BroadcastStep, ManagerHere, StrategyStep, ManagerFacts, PTL
        DEF Spec, Broadcast!Spec, Strategy!Spec

-----------------------------------------------------------------------------
(* What the calculator has handed over                                     *)

\* The dataset has as many minutes as were published, and while the manager
\* works on one the calculator holds its instrument's ticks.
Handing ==
    /\ \A i \in Ins : Len(basic_minute_kdata_[ONE][i]) = Len(candles[i])
    /\ \E S : candles \in [Ins -> Seq(S)]
    /\ calc \in [k : Nat, pc : {"scan", "erase"}, n : Nat]
    /\ phase[ONE] \in {"write", "push", "back"} => calc.pc = "erase"
    /\ calc.pc = "erase" => Broadcast!Inst = notified[ONE].ins

LEMMA WiderSeq ==
    ASSUME NEW S, NEW T, S \subseteq T, NEW s \in Seq(S) PROVE s \in Seq(T)
<1>1. Len(s) \in Nat /\ s \in [1..Len(s) -> S]
  BY LenProperties
<1>2. s \in [1..Len(s) -> T]
  BY <1>1
<1> QED BY <1>1, <1>2, IsASeq

LEMMA ManagerTypesHere ==
    ASSUME Proved!ManagerInv
    PROVE  /\ ONE \in Manager!Types /\ ONE \notin Manager!Periods
           /\ Manager!Types = Manager!Periods \union {ONE}
           /\ phase \in [Manager!Types -> {"unborn", "start", "scan", "write", "push", "back"}]
           /\ notified \in [Manager!Types -> [ins : Ins, bar : Proved!Bar]]
           /\ basic_minute_kdata_ \in [Manager!Types -> [Ins -> Seq(Proved!Bar)]]
           /\ decision_data_ \in [Manager!Types -> [Ins -> Seq(Proved!Bar)]]
<1>1. Proved!TypeOK
  BY DEF Proved!ManagerInv
<1> QED BY <1>1, SameConstants DEF Proved!TypeOK, Ins, Manager!Types, Manager!Periods,
        Proved!ManagerAssumption, Proved!Types, Proved!Periods

\* A step that touches none of it.
LEMMA HandingKept ==
    ASSUME Handing, UNCHANGED <<calc, candles>>, phase'[ONE] = phase[ONE],
           notified'[ONE] = notified[ONE],
           \A i \in Ins : basic_minute_kdata_'[ONE][i] = basic_minute_kdata_[ONE][i]
    PROVE  Handing'
BY DEF Handing, Broadcast!Inst

LEMMA PublishHands ==
    ASSUME Proved!ManagerInv, Handing, NEW i \in Ins, CalcPublish(i) PROVE Handing'
<1> USE ManagerTypesHere
<1>1. PICK n \in 1..Len(tick_base_[i]) - 1 :
         /\ calc.pc = "scan" /\ Broadcast!Inst = i
         /\ candles' = [candles EXCEPT ![i] = Append(@,
               Broadcast!convert_tick2min(SubSeq(tick_base_[i], 1, n)))]
         /\ calc' = [calc EXCEPT !.pc = "erase", !.n = n]
  BY DEF CalcPublish, Broadcast!CalcPublish, Broadcast!Calculating
<1> DEFINE bar == Broadcast!convert_tick2min(SubSeq(tick_base_[i], 1, n))
           minute == Manager!MinuteBar(i)
<1>2. /\ basic_minute_kdata_' = [basic_minute_kdata_ EXCEPT ![ONE][i] = Append(@, minute)]
      /\ phase'[ONE] \in {"write", "back"}
      /\ notified'[ONE] = [ins |-> i, bar |-> minute]
  <2>1. Manager!push_min_one_data(i)
    BY DEF CalcPublish
  <2> HIDE DEF minute
  <2>2. /\ basic_minute_kdata_' = [basic_minute_kdata_ EXCEPT ![ONE][i] = Append(@, minute)]
        /\ Manager!Notify(ONE, i, minute)
    BY <2>1 DEF Manager!push_min_one_data, minute
  <2> QED BY <2>2 DEF Manager!Notify
<1> HIDE DEF bar, minute
<1>3. PICK S : candles \in [Ins -> Seq(S)]
  BY DEF Handing
<1>4. candles \in [Ins -> Seq(S \union {bar})]
  <2>1. \A j \in Ins : candles[j] \in Seq(S \union {bar})
    BY <1>3, WiderSeq
  <2> QED BY <1>3, <2>1
<1>5. candles' = [candles EXCEPT ![i] = Append(@, bar)]
  BY <1>1 DEF bar
<1>6. /\ candles' \in [Ins -> Seq(S \union {bar})]
      /\ Len(candles'[i]) = Len(candles[i]) + 1
      /\ \A j \in Ins \ {i} : candles'[j] = candles[j]
  BY <1>4, <1>5
<1>7. /\ Len(basic_minute_kdata_'[ONE][i]) = Len(basic_minute_kdata_[ONE][i]) + 1
      /\ \A j \in Ins \ {i} : basic_minute_kdata_'[ONE][j] = basic_minute_kdata_[ONE][j]
  <2>1. basic_minute_kdata_[ONE] \in [Ins -> Seq(Proved!Bar)]
    OBVIOUS
  <2>2. basic_minute_kdata_'[ONE] = [basic_minute_kdata_[ONE] EXCEPT ![i] = Append(@, minute)]
    BY <1>2
  <2>3. basic_minute_kdata_[ONE][i] \in Seq(Proved!Bar)
    BY <2>1
  <2>4. basic_minute_kdata_'[ONE][i] = Append(basic_minute_kdata_[ONE][i], minute)
    BY <2>1, <2>2
  <2>5. Len(Append(basic_minute_kdata_[ONE][i], minute)) = Len(basic_minute_kdata_[ONE][i]) + 1
    BY <2>3
  <2> QED BY <2>1, <2>2, <2>4, <2>5
<1>8. /\ calc' \in [k : Nat, pc : {"scan", "erase"}, n : Nat]
      /\ calc'.pc = "erase" /\ calc'.k = calc.k
  <2>1. n \in Nat
    OBVIOUS
  <2> QED BY <1>1, <2>1 DEF Handing
<1>9. Broadcast!Inst' = notified'[ONE].ins
  BY <1>1, <1>2, <1>8 DEF Broadcast!Inst
<1>10. \A j \in Ins : Len(basic_minute_kdata_'[ONE][j]) = Len(candles'[j])
  BY <1>6, <1>7 DEF Handing
<1> QED BY <1>6, <1>8, <1>9, <1>10 DEF Handing

LEMMA EraseHands ==
    ASSUME Proved!ManagerInv, Handing, NEW i \in Ins, CalcErase(i) PROVE Handing'
<1> USE ManagerTypesHere
<1>1. /\ calc' = Broadcast!NextInst /\ candles' = candles
      /\ phase' = [phase EXCEPT ![ONE] = "scan"]
      /\ UNCHANGED <<notified, basic_minute_kdata_>>
  BY DEF CalcErase, Broadcast!CalcErase, Manager!OneBack
<1>2. calc' \in [k : Nat, pc : {"scan", "erase"}, n : Nat] /\ calc'.pc = "scan"
  <2>1. Len(instruments) \in Nat \ {0} /\ calc.k \in Nat
    BY PipelineAssumption DEF Manager!ManagerAssumption, Handing
  <2>2. (calc.k % Len(instruments)) + 1 \in Nat
    BY <2>1
  <2> QED BY <1>1, <2>2 DEF Broadcast!NextInst
<1> QED BY <1>1, <1>2 DEF Handing

LEMMA AloneHands ==
    ASSUME Proved!ManagerInv, Handing, NEW i \in Ins, CalcAlone(i) PROVE Handing'
<1>1. UNCHANGED <<phase, notified, basic_minute_kdata_, candles>>
      /\ calc.pc = "scan" /\ calc' \in {calc, Broadcast!NextInst}
  BY DEF CalcAlone, Alone, managervars, Broadcast!CalcSkip, Broadcast!CalcNoTail,
         Broadcast!CalcAbort, Broadcast!Calculating
<1>2. CASE calc' = calc
  BY <1>1, <1>2, HandingKept
<1>3. CASE calc' = Broadcast!NextInst
  <2>1. Len(instruments) \in Nat \ {0} /\ calc.k \in Nat
    BY PipelineAssumption DEF Manager!ManagerAssumption, Handing
  <2>2. (calc.k % Len(instruments)) + 1 \in Nat
    BY <2>1
  <2>3. calc' \in [k : Nat, pc : {"scan", "erase"}, n : Nat] /\ calc'.pc = "scan"
    BY <1>3, <2>2 DEF Broadcast!NextInst
  <2> QED BY <1>1, <2>3 DEF Handing
<1> QED BY <1>1, <1>2, <1>3

LEMMA UpdateHands ==
    ASSUME Proved!ManagerInv, Handing, NEW t \in Manager!Types, Update(t) PROVE Handing'
<1> USE ManagerTypesHere
<1>1. /\ UNCHANGED <<calc, candles, notified, basic_minute_kdata_>>
      /\ \E from, to \in {"write", "push", "back"} :
            phase[t] = from /\ phase' = [phase EXCEPT ![t] = to]
  BY DEF Update, write_save_data, push_bar, broadcastvars, Manager!write_save_data,
         Manager!push_bar
<1>2. phase'[ONE] \in {"write", "push", "back"} => phase[ONE] \in {"write", "push", "back"}
  BY <1>1
<1> QED BY <1>1, <1>2 DEF Handing, Broadcast!Inst

LEMMA PeriodHands ==
    ASSUME Proved!ManagerInv, Handing, NEW t \in Manager!Periods, PeriodStep(t) PROVE Handing'
<1> USE ManagerTypesHere
<1>1. UNCHANGED <<calc, candles>> /\ t \in Manager!Types /\ t # ONE
  BY DEF PeriodStep, broadcastvars
<1>2. ASSUME NEW i \in Ins, Manager!Compose(t, i) PROVE Handing'
  <2>1. /\ basic_minute_kdata_' =
              [basic_minute_kdata_ EXCEPT ![t][i] = Append(@, Manager!NextBar(t))]
        /\ Manager!Notify(t, i, Manager!NextBar(t))
    BY <1>2 DEF Manager!Compose
  <2>2. basic_minute_kdata_'[ONE] = basic_minute_kdata_[ONE]
    BY <1>1, <2>1
  <2>3. phase'[ONE] = phase[ONE] /\ notified'[ONE] = notified[ONE]
    BY <1>1, <2>1 DEF Manager!Notify
  <2> QED BY <1>1, <2>2, <2>3, HandingKept
<1>3. CASE ~\E i \in Ins : Manager!Compose(t, i)
  <2>1. UNCHANGED <<basic_minute_kdata_, notified>> /\ phase'[ONE] = phase[ONE]
    BY <1>1, <1>3 DEF PeriodStep, Manager!get_instruments, Manager!Position, Manager!NoBarYet
  <2> QED BY <1>1, <2>1, HandingKept
<1> QED BY <1>2, <1>3

LEMMA HandingStep == Proved!ManagerInv /\ Handing /\ [Next]_vars => Handing'
<1> SUFFICES ASSUME Proved!ManagerInv, Handing, [Next]_vars PROVE Handing'
  OBVIOUS
<1>1. CASE Feed \/ FakeWake \/ Distributor
  <2>1. UNCHANGED <<calc, candles>>
    BY <1>1 DEF Feed, FakeWake, Distributor, Alone, Broadcast!Feed, Broadcast!NewSession,
                Broadcast!distribute_fake_tick_function, Broadcast!OnRtnDepthMarketData,
                Broadcast!FakeWake, Broadcast!Distributor, Broadcast!DistLock,
                Broadcast!DistDone, Broadcast!DistPush, Broadcast!DistAbort
  <2>2. UNCHANGED <<phase, notified, basic_minute_kdata_>>
    BY <1>1 DEF Feed, FakeWake, Distributor, Alone, managervars
  <2> QED BY <2>1, <2>2, HandingKept
<1>2. CASE Main
  <2>1. UNCHANGED <<calc, candles, notified, basic_minute_kdata_>>
    BY <1>2 DEF Main, broadcastvars, Manager!Main, Manager!OpenThread, Manager!SetInstruments
  <2>2. phase'[ONE] = phase[ONE]
    <3>1. CASE Manager!OpenThread
      <4>1. periods[main] \in Manager!Periods /\ phase' = [phase EXCEPT ![periods[main]] = "start"]
        BY <3>1 DEF Manager!OpenThread, Manager!Periods
      <4> QED BY <4>1, ManagerTypesHere
    <3>2. CASE Manager!SetInstruments
      BY <3>2 DEF Manager!SetInstruments
    <3> QED BY <1>2, <3>1, <3>2 DEF Main, Manager!Main
  <2> QED BY <2>1, <2>2, HandingKept
<1>3. CASE IndicatorThread \/ UNCHANGED vars
  BY <1>3, HandingKept DEF IndicatorThread, vars, broadcastvars, managervars
<1> QED BY <1>1, <1>2, <1>3, PublishHands, EraseHands, AloneHands, UpdateHands, PeriodHands,
           ManagerTypesHere
        DEF Next, Calculator, PeriodThread

LEMMA DeliveredFollows ==
    ASSUME Proved!ManagerInv, Proved!Numbered, Handing PROVE Delivered
<1> USE ManagerTypesHere
<1> SUFFICES ASSUME NEW i \in Ins, ONE \in k_type, i \in focused
             PROVE  LET got == decision_data_[ONE][i] IN
                    /\ \A k \in DOMAIN got : got[k].first = k
                    /\ Len(got) # Len(candles[i]) =>
                         Broadcast!TickLocked(i) /\ Len(got) = Len(candles[i]) - 1
  BY DEF Delivered, Handing
<1>1. \A k \in DOMAIN decision_data_[ONE][i] : decision_data_[ONE][i][k].first = k
  BY SameConstants DEF Proved!Numbered, Ins
<1>2. Len(candles[i]) = Len(decision_data_[ONE][i])
         + (IF phase[ONE] \in {"write", "push"} /\ notified[ONE].ins = i THEN 1 ELSE 0)
  BY DEF Handing, Proved!ManagerInv, Proved!Told, Proved!Updating, Proved!Minutes
<1>3. decision_data_[ONE][i] \in Seq(Proved!Bar)
  OBVIOUS
<1>4. Len(decision_data_[ONE][i]) \in Nat
  BY <1>3
<1>5. Len(decision_data_[ONE][i]) # Len(candles[i]) =>
         /\ phase[ONE] \in {"write", "push"} /\ notified[ONE].ins = i
         /\ Len(decision_data_[ONE][i]) = Len(candles[i]) - 1
  <2>1. CASE phase[ONE] \in {"write", "push"} /\ notified[ONE].ins = i
    <3> HIDE ManagerTypesHere
    <3>1. Len(candles[i]) = Len(decision_data_[ONE][i]) + 1
      BY <1>2, <2>1
    <3> QED BY <1>4, <2>1, <3>1
  <2>2. CASE ~ (phase[ONE] \in {"write", "push"} /\ notified[ONE].ins = i)
    <3>1. Len(candles[i]) = Len(decision_data_[ONE][i]) + 0
      BY <1>2, <2>2
    <3> QED BY <1>4, <3>1
  <2> QED BY <2>1, <2>2
<1>6. phase[ONE] \in {"write", "push"} /\ notified[ONE].ins = i => Broadcast!TickLocked(i)
  BY DEF Handing, Broadcast!TickLocked, Broadcast!Inst
<1> QED BY <1>1, <1>5, <1>6

LEMMA HandingInit == Init => Handing
<1> SUFFICES ASSUME Init PROVE Handing
  OBVIOUS
<1>1. /\ candles = [i \in Ins |-> <<>>] /\ calc = [k |-> 1, pc |-> "scan", n |-> 0]
      /\ phase[ONE] = "scan" /\ \A i \in Ins : basic_minute_kdata_[ONE][i] = <<>>
  BY DEF Init, Broadcast!Init, Manager!Init, Ins, Manager!Ins, Broadcast!Ins, Manager!Types
<1>2. candles \in [Ins -> Seq({})]
  BY <1>1
<1> QED BY <1>1, <1>2 DEF Handing

\* The strategy has every published minute of its instruments, in order, but
\* for one whose ticks the calculator keeps locked until it has it, too
\* (calculate_process calls push_min_one_data under tick_mutex_).
THEOREM StrategyHasTheMinutes == Spec => []Delivered
BY HandingInit, HandingStep, DeliveredFollows, ManagerFacts, PTL DEF Spec

\* Once for both instances of CMdManager: what is said of the archive.
LEMMA SameArchive ==
    /\ Proved!ArchiveWhole <=> Manager!ArchiveWhole
    /\ Proved!SavedBeforeUsed <=> Manager!SavedBeforeUsed
BY DEF Proved!ArchiveWhole, Proved!SavedBeforeUsed, Proved!Saved, Proved!Holds, Proved!Records,
       Proved!Given, Proved!Types, Proved!Periods, Proved!Ins, Proved!Interested,
       Manager!ArchiveWhole, Manager!SavedBeforeUsed, Manager!Saved, Manager!Holds,
       Manager!Records, Manager!Given, Manager!Types, Manager!Periods, Manager!Ins,
       Manager!Interested, Proved!Cardinality, Manager!Cardinality

\* The archive of a one period strategy holds just what the strategy has been
\* given, in the whole pipeline, too: only one of its threads writes.
THEOREM ArchiveWholeHere == Proved!OnePeriodAsked => (Spec => []ArchiveWhole)
<1> SUFFICES ASSUME Proved!OnePeriodAsked PROVE Spec => []ArchiveWhole
  OBVIOUS
<1>1. Proved!Spec => []Proved!ArchiveWhole
  BY Proved!ArchiveStaysWhole, SameConstants
<1>2. Proved!ArchiveWhole <=> ArchiveWhole
  BY SameArchive DEF ArchiveWhole
<1> QED BY <1>1, <1>2, ManagerHere, SameManager, PTL

\* Of whatever periods: until two threads write at once.
THEOREM SavedBeforeUsedHere == Spec => []Manager!SavedBeforeUsed
<1>1. Proved!Spec => []Proved!SavedBeforeUsed
  BY Proved!SavedFirst, SameConstants
<1> QED BY <1>1, SameArchive, ManagerHere, SameManager, PTL

-----------------------------------------------------------------------------
(* What an order is about                                                  *)

Broad == INSTANCE MdBroadcastProofs WITH subscribe_inst_ <- instruments
Looks == INSTANCE MaStrategyProofs WITH at <- node_at

\* The indicator thread's bars are the strategy's, and archived unless two
\* threads have raced for the file.
ArchivedOrRaced(i, n) == raced \/ Archived(i, n)
Kept == ONE \in k_type => \A i \in focused :
    /\ Len(candles_[<<ONE, i>>]) = Len(decision_data_[ONE][i])
    /\ \A n \in DOMAIN decision_data_[ONE][i] : ArchivedOrRaced(i, n)
    /\ phase[ONE] = "push" /\ notified[ONE].ins = i => ArchivedOrRaced(i, notified[ONE].bar.first)

LEMMA SameStrategy == Strategy!Spec <=> Looks!Spec
BY PTL DEF
    Strategy!Nodes, Strategy!Forks, Strategy!Verdict, Strategy!thread, Strategy!vars,
    Strategy!Node, Strategy!NextAt, Strategy!Init, Strategy!push_bar, Strategy!Enough,
    Strategy!NotReady, Strategy!Ready, Strategy!ForkAt, Strategy!get_fork_signal,
    Strategy!BarThere, Strategy!get_signal, Strategy!limit_bar,
    Strategy!trigger_signal_action, Strategy!IndicatorThread, Strategy!Next, Strategy!Spec,
    Looks!Nodes, Looks!Forks, Looks!Verdict, Looks!thread, Looks!vars,
    Looks!Node, Looks!NextAt, Looks!Init, Looks!push_bar, Looks!Enough,
    Looks!NotReady, Looks!Ready, Looks!ForkAt, Looks!get_fork_signal,
    Looks!BarThere, Looks!get_signal, Looks!limit_bar,
    Looks!trigger_signal_action, Looks!IndicatorThread, Looks!Next, Looks!Spec

LEMMA SameBroadcast == Broadcast!Spec <=> Broad!Spec
<1> USE DEF Broadcast!feedvars, Broadcast!basevars, Broadcast!subvars, Broadcast!vars,
            Broad!feedvars, Broad!basevars, Broad!subvars, Broad!vars
<1>1. Broadcast!Init <=> Broad!Init
  BY DEF Broadcast!Ins, Broadcast!Init, Broad!Ins, Broad!Init
<1>2. Broadcast!Next <=> Broad!Next
  BY DEF Broadcast!Ins, Broadcast!convert_time_str2int, Broadcast!Minute,
         Broadcast!InMarketHours, Broadcast!check_mtk_time, Broadcast!OneMinute,
         Broadcast!TailAt, Broadcast!BackwardsAt, Broadcast!SubFree, Broadcast!Inst,
         Broadcast!TickLocked, Broadcast!Room, Broadcast!Quote,
         Broadcast!OnRtnDepthMarketData, Broadcast!Idle, Broadcast!NewSession,
         Broadcast!row_index, Broadcast!distribute_fake_tick_function,
         Broadcast!FakeWake, Broadcast!DistLock, Broadcast!Distributing, Broadcast!Last,
         Broadcast!tick_base_pushback, Broadcast!DistPush, Broadcast!DistAbort,
         Broadcast!DistDone, Broadcast!Due, Broadcast!Calculating, Broadcast!NextInst,
         Broadcast!CalcSkip, Broadcast!convert_tick2min, Broadcast!CalcPublish,
         Broadcast!erase, Broadcast!CalcErase, Broadcast!Dumps, Broadcast!CalcNoTail,
         Broadcast!CalcAbort, Broadcast!Calculate, Broadcast!Calculator,
         Broadcast!Distributor, Broadcast!Feed, Broadcast!Next, Broad!Ins,
         Broad!convert_time_str2int, Broad!Minute, Broad!InMarketHours,
         Broad!check_mtk_time, Broad!OneMinute, Broad!TailAt, Broad!BackwardsAt,
         Broad!SubFree, Broad!Inst, Broad!TickLocked, Broad!Room, Broad!Quote,
         Broad!OnRtnDepthMarketData, Broad!Idle, Broad!NewSession, Broad!row_index,
         Broad!distribute_fake_tick_function, Broad!FakeWake, Broad!DistLock,
         Broad!Distributing, Broad!Last, Broad!tick_base_pushback, Broad!DistPush,
         Broad!DistAbort, Broad!DistDone, Broad!Due, Broad!Calculating, Broad!NextInst,
         Broad!CalcSkip, Broad!convert_tick2min, Broad!CalcPublish, Broad!erase,
         Broad!CalcErase, Broad!Dumps, Broad!CalcNoTail, Broad!CalcAbort,
         Broad!Calculate, Broad!Calculator, Broad!Distributor, Broad!Feed, Broad!Next
<1>3. [Broadcast!Next]_(Broadcast!vars) <=> [Broad!Next]_(Broad!vars)
  BY <1>2
<1> QED BY <1>1, <1>3, PTL DEF Broadcast!Spec, Broad!Spec

LEMMA BroadcastFacts == Spec => []Broad!CompleteBars /\ []Broad!OneBarPerMinute
<1>1. Broad!ConstantsAssumption /\ Broad!FilesAssumption
  <2>1. Broadcast!ConstantsAssumption /\ Broadcast!FilesAssumption
    BY PipelineAssumption
  <2>2. Broad!ConstantsAssumption
    BY <2>1 DEF Broadcast!ConstantsAssumption, Broad!ConstantsAssumption, Broadcast!Ins,
                Broad!Ins, Broadcast!Row, Broad!Row
  <2>3. Broad!FilesAssumption
    BY <2>1 DEF Broadcast!FilesAssumption, Broad!FilesAssumption,
                Broadcast!convert_time_str2int, Broad!convert_time_str2int
  <2> QED BY <2>2, <2>3
<1>2. Broad!Spec => []Broad!CompleteBars
  BY <1>1, Broad!WholeMinutesComplete
<1>3. Broad!Spec => []Broad!OneBarPerMinute
  BY <1>1, Broad!BarsInOrder
<1> QED BY <1>2, <1>3, Components, SameBroadcast, PTL

LEMMA LooksConstants == Looks!StrategyAssumption /\ Looks!Nodes = k_type \X focused
BY PipelineAssumption
   DEF Strategy!StrategyAssumption, Looks!StrategyAssumption, Strategy!Nodes, Looks!Nodes

LEMMA LooksFacts == Spec => []Looks!LookInv
<1>1. Looks!Spec => []Looks!LookInv
  BY Looks!LooksInvariant, LooksConstants
<1> QED BY <1>1, Components, SameStrategy, PTL

\* The archive is raced for once and for all.
LEMMA RacedStays == \A t, i, bar : Manager!Notify(t, i, bar) => (raced => raced')
BY Zenon DEF Manager!Notify

LEMMA KeptSame ==
    ASSUME Kept, UNCHANGED <<candles_, decision_data_, save_file_>>, raced => raced',
           phase'[ONE] = "push" => phase[ONE] = "push" /\ notified'[ONE] = notified[ONE]
    PROVE  Kept'
BY DEF Kept, ArchivedOrRaced, Archived

LEMMA WriteKept ==
    ASSUME Proved!ManagerInv, Kept, NEW t \in Manager!Types, write_save_data(t) PROVE Kept'
<1> USE ManagerTypesHere
<1> DEFINE Record == [period : Manager!Types, ins : Ins, bar : Proved!Bar, whole : BOOLEAN]
<1>1. save_file_ \in Seq(Record)
  BY SameConstants DEF Proved!ManagerInv, Proved!TypeOK, Ins
<1> DEFINE r == [period |-> t, ins |-> notified[t].ins, bar |-> notified[t].bar,
                 whole |-> TRUE]
<1>2. ~raced => save_file_' = Append(save_file_, r)
  BY DEF write_save_data, Manager!write_save_data
<1>3. /\ UNCHANGED <<candles_, decision_data_, notified, raced>>
      /\ phase' = [phase EXCEPT ![t] = "push"]
  BY DEF write_save_data, Manager!write_save_data, strategyvars
<1>4. /\ r \in Record
      /\ r.period = t /\ r.ins = notified[t].ins /\ r.bar = notified[t].bar /\ r.whole = TRUE
  OBVIOUS
<1> HIDE DEF r, Record
<1>5. ASSUME ~raced
      PROVE  /\ Len(save_file_) \in Nat /\ DOMAIN save_file_' = 1..Len(save_file_) + 1
             /\ \A k \in DOMAIN save_file_ : save_file_'[k] = save_file_[k]
             /\ DOMAIN save_file_ = 1..Len(save_file_)
             /\ save_file_'[Len(save_file_) + 1] = r
  <2>1. save_file_' = Append(save_file_, r)
    BY <1>2, <1>5
  <2> QED BY <1>1, <1>4, <2>1
<1>6. \A i, n : ArchivedOrRaced(i, n) => ArchivedOrRaced(i, n)'
  <2> SUFFICES ASSUME NEW i, NEW n, Archived(i, n), ~raced PROVE Archived(i, n)'
    BY <1>3 DEF ArchivedOrRaced
  <2>1. PICK k \in DOMAIN save_file_ :
           /\ save_file_[k].period = ONE /\ save_file_[k].ins = i
           /\ save_file_[k].whole /\ save_file_[k].bar.first = n
    BY DEF Archived
  <2>2. k \in DOMAIN save_file_' /\ save_file_'[k] = save_file_[k]
    BY <1>5
  <2> QED BY <2>1, <2>2 DEF Archived
<1>7. t = ONE => ArchivedOrRaced(notified[ONE].ins, notified[ONE].bar.first)'
  <2> SUFFICES ASSUME t = ONE, ~raced
               PROVE  \E k \in DOMAIN save_file_' :
                         /\ save_file_'[k].period = ONE
                         /\ save_file_'[k].ins = notified'[ONE].ins
                         /\ save_file_'[k].whole
                         /\ save_file_'[k].bar.first = notified'[ONE].bar.first
    BY <1>3 DEF ArchivedOrRaced, Archived
  <2>1. Len(save_file_) + 1 \in DOMAIN save_file_'
    BY <1>5
  <2> QED BY <1>3, <1>4, <1>5, <2>1
<1>8. phase'[ONE] = "push" => phase[ONE] = "push" \/ t = ONE
  BY <1>3
<1> QED BY <1>3, <1>6, <1>7, <1>8 DEF Kept

LEMMA PushKept ==
    ASSUME Proved!ManagerInv, Proved!Numbered', Looks!TypeOK, Kept,
           NEW t \in Manager!Types, push_bar(t)
    PROVE  Kept'
<1> USE ManagerTypesHere
<1>1. /\ phase[t] = "push" /\ phase' = [phase EXCEPT ![t] = "back"]
      /\ UNCHANGED <<notified, save_file_, raced>>
      /\ decision_data_' = [decision_data_ EXCEPT ![t][notified[t].ins] = Append(@, notified[t].bar)]
  BY DEF push_bar, Manager!push_bar
<1>2. PICK v \in Strategy!Verdict :
        candles_' = [candles_ EXCEPT ![<<t, notified[t].ins>>] = Append(@, v)]
  BY DEF push_bar, Strategy!push_bar
<1>3. SUFFICES ASSUME ONE \in k_type, NEW i \in focused
               PROVE  /\ Len(candles_'[<<ONE, i>>]) = Len(decision_data_'[ONE][i])
                      /\ \A n \in DOMAIN decision_data_'[ONE][i] : ArchivedOrRaced(i, n)'
                      /\ phase'[ONE] = "push" /\ notified'[ONE].ins = i
                           => ArchivedOrRaced(i, notified[ONE].bar.first)'
  BY DEF Kept
<1>4. \A n : ArchivedOrRaced(i, n)' <=> ArchivedOrRaced(i, n)
  BY <1>1 DEF ArchivedOrRaced, Archived
<1>5. /\ Len(candles_[<<ONE, i>>]) = Len(decision_data_[ONE][i])
      /\ \A n \in DOMAIN decision_data_[ONE][i] : ArchivedOrRaced(i, n)
      /\ phase[ONE] = "push" /\ notified[ONE].ins = i => ArchivedOrRaced(i, notified[ONE].bar.first)
  BY <1>3 DEF Kept
<1>6. /\ i \in Ins /\ decision_data_[ONE] \in [Ins -> Seq(Proved!Bar)]
      /\ <<ONE, i>> \in Looks!Nodes /\ candles_ \in [Looks!Nodes -> Seq(Looks!Verdict)]
  BY <1>3, LooksConstants, SameConstants DEF Proved!ManagerAssumption, Looks!TypeOK, Ins
<1>7. CASE t = ONE /\ notified[ONE].ins = i
  <2>1. decision_data_'[ONE] = [decision_data_[ONE] EXCEPT ![i] = Append(@, notified[ONE].bar)]
    BY <1>1, <1>7
  <2>2. decision_data_'[ONE][i] = Append(decision_data_[ONE][i], notified[ONE].bar)
    BY <1>6, <2>1
  <2>3. candles_'[<<ONE, i>>] = Append(candles_[<<ONE, i>>], v)
    BY <1>2, <1>6, <1>7
  <2>4. decision_data_[ONE][i] \in Seq(Proved!Bar) /\ notified[ONE].bar \in Proved!Bar
    BY <1>6
  <2>5. candles_[<<ONE, i>>] \in Seq(Looks!Verdict)
    BY <1>6
  <2>6. Len(candles_'[<<ONE, i>>]) = Len(decision_data_'[ONE][i])
    <3>1. Len(candles_'[<<ONE, i>>]) = Len(candles_[<<ONE, i>>]) + 1
      BY <2>3, <2>5
    <3>2. Len(decision_data_'[ONE][i]) = Len(decision_data_[ONE][i]) + 1
      BY <2>2, <2>4
    <3> QED BY <1>5, <3>1, <3>2
  <2>7. ASSUME NEW n \in DOMAIN decision_data_'[ONE][i] PROVE ArchivedOrRaced(i, n)
    <3>1. /\ DOMAIN decision_data_[ONE][i] = 1..Len(decision_data_[ONE][i])
          /\ DOMAIN decision_data_'[ONE][i] = 1..Len(decision_data_[ONE][i]) + 1
          /\ Len(decision_data_[ONE][i]) \in Nat
          /\ decision_data_'[ONE][i][Len(decision_data_[ONE][i]) + 1] = notified[ONE].bar
      BY <2>2, <2>4
    <3>2. CASE n \in DOMAIN decision_data_[ONE][i]
      BY <1>5, <3>2
    <3>3. CASE n = Len(decision_data_[ONE][i]) + 1
      <4>1. decision_data_'[ONE][i][n].first = n
        BY <1>6, SameConstants DEF Proved!Numbered, Ins
      <4>2. notified[ONE].bar.first = n
        BY <3>1, <3>3, <4>1
      <4> QED BY <1>1, <1>5, <1>7, <4>2
    <3> QED BY <3>1, <3>2, <3>3
  <2>8. phase'[ONE] # "push"
    BY <1>1, <1>7
  <2> QED BY <1>4, <2>6, <2>7, <2>8
<1>8. CASE ~(t = ONE /\ notified[ONE].ins = i)
  <2>1. decision_data_'[ONE][i] = decision_data_[ONE][i]
    BY <1>1, <1>6, <1>8
  <2>2. candles_'[<<ONE, i>>] = candles_[<<ONE, i>>]
    BY <1>2, <1>6, <1>8
  <2>3. phase'[ONE] = "push" => phase[ONE] = "push"
    BY <1>1
  <2> QED BY <1>1, <1>4, <1>5, <2>1, <2>2, <2>3
<1> QED BY <1>7, <1>8

LEMMA KeptStep ==
    Proved!ManagerInv /\ Proved!Numbered' /\ Looks!LookInv /\ Kept /\ [Next]_vars => Kept'
<1> SUFFICES ASSUME Proved!ManagerInv, Proved!Numbered', Looks!LookInv, Kept, [Next]_vars
             PROVE  Kept'
  OBVIOUS
<1> USE ManagerTypesHere
<1>1. CASE Feed \/ FakeWake \/ Distributor \/ IndicatorThread \/ UNCHANGED vars
  <2>1. UNCHANGED <<candles_, decision_data_, save_file_, raced, phase, notified>>
    BY <1>1 DEF Feed, FakeWake, Distributor, Alone, IndicatorThread, managervars, strategyvars,
                vars, Strategy!IndicatorThread, Strategy!NotReady, Strategy!Ready,
                Strategy!get_fork_signal, Strategy!get_signal, Strategy!trigger_signal_action
  <2> QED BY <2>1, KeptSame
<1>2. ASSUME NEW i \in Ins, CalcAlone(i) \/ CalcPublish(i) \/ CalcErase(i) PROVE Kept'
  <2>1. UNCHANGED <<candles_, decision_data_, save_file_>> /\ (raced => raced')
    BY <1>2, RacedStays
       DEF CalcAlone, CalcPublish, CalcErase, Alone, managervars, strategyvars,
           Manager!push_min_one_data, Manager!OneBack
  <2>2. CASE CalcAlone(i)
    BY <2>1, <2>2, KeptSame DEF CalcAlone, Alone, managervars
  <2>3. CASE CalcPublish(i) \/ CalcErase(i)
    <3>1. phase'[ONE] # "push"
      BY <2>3 DEF CalcPublish, CalcErase, Manager!push_min_one_data, Manager!OneBack,
                  Manager!Notify
    <3> QED BY <2>1, <3>1, KeptSame
  <2> QED BY <1>2, <2>2, <2>3
<1>3. ASSUME NEW t \in Manager!Types, Update(t) PROVE Kept'
  BY <1>3, WriteKept, PushKept DEF Update, Looks!LookInv
<1>4. ASSUME NEW t \in Manager!Periods, PeriodStep(t) PROVE Kept'
  <2>1. raced => raced'
    BY <1>4, RacedStays DEF PeriodStep, Manager!get_instruments, Manager!Position,
                            Manager!NoBarYet, Manager!Compose
  <2>2. /\ UNCHANGED <<candles_, decision_data_, save_file_>>
        /\ phase'[ONE] = phase[ONE] /\ notified'[ONE] = notified[ONE]
    BY <1>4 DEF PeriodStep, strategyvars, Manager!get_instruments, Manager!Position,
                Manager!NoBarYet, Manager!Compose, Manager!Notify
  <2> QED BY <2>1, <2>2, KeptSame
<1>5. CASE Main
  <2>1. UNCHANGED <<candles_, decision_data_, save_file_, raced, notified>>
    BY <1>5 DEF Main, strategyvars, Manager!Main, Manager!OpenThread, Manager!SetInstruments
  <2>2. phase'[ONE] = "push" => phase[ONE] = "push"
    BY <1>5 DEF Main, Manager!Main, Manager!OpenThread, Manager!SetInstruments
  <2> QED BY <2>1, <2>2, KeptSame
<1> QED BY <1>1, <1>2, <1>3, <1>4, <1>5 DEF Next, Calculator, PeriodThread

LEMMA KeptInit == Init => Kept
<1> SUFFICES ASSUME Init, ONE \in k_type, NEW i \in focused
             PROVE  /\ Len(candles_[<<ONE, i>>]) = Len(decision_data_[ONE][i])
                    /\ DOMAIN decision_data_[ONE][i] = {} /\ phase[ONE] # "push"
  BY DEF Kept
<1>1. i \in Ins /\ <<ONE, i>> \in Strategy!Nodes /\ ONE \in Manager!Types
  BY PipelineAssumption DEF Manager!ManagerAssumption, Ins, Manager!Types
<1> QED BY <1>1 DEF Init, Manager!Init, Strategy!Init, Ins

LEMMA OrdersFollow ==
    ASSUME Proved!ManagerInv, Looks!LookInv, Broad!CompleteBars, Broad!OneBarPerMinute,
           Handing, Delivered, Kept
    PROVE  OrdersOnFinishedMinutes
<1> USE ManagerTypesHere
<1> SUFFICES ASSUME ~restarted, ONE \in k_type, NEW i \in focused,
                    NEW k \in DOMAIN orders[<<ONE, i>>]
             PROVE  LET placed == orders[<<ONE, i>>] IN
                    /\ raced \/ Archived(i, placed[k].bar + 1)
                    /\ \A j \in DOMAIN accepted[i] :
                         LET bar == Candle(i, placed[k])
                             tick == accepted[i][j]
                         IN  /\ 100 * Broadcast!Minute(tick) = bar.trade_time
                             /\ tick.TradingDay = bar.trade_day
                             /\ Broadcast!WholeMinute(Broadcast!Minute(tick))
                             => \E n \in DOMAIN bar.ticks : bar.ticks[n] = tick
                    /\ \A j \in 1..k - 1 :
                         Broadcast!Earlier(Candle(i, placed[j]), Candle(i, placed[k]))
  BY DEF OrdersOnFinishedMinutes
<1>1. i \in Ins /\ i \in Broad!Ins /\ <<ONE, i>> \in Looks!Nodes
  BY LooksConstants, SameConstants DEF Proved!ManagerAssumption, Ins, Broad!Ins, Manager!Ins
<1>2. /\ Len(decision_data_[ONE][i]) \in Nat /\ Len(candles[i]) \in Nat
      /\ DOMAIN decision_data_[ONE][i] = 1..Len(decision_data_[ONE][i])
      /\ DOMAIN candles[i] = 1..Len(candles[i])
  <2>1. decision_data_[ONE][i] \in Seq(Proved!Bar)
    BY <1>1
  <2>2. PICK S : candles \in [Ins -> Seq(S)]
    BY DEF Handing
  <2>3. candles[i] \in Seq(S)
    BY <1>1, <2>2
  <2> QED BY <2>1, <2>3
<1>3. Len(decision_data_[ONE][i]) <= Len(candles[i])
  <2>1. Len(decision_data_[ONE][i]) # Len(candles[i]) =>
          Len(decision_data_[ONE][i]) = Len(candles[i]) - 1
    BY <1>1 DEF Delivered
  <2> HIDE ManagerTypesHere
  <2> QED BY <1>2, <2>1
<1>4. ASSUME NEW j \in DOMAIN orders[<<ONE, i>>]
      PROVE  /\ orders[<<ONE, i>>][j].bar \in Nat
             /\ orders[<<ONE, i>>][j].bar + 1 \in DOMAIN decision_data_[ONE][i]
             /\ orders[<<ONE, i>>][j].bar + 1 \in DOMAIN candles[i]
  <2>1. orders[<<ONE, i>>][j].bar \in Nat
    BY <1>1, LooksConstants, Looks!OrderType DEF Looks!LookInv
  <2>2. orders[<<ONE, i>>][j].bar < Len(candles_[<<ONE, i>>])
    BY <1>1 DEF Looks!LookInv, Looks!PricedAtTheFork
  <2>3. Len(candles_[<<ONE, i>>]) = Len(decision_data_[ONE][i])
    BY DEF Kept
  <2> QED BY <1>2, <1>3, <2>1, <2>2, <2>3
<1>5. raced \/ Archived(i, orders[<<ONE, i>>][k].bar + 1)
  BY <1>4 DEF Kept, ArchivedOrRaced
<1>6. \A j \in DOMAIN accepted[i] :
        LET bar == Candle(i, orders[<<ONE, i>>][k])
            tick == accepted[i][j]
        IN  /\ 100 * Broadcast!Minute(tick) = bar.trade_time
            /\ tick.TradingDay = bar.trade_day
            /\ Broadcast!WholeMinute(Broadcast!Minute(tick))
            => \E n \in DOMAIN bar.ticks : bar.ticks[n] = tick
  <2> HIDE ManagerTypesHere
  <2>1. \A j \in DOMAIN accepted[i] :
          LET bar == candles[i][orders[<<ONE, i>>][k].bar + 1]
              tick == accepted[i][j]
          IN  /\ 100 * Broad!Minute(tick) = bar.trade_time
              /\ tick.TradingDay = bar.trade_day
              /\ Broad!WholeMinute(Broad!Minute(tick))
              => \E n \in DOMAIN bar.ticks : bar.ticks[n] = tick
    BY <1>1, <1>4 DEF Broad!CompleteBars
  <2>2. \A tick : Broad!Minute(tick) = Broadcast!Minute(tick)
    BY DEF Broad!Minute, Broadcast!Minute, Broad!convert_time_str2int,
           Broadcast!convert_time_str2int
  <2>3. \A hhmm : Broad!WholeMinute(hhmm) <=> Broadcast!WholeMinute(hhmm)
    BY DEF Broad!WholeMinute, Broadcast!WholeMinute, Broad!InMarketHours,
           Broadcast!InMarketHours
  <2> QED BY <2>1, <2>2, <2>3 DEF Candle
<1>7. ASSUME NEW j \in 1..k - 1
      PROVE  Broadcast!Earlier(Candle(i, orders[<<ONE, i>>][j]), Candle(i, orders[<<ONE, i>>][k]))
  <2>1. j \in DOMAIN orders[<<ONE, i>>] /\ j < k
    <3>1. orders[<<ONE, i>>] \in Seq([fork : Looks!Forks, bar : Nat])
      BY <1>1 DEF Looks!LookInv, Looks!TypeOK
    <3>2. DOMAIN orders[<<ONE, i>>] = 1..Len(orders[<<ONE, i>>]) /\ Len(orders[<<ONE, i>>]) \in Nat
      BY <3>1
    <3> QED BY <3>2
  <2>2. orders[<<ONE, i>>][j].bar < orders[<<ONE, i>>][k].bar
    BY <1>1, <2>1 DEF Looks!LookInv, Looks!OneOrderPerFork
  <2> HIDE ManagerTypesHere
  <2>3. orders[<<ONE, i>>][j].bar + 1 < orders[<<ONE, i>>][k].bar + 1
    <3>1. orders[<<ONE, i>>][j].bar \in Nat /\ orders[<<ONE, i>>][k].bar \in Nat
      BY <1>4, <2>1
    <3> QED BY <2>2, <3>1
  <2>4. Broad!Earlier(candles[i][orders[<<ONE, i>>][j].bar + 1],
                      candles[i][orders[<<ONE, i>>][k].bar + 1])
    BY <1>1, <1>4, <2>1, <2>3 DEF Broad!OneBarPerMinute
  <2> QED BY <2>4 DEF Candle, Broad!Earlier, Broadcast!Earlier
<1> QED BY <1>5, <1>6, <1>7

\* From the ticks to the orders: what CMAStrategy orders on is a bar the
\* archive has (until two threads race for the file), of a minute no tick was left out of, and orders come in the
\* order of the market's time.
THEOREM OrdersAreFounded == Spec => []OrdersOnFinishedMinutes
<1>1. Spec => []Handing
  BY HandingInit, HandingStep, ManagerFacts, PTL DEF Spec
<1>2. Spec => []Kept
  BY KeptInit, KeptStep, ManagerFacts, LooksFacts, PTL DEF Spec
<1> QED BY <1>1, <1>2, OrdersFollow, StrategyHasTheMinutes, ManagerFacts, LooksFacts,
           BroadcastFacts, PTL
=============================================================================
