-------------------------- MODULE MdManagerProofs --------------------------
(***************************************************************************)
(* What holds of CMdManager for any instruments, periods and subscription. *)
(* The invariant relates what the strategy has been told of the minutes,   *)
(* by one thread, to what the other threads have read of them.             *)
(***************************************************************************)
EXTENDS MdManager, SequenceTheorems, FiniteSetTheorems, TLAPS

Updating(t)  == phase[t] \in {"write", "push"}
Composing(t) == phase[t] \in {"write", "push", "back"}
Minutes(i)   == Len(basic_minute_kdata_[ONE][i])
Left(t)      == retrieve_start_pos[t] + (IF Composing(t) THEN checkup_table[t] ELSE 0)

\* Only a thread with instruments composes; only bars the strategy has asked
\* for get to it.
OnlyAskedFor ==
    /\ \A t \in Periods : Composing(t) => focus_instr[t] # <<>>
    /\ \A t \in Types : Updating(t) => Interested(t, notified[t].ins)
    /\ \A t \in Types, i \in Ins : DOMAIN decision_data_[t][i] # {} => Interested(t, i)

\* The strategy lacks at most the minute it is being told of.
Told == ONE \in k_type => \A i \in focused :
    Minutes(i) = Len(decision_data_[ONE][i]) + (IF Updating(ONE) /\ notified[ONE].ins = i THEN 1 ELSE 0)

\* A longer bar leaves at least one minute after it.
MinuteAfter ==
    /\ \A t \in Periods : Composing(t) => notified[t].bar.last < Minutes(notified[t].ins)
    /\ \A t \in Periods, i \in Ins : \A k \in DOMAIN decision_data_[t][i] :
          decision_data_[t][i][k].last < Minutes(i)

\* A thread's position is behind all its bars, whatever their instrument.
BarsBehind == \A t \in Periods, i \in Ins : \A k \in DOMAIN basic_minute_kdata_[t][i] :
    basic_minute_kdata_[t][i][k].last <= Left(t)

\* Threads are opened once.
Unborn == \A k \in DOMAIN periods : main <= k => phase[periods[k]] = "unborn"

ManagerInv == TypeOK /\ Unborn /\ OnlyAskedFor /\ Told /\ MinuteAfter /\ BarsBehind /\ NoMinuteTwice

-----------------------------------------------------------------------------
LEMMA ConstantFacts ==
    /\ ONE \in Types /\ Periods \subseteq Types /\ Types = Periods \union {ONE} /\ ONE \notin Periods
    /\ \A t \in Types : checkup_table[t] \in Nat /\ checkup_table[t] > 0
    /\ 1 \in DOMAIN instruments /\ instruments[1] \in Ins
    /\ focused \subseteq Ins
    /\ \A k \in DOMAIN periods : periods[k] \in Periods
<1>1. 1 \in DOMAIN instruments
  BY ManagerAssumption
<1>2. \A t \in Types : checkup_table[t] \in Nat /\ checkup_table[t] > 0
  BY ManagerAssumption DEF Types
<1> QED BY <1>1, <1>2, ManagerAssumption DEF Types, Periods, Ins

LEMMA NextAtType ==
    ASSUME TypeOK, NEW t \in Types, focus_instr[t] # <<>>
    PROVE  NextAt(t) \in [Types -> DOMAIN instruments]
<1>1. focus_instr[t] = instruments /\ at \in [Types -> DOMAIN instruments]
  BY DEF TypeOK
<1>2. instruments \in Seq(Ins) /\ Len(instruments) \in Nat \ {0} /\ DOMAIN instruments = 1..Len(instruments)
  BY ManagerAssumption
<1>3. at[t] \in 1..Len(instruments)
  BY <1>1, <1>2
<1>4. (at[t] % Len(focus_instr[t])) + 1 \in 1..Len(instruments)
  BY <1>1, <1>2, <1>3, SMTT(30)
<1> QED BY <1>1, <1>2, <1>4 DEF NextAt

\* Notifying keeps the types.
LEMMA NotifyType ==
    ASSUME TypeOK, NEW t \in Types, NEW i \in Ins, NEW bar \in Bar, Notify(t, i, bar)
    PROVE  /\ phase' \in [Types -> {"unborn", "start", "scan", "write", "push", "back"}]
           /\ notified' \in [Types -> [ins : Ins, bar : Bar]]
           /\ phase'[t] = IF Interested(t, i) THEN "write" ELSE "back"
           /\ notified'[t] = [ins |-> i, bar |-> bar]
           /\ \A u \in Types \ {t} : phase'[u] = phase[u] /\ notified'[u] = notified[u]
           /\ raced' \in BOOLEAN /\ (raced => raced')
<1>1. /\ phase \in [Types -> {"unborn", "start", "scan", "write", "push", "back"}]
      /\ notified \in [Types -> [ins : Ins, bar : Bar]]
  BY DEF TypeOK
<1>2. [ins |-> i, bar |-> bar] \in [ins : Ins, bar : Bar]
  OBVIOUS
<1>3. raced' \in BOOLEAN /\ (raced => raced')
  BY Zenon DEF Notify
<1> QED BY <1>1, <1>2, <1>3, Zenon DEF Notify

\* What a racing write leaves of the file are records still.
LEMMA WrittenType ==
    ASSUME NEW Rec, NEW file \in Seq(Rec), NEW record,
           record \in Rec, Torn(record) \in Rec
    PROVE  Written(file, record) \subseteq Seq(Rec)
<1> SUFFICES ASSUME NEW left \in Written(file, record) PROVE left \in Seq(Rec)
  OBVIOUS
<1>1. PICK k \in 0..Len(file), tail \in {<<>>, <<record>>, <<Torn(record)>>} :
         left = SubSeq(file, 1, k) \o tail
  BY DEF Written
<1>2. SubSeq(file, 1, k) \in Seq(Rec)
  <2>1. \A j \in 1..k : file[j] \in Rec
    OBVIOUS
  <2> QED BY <2>1, SubSeqProperties
<1>3. <<>> \in Seq(Rec) /\ <<record>> \in Seq(Rec) /\ <<Torn(record)>> \in Seq(Rec)
  OBVIOUS
<1>4. tail \in Seq(Rec)
  BY <1>3
<1> QED BY <1>1, <1>2, <1>4, ConcatProperties

\* Appending a bar to the dataset of one period and instrument.
LEMMA AppendBar ==
    ASSUME NEW data \in [Types -> [Ins -> Seq(Bar)]], NEW new,
           NEW t \in Types, NEW i \in Ins, NEW bar \in Bar,
           new = [data EXCEPT ![t][i] = Append(@, bar)]
    PROVE  /\ new \in [Types -> [Ins -> Seq(Bar)]]
           /\ Len(data[t][i]) \in Nat
           /\ Len(new[t][i]) = Len(data[t][i]) + 1
           /\ DOMAIN data[t][i] = 1..Len(data[t][i])
           /\ DOMAIN new[t][i] = 1..Len(data[t][i]) + 1
           /\ new[t][i][Len(data[t][i]) + 1] = bar
           /\ \A k \in DOMAIN data[t][i] : new[t][i][k] = data[t][i][k]
           /\ \A u \in Types, j \in Ins : u # t \/ j # i => new[u][j] = data[u][j]
<1>1. data[t] \in [Ins -> Seq(Bar)] /\ data[t][i] \in Seq(Bar)
  OBVIOUS
<1>2. /\ new[t] = [data[t] EXCEPT ![i] = Append(@, bar)]
      /\ \A u \in Types \ {t} : new[u] = data[u]
      /\ DOMAIN new = Types /\ new = [u \in Types |-> new[u]]
  OBVIOUS
<1>3. /\ new[t][i] = Append(data[t][i], bar)
      /\ \A j \in Ins \ {i} : new[t][j] = data[t][j]
  BY <1>1, <1>2
<1>4. Append(data[t][i], bar) \in Seq(Bar)
  BY <1>1
<1>5. new[t] \in [Ins -> Seq(Bar)]
  BY <1>1, <1>2, <1>4
<1>6. new \in [Types -> [Ins -> Seq(Bar)]]
  BY <1>2, <1>5
<1>7. /\ Len(new[t][i]) = Len(data[t][i]) + 1 /\ Len(data[t][i]) \in Nat
      /\ DOMAIN data[t][i] = 1..Len(data[t][i])
      /\ DOMAIN new[t][i] = 1..Len(data[t][i]) + 1
      /\ new[t][i][Len(data[t][i]) + 1] = bar
      /\ \A k \in DOMAIN data[t][i] : new[t][i][k] = data[t][i][k]
  BY <1>1, <1>3
<1> QED BY <1>2, <1>3, <1>6, <1>7

LEMMA MinutesType == ASSUME TypeOK PROVE \A i \in Ins : Minutes(i) \in Nat
<1>1. basic_minute_kdata_ \in [Types -> [Ins -> Seq(Bar)]]
  BY DEF TypeOK
<1>2. \A i \in Ins : basic_minute_kdata_[ONE][i] \in Seq(Bar)
  BY <1>1, ConstantFacts
<1> QED BY <1>2 DEF Minutes

\* Bars in the dataset and in the strategy's copy are bars.
LEMMA DatasetType ==
    ASSUME TypeOK, NEW t \in Types, NEW i \in Ins, NEW k \in DOMAIN basic_minute_kdata_[t][i]
    PROVE  /\ basic_minute_kdata_[t][i][k].first \in Nat
           /\ basic_minute_kdata_[t][i][k].last \in Nat
<1>1. basic_minute_kdata_[t][i] \in Seq(Bar)
  BY DEF TypeOK
<1>2. k \in 1..Len(basic_minute_kdata_[t][i])
  BY <1>1
<1>3. basic_minute_kdata_[t][i][k] \in Bar
  BY <1>1, <1>2, ElementOfSeq
<1> QED BY <1>3 DEF Bar

LEMMA DecisionType ==
    ASSUME TypeOK, NEW t \in Types, NEW i \in Ins, NEW k \in DOMAIN decision_data_[t][i]
    PROVE  decision_data_[t][i][k].last \in Nat
<1>1. decision_data_[t][i] \in Seq(Bar)
  BY DEF TypeOK
<1>2. k \in 1..Len(decision_data_[t][i])
  BY <1>1
<1>3. decision_data_[t][i][k] \in Bar
  BY <1>1, <1>2, ElementOfSeq
<1> QED BY <1>3 DEF Bar

\* The bars that are added are bars.
LEMMA NewBarType == ASSUME TypeOK
    PROVE  /\ \A i \in Ins : MinuteBar(i) \in Bar
           /\ \A t \in Types : /\ NextBar(t) \in Bar
                              /\ retrieve_start_pos[t] \in Nat /\ checkup_table[t] \in Nat
<1>1. \A i \in Ins : MinuteBar(i) \in Bar
  BY MinutesType DEF MinuteBar, Bar, Minutes
<1>2. \A t \in Types : retrieve_start_pos[t] \in Nat /\ checkup_table[t] \in Nat /\ checkup_table[t] > 0
  BY ConstantFacts DEF TypeOK
<1> QED BY <1>1, <1>2 DEF NextBar, Bar

-----------------------------------------------------------------------------
LEMMA TypeStep == ASSUME TypeOK, OnlyAskedFor, [Next]_vars PROVE TypeOK'
<1> SUFFICES ASSUME Next PROVE TypeOK'
  BY DEF TypeOK, vars, setup, scanned
<1> USE ConstantFacts
<1>1. CASE OpenThread
  <2>1. main' \in 1..Len(periods) + 2
    <3>1. Len(periods) \in Nat /\ DOMAIN periods = 1..Len(periods)
      BY ManagerAssumption
    <3>2. main \in DOMAIN periods /\ main' = main + 1
      BY <1>1 DEF OpenThread
    <3> HIDE ConstantFacts
    <3> QED BY <3>1, <3>2
  <2> QED BY <2>1, <1>1 DEF TypeOK, OpenThread, scanned
<1>2. CASE SetInstruments
  <2>1. main' \in 1..Len(periods) + 2
    <3>1. Len(periods) \in Nat
      BY ManagerAssumption
    <3>2. main = Len(periods) + 1 /\ main' = main + 1
      BY <1>2 DEF SetInstruments
    <3> HIDE ConstantFacts
    <3> QED BY <3>1, <3>2
  <2> QED BY <2>1, <1>2 DEF TypeOK, SetInstruments, scanned
<1>3. ASSUME NEW i \in Ins, push_min_one_data(i) PROVE TypeOK'
  <2>1. basic_minute_kdata_' \in [Types -> [Ins -> Seq(Bar)]]
    <3>1. basic_minute_kdata_' =
             [basic_minute_kdata_ EXCEPT ![ONE][i] = Append(@, MinuteBar(i))]
      BY <1>3 DEF push_min_one_data
    <3>2. MinuteBar(i) \in Bar /\ basic_minute_kdata_ \in [Types -> [Ins -> Seq(Bar)]]
      BY NewBarType DEF TypeOK
    <3> QED BY <3>1, <3>2, AppendBar
  <2> QED BY <2>1, <1>3, NewBarType, NotifyType DEF TypeOK, push_min_one_data, setup, scanned
<1>4. CASE OneBack
  BY <1>4 DEF TypeOK, OneBack, setup, scanned
<1>5. ASSUME NEW t \in Types, write_save_data(t) PROVE TypeOK'
  <2> DEFINE Rec == [period : Types, ins : Ins, bar : Bar, whole : BOOLEAN]
  <2> DEFINE record == [period |-> t, ins |-> notified[t].ins, bar |-> notified[t].bar,
                        whole |-> TRUE]
  <2>1. save_file_' \in Written(save_file_, record) \/ save_file_' = Append(save_file_, record)
    BY <1>5, Zenon DEF write_save_data
  <2>2. notified[t].ins \in Ins /\ notified[t].bar \in Bar
    BY DEF TypeOK
  <2>3. record \in Rec /\ Torn(record) \in Rec
    BY <2>2 DEF Torn
  <2>4. save_file_ \in Seq(Rec)
    BY DEF TypeOK
  <2> HIDE DEF Rec, record
  <2>5. save_file_' \in Seq(Rec)
    BY <2>1, <2>3, <2>4, WrittenType
  <2> USE DEF Rec
  <2> QED BY <2>5, <1>5 DEF TypeOK, write_save_data, setup, scanned
<1>6. ASSUME NEW t \in Types, push_bar(t) PROVE TypeOK'
  <2>1. notified[t].ins \in Ins /\ notified[t].bar \in Bar
    BY DEF TypeOK
  <2>2. decision_data_' \in [Types -> [Ins -> Seq(Bar)]]
    BY <2>1, <1>6, AppendBar DEF TypeOK, push_bar
  <2> QED BY <2>2, <1>6 DEF TypeOK, push_bar, setup, scanned
<1>7. ASSUME NEW t \in Periods, get_instruments(t) PROVE TypeOK'
  BY <1>7 DEF TypeOK, get_instruments, setup
<1>8. ASSUME NEW t \in Periods, NEW i \in Ins, NoBarYet(t, i) PROVE TypeOK'
  <2>1. at' \in [Types -> DOMAIN instruments]
    BY <1>8, NextAtType DEF NoBarYet, Scanning
  <2> QED BY <2>1, <1>8 DEF TypeOK, NoBarYet, setup
<1>9. ASSUME NEW t \in Periods, NEW i \in Ins, Compose(t, i) PROVE TypeOK'
  <2>1. basic_minute_kdata_' \in [Types -> [Ins -> Seq(Bar)]]
    BY <1>9, NewBarType, AppendBar DEF TypeOK, Compose
  <2> QED BY <2>1, <1>9, NewBarType, NotifyType DEF TypeOK, Compose, setup, scanned
<1>10. ASSUME NEW t \in Periods, Position(t) PROVE TypeOK'
  <2>1. focus_instr[t] # <<>>
    BY <1>10 DEF OnlyAskedFor, Composing, Position
  <2>2. at' \in [Types -> DOMAIN instruments]
    BY <2>1, <1>10, NextAtType DEF Position
  <2>3. retrieve_start_pos' \in [Types -> Nat]
    <3>1. retrieve_start_pos[t] \in Nat /\ checkup_table[t] \in Nat
      BY DEF TypeOK
    <3>2. Advance(t) \in Nat
      BY <3>1 DEF Advance
    <3> QED BY <3>2, <1>10 DEF TypeOK, Position
  <2> QED BY <2>2, <2>3, <1>10 DEF TypeOK, Position, setup
<1> QED BY <1>1, <1>2, <1>3, <1>4, <1>5, <1>6, <1>7, <1>8, <1>9, <1>10
        DEF Next, Main, Publish, OneThread, PeriodThread

-----------------------------------------------------------------------------
(* The steps that notify: a minute is published, a longer bar composed.    *)

LEMMA PublishStep == ASSUME ManagerInv, NEW i \in Ins, push_min_one_data(i) PROVE ManagerInv'
<1> USE ConstantFacts DEF ManagerInv
<1>0. TypeOK /\ TypeOK' /\ OnlyAskedFor
  BY TypeStep DEF Next, Publish
<1> DEFINE bar == MinuteBar(i)
           was == basic_minute_kdata_[ONE]
           is  == basic_minute_kdata_'[ONE]
<1>1. bar \in Bar
  BY <1>0, NewBarType
<1>2. /\ phase[ONE] = "scan" /\ Notify(ONE, i, bar)
      /\ decision_data_' = decision_data_ /\ focus_instr' = focus_instr
      /\ retrieve_start_pos' = retrieve_start_pos
      /\ basic_minute_kdata_' = [basic_minute_kdata_ EXCEPT ![ONE][i] = Append(@, bar)]
  BY DEF push_min_one_data, scanned
<1> HIDE DEF bar
<1>3. /\ phase'[ONE] = IF Interested(ONE, i) THEN "write" ELSE "back"
      /\ notified'[ONE].ins = i
      /\ \A u \in Periods : phase'[u] = phase[u] /\ notified'[u] = notified[u]
  <2>1. /\ phase'[ONE] = IF Interested(ONE, i) THEN "write" ELSE "back"
        /\ notified'[ONE] = [ins |-> i, bar |-> bar]
        /\ \A u \in Types \ {ONE} : phase'[u] = phase[u] /\ notified'[u] = notified[u]
    BY <1>0, <1>1, <1>2, NotifyType
  <2> QED BY <2>1
<1>4. /\ Len(is[i]) = Len(was[i]) + 1
      /\ \A j \in Ins \ {i} : is[j] = was[j]
      /\ \A u \in Periods, j \in Ins : basic_minute_kdata_'[u][j] = basic_minute_kdata_[u][j]
  <2>1. basic_minute_kdata_ \in [Types -> [Ins -> Seq(Bar)]]
    BY <1>0 DEF TypeOK
  <2> QED BY <2>1, <1>1, <1>2, AppendBar
<1>5. \A j \in Ins : Len(was[j]) \in Nat /\ Len(is[j]) \in Nat /\ Len(was[j]) <= Len(is[j])
  BY <1>0, <1>4, MinutesType DEF Minutes
<1> HIDE DEF was, is
<1>6. OnlyAskedFor'
  BY <1>0, <1>2, <1>3 DEF OnlyAskedFor, Composing, Updating, Interested
<1>7. Told'
  <2> SUFFICES ASSUME ONE \in k_type, NEW j \in focused
               PROVE  Len(is[j]) = Len(decision_data_[ONE][j])
                                     + (IF phase'[ONE] \in {"write", "push"} /\ notified'[ONE].ins = j
                                        THEN 1 ELSE 0)
    BY <1>2 DEF Told, Updating, Minutes, is
  <2>1. Len(was[j]) = Len(decision_data_[ONE][j]) + 0 /\ j \in Ins
    BY <1>0, <1>2 DEF Told, Updating, Minutes, was
  <2>2. Len(decision_data_[ONE][j]) \in Nat
    <3>1. decision_data_[ONE][j] \in Seq(Bar)
      BY <2>1, <1>0 DEF TypeOK
    <3> QED BY <3>1
  <2>3. CASE j = i
    <3>1. phase'[ONE] = "write"
      BY <2>3, <1>3 DEF Interested
    <3> QED BY <3>1, <2>1, <2>2, <2>3, <1>3, <1>4
  <2>4. CASE j # i
    BY <2>1, <2>2, <2>4, <1>3, <1>4
  <2> QED BY <2>3, <2>4
<1>8. MinuteAfter'
  <2>1. ASSUME NEW t \in Periods, phase'[t] \in {"write", "push", "back"}
        PROVE  notified'[t].bar.last < Len(is[notified'[t].ins])
    <3>1. notified[t].bar.last < Len(was[notified[t].ins]) /\ notified'[t] = notified[t]
      BY <2>1, <1>3 DEF MinuteAfter, Composing, Minutes, was
    <3>2. notified[t].ins \in Ins /\ notified[t].bar.last \in Nat
      BY <1>0 DEF TypeOK, Bar
    <3> QED BY <3>1, <3>2, <1>5
  <2>2. ASSUME NEW t \in Periods, NEW j \in Ins, NEW k \in DOMAIN decision_data_[t][j]
        PROVE  decision_data_[t][j][k].last < Len(is[j])
    <3>1. decision_data_[t][j][k].last < Len(was[j])
      BY DEF MinuteAfter, Minutes, was
    <3>2. decision_data_[t][j][k].last \in Nat
      BY <1>0, DecisionType
    <3> QED BY <3>1, <3>2, <1>5
  <2> QED BY <2>1, <2>2, <1>2 DEF MinuteAfter, Composing, Minutes, is
<1>9. BarsBehind'
  BY <1>2, <1>3, <1>4 DEF BarsBehind, Left, Composing
<1>10. NoMinuteTwice'
  <2>1. ASSUME NEW t \in Periods, NEW j \in Ins, NEW k \in DOMAIN basic_minute_kdata_[t][j]
        PROVE  basic_minute_kdata_[t][j][k].last <= Len(is[j])
    <3>1. basic_minute_kdata_[t][j][k].last <= Len(was[j])
      BY DEF NoMinuteTwice, was
    <3>2. basic_minute_kdata_[t][j][k].last \in Nat
      BY <1>0, DatasetType
    <3> QED BY <3>1, <3>2, <1>5
  <2> QED BY <2>1, <1>4 DEF NoMinuteTwice, is
<1>11. Unborn'
  BY <1>3 DEF Unborn, push_min_one_data, setup
<1> QED BY <1>0, <1>6, <1>7, <1>8, <1>9, <1>10, <1>11

LEMMA ComposeStep ==
    ASSUME ManagerInv, NEW t \in Periods, NEW i \in Ins, Compose(t, i) PROVE ManagerInv'
<1> USE ConstantFacts DEF ManagerInv
<1>0. TypeOK /\ TypeOK' /\ OnlyAskedFor
  BY TypeStep DEF Next, PeriodThread
<1> DEFINE bar == NextBar(t)
           was == basic_minute_kdata_[t]
           is  == basic_minute_kdata_'[t]
<1>1. /\ bar \in Bar /\ retrieve_start_pos[t] \in Nat /\ checkup_table[t] \in Nat /\ checkup_table[t] > 0
      /\ bar.first = retrieve_start_pos[t] + 1 /\ bar.last = retrieve_start_pos[t] + checkup_table[t]
  BY <1>0, NewBarType DEF NextBar
<1>2. /\ phase[t] = "scan" /\ focus_instr[t] # <<>> /\ bar.last < Minutes(i) /\ Notify(t, i, bar)
      /\ decision_data_' = decision_data_ /\ focus_instr' = focus_instr /\ main' = main
      /\ retrieve_start_pos' = retrieve_start_pos
      /\ basic_minute_kdata_' = [basic_minute_kdata_ EXCEPT ![t][i] = Append(@, bar)]
  BY <1>0, <1>1, MinutesType DEF Compose, Scanning, Enough, Minutes, setup, scanned
<1> HIDE DEF bar
<1>3. /\ phase'[t] = IF Interested(t, i) THEN "write" ELSE "back"
      /\ notified'[t].ins = i /\ notified'[t].bar = bar
      /\ \A u \in Types \ {t} : phase'[u] = phase[u] /\ notified'[u] = notified[u]
  <2>1. /\ phase'[t] = IF Interested(t, i) THEN "write" ELSE "back"
        /\ notified'[t] = [ins |-> i, bar |-> bar]
        /\ \A u \in Types \ {t} : phase'[u] = phase[u] /\ notified'[u] = notified[u]
    BY <1>0, <1>1, <1>2, NotifyType
  <2> QED BY <2>1
<1>4. /\ Len(was[i]) \in Nat /\ DOMAIN was[i] = 1..Len(was[i]) /\ DOMAIN is[i] = 1..Len(was[i]) + 1
      /\ is[i][Len(was[i]) + 1] = bar
      /\ \A k \in DOMAIN was[i] : is[i][k] = was[i][k]
      /\ \A u \in Types, j \in Ins :
            u # t \/ j # i => basic_minute_kdata_'[u][j] = basic_minute_kdata_[u][j]
  <2>1. basic_minute_kdata_ \in [Types -> [Ins -> Seq(Bar)]]
    BY <1>0 DEF TypeOK
  <2> QED BY <2>1, <1>1, <1>2, AppendBar
<1>5. \A j \in Ins : basic_minute_kdata_'[ONE][j] = basic_minute_kdata_[ONE][j]
  BY <1>4
<1> HIDE DEF was, is
<1>6. Unborn'
  <2>1. \A k \in DOMAIN periods : main <= k => periods[k] # t
    BY <1>2 DEF Unborn
  <2> QED BY <2>1, <1>2, <1>3 DEF Unborn
<1>7. OnlyAskedFor'
  BY <1>0, <1>2, <1>3 DEF OnlyAskedFor, Composing, Updating, Interested
<1>8. Told'
  BY <1>2, <1>3, <1>5 DEF Told, Updating, Minutes
<1>9. MinuteAfter'
  <2>1. ASSUME NEW u \in Periods, phase'[u] \in {"write", "push", "back"}
        PROVE  notified'[u].bar.last < Len(basic_minute_kdata_'[ONE][notified'[u].ins])
    <3>1. CASE u = t
      BY <3>1, <1>2, <1>3, <1>5 DEF Minutes
    <3>2. CASE u # t
      <4>1. notified'[u] = notified[u] /\ notified[u].bar.last < Minutes(notified[u].ins)
        BY <2>1, <3>2, <1>3 DEF MinuteAfter, Composing
      <4>2. notified[u].ins \in Ins
        BY <1>0 DEF TypeOK
      <4> QED BY <4>1, <4>2, <1>5 DEF Minutes
    <3> QED BY <3>1, <3>2
  <2>2. \A u \in Periods, j \in Ins : \A k \in DOMAIN decision_data_[u][j] :
            decision_data_[u][j][k].last < Len(basic_minute_kdata_'[ONE][j])
    BY <1>5 DEF MinuteAfter, Minutes
  <2> QED BY <2>1, <2>2, <1>2 DEF MinuteAfter, Composing, Minutes
<1>10. \A j \in Ins : \A k \in DOMAIN was[j] :
         /\ was[j][k].first \in Nat /\ was[j][k].last \in Nat
         /\ was[j][k].last <= retrieve_start_pos[t]
  <2> SUFFICES ASSUME NEW j \in Ins, NEW k \in DOMAIN was[j]
               PROVE  /\ was[j][k].first \in Nat /\ was[j][k].last \in Nat
                      /\ was[j][k].last <= retrieve_start_pos[t]
    OBVIOUS
  <2>1. was[j][k].first \in Nat /\ was[j][k].last \in Nat
    BY <1>0, DatasetType DEF was
  <2>2. Left(t) = retrieve_start_pos[t]
    BY <1>1, <1>2 DEF Left, Composing
  <2> QED BY <2>1, <2>2 DEF BarsBehind, was
<1>11. \A k \in DOMAIN is[i] : k \in DOMAIN was[i] \/ (k = Len(was[i]) + 1 /\ is[i][k] = bar)
  BY <1>4
<1>12. BarsBehind'
  <2> SUFFICES ASSUME NEW u \in Periods, NEW j \in Ins, NEW k \in DOMAIN basic_minute_kdata_'[u][j]
               PROVE  basic_minute_kdata_'[u][j][k].last <= Left(u)'
    BY DEF BarsBehind
  <2>1. CASE u # t
    BY <2>1, <1>2, <1>3, <1>4 DEF BarsBehind, Left, Composing
  <2>2. CASE u = t
    <3>1. Left(u)' = retrieve_start_pos[t] + checkup_table[t]
      BY <2>2, <1>2, <1>3 DEF Left, Composing
    <3>2. CASE j # i
      <4>1. is[j][k].last <= retrieve_start_pos[t] /\ is[j][k].last \in Nat
        BY <2>2, <3>2, <1>4, <1>10 DEF was, is
      <4> QED BY <4>1, <3>1, <2>2, <1>1 DEF is
    <3>3. CASE j = i
      <4>1. is[i][k].last <= retrieve_start_pos[t] + checkup_table[t]
        <5>1. k \in DOMAIN is[i]
          BY <2>2, <3>3 DEF is
        <5>2. CASE k \in DOMAIN was[i]
          <6>1. is[i][k].last <= retrieve_start_pos[t] /\ is[i][k].last \in Nat
            BY <5>2, <1>4, <1>10
          <6> QED BY <6>1, <1>1
        <5>3. CASE is[i][k] = bar
          BY <5>3, <1>1
        <5> QED BY <5>1, <5>2, <5>3, <1>11
      <4> QED BY <4>1, <3>1, <2>2, <3>3 DEF is
    <3> QED BY <3>2, <3>3
  <2> QED BY <2>1, <2>2
<1>13. NoMinuteTwice'
  <2> SUFFICES ASSUME NEW u \in Periods, NEW j \in Ins, NEW k \in DOMAIN basic_minute_kdata_'[u][j]
               PROVE  LET bars == basic_minute_kdata_'[u][j] IN
                      /\ bars[k].last = bars[k].first + checkup_table[u] - 1
                      /\ bars[k].last <= Minutes(j)
                      /\ \A l \in 1..k - 1 : bars[l].last < bars[k].first
    BY <1>5 DEF NoMinuteTwice, Minutes
  <2>1. CASE u # t \/ j # i
    BY <2>1, <1>4 DEF NoMinuteTwice, Minutes
  <2>2. CASE u = t /\ j = i /\ k \in DOMAIN was[i]
    <3>1. /\ was[i][k].last = was[i][k].first + checkup_table[t] - 1
          /\ was[i][k].last <= Minutes(i)
          /\ \A l \in 1..k - 1 : was[i][l].last < was[i][k].first
      BY <2>2 DEF NoMinuteTwice, Minutes, was
    <3>2. \A l \in 1..k - 1 : l \in DOMAIN was[i]
      BY <2>2, <1>4
    <3> QED BY <3>1, <3>2, <2>2, <1>4 DEF is
  <2>3. CASE u = t /\ j = i /\ k = Len(was[i]) + 1
    <3>1. is[i][k] = bar
      BY <2>3, <1>4
    <3>2. bar.last = bar.first + checkup_table[t] - 1
      BY <1>1
    <3>3. bar.last <= Minutes(i)
      BY <1>0, <1>1, <1>2, MinutesType
    <3>4. ASSUME NEW l \in 1..k - 1 PROVE is[i][l].last < bar.first
      <4>1. l \in DOMAIN was[i]
        BY <2>3, <1>4
      <4>2. is[i][l].last <= retrieve_start_pos[t] /\ is[i][l].last \in Nat
        BY <4>1, <1>4, <1>10
      <4> QED BY <4>2, <1>1
    <3> QED BY <3>1, <3>2, <3>3, <3>4, <2>3 DEF is
  <2>4. u = t /\ j = i => k \in DOMAIN was[i] \/ k = Len(was[i]) + 1
    BY <1>11 DEF is
  <2> QED BY <2>1, <2>2, <2>3, <2>4
<1> QED BY <1>0, <1>6, <1>7, <1>8, <1>9, <1>12, <1>13

-----------------------------------------------------------------------------
(* The steps of CStrategy::update.                                         *)

LEMMA WriteStep ==
    ASSUME ManagerInv, NEW t \in Types, write_save_data(t) PROVE ManagerInv'
<1> USE ConstantFacts DEF ManagerInv
<1>0. TypeOK /\ TypeOK'
  BY TypeStep DEF Next, PeriodThread, OneThread
<1>1. /\ phase[t] = "write" /\ phase'[t] = "push"
      /\ \A u \in Types \ {t} : phase'[u] = phase[u]
      /\ UNCHANGED <<setup, basic_minute_kdata_, scanned, notified, decision_data_>>
  BY <1>0 DEF write_save_data, TypeOK
<1>2. /\ \A u \in Types : (phase'[u] \in {"write", "push"}) = (phase[u] \in {"write", "push"})
      /\ \A u \in Types :
            (phase'[u] \in {"write", "push", "back"}) = (phase[u] \in {"write", "push", "back"})
      /\ \A u \in Types : phase[u] = "unborn" => phase'[u] = "unborn"
  BY <1>1
<1>3. Unborn'
  BY <1>1, <1>2 DEF Unborn, setup
<1>4. OnlyAskedFor' /\ Told' /\ MinuteAfter'
  BY <1>1, <1>2 DEF OnlyAskedFor, Told, MinuteAfter, Updating, Composing, Minutes, scanned
<1>5. BarsBehind' /\ NoMinuteTwice'
  BY <1>1, <1>2 DEF BarsBehind, NoMinuteTwice, Left, Composing, scanned
<1> QED BY <1>0, <1>3, <1>4, <1>5

LEMMA PushStep ==
    ASSUME ManagerInv, NEW t \in Types, push_bar(t) PROVE ManagerInv'
<1> USE ConstantFacts DEF ManagerInv
<1>0. TypeOK /\ TypeOK'
  BY TypeStep DEF Next, PeriodThread, OneThread
<1>1. /\ phase[t] = "push" /\ phase'[t] = "back"
      /\ \A u \in Types \ {t} : phase'[u] = phase[u]
      /\ UNCHANGED <<setup, basic_minute_kdata_, scanned, notified>>
  BY <1>0 DEF push_bar, TypeOK
<1> DEFINE i == notified[t].ins
           bar == notified[t].bar
           was == decision_data_[t]
           is  == decision_data_'[t]
<1>2. /\ i \in Ins /\ bar \in Bar /\ Interested(t, i)
  BY <1>0, <1>1 DEF TypeOK, OnlyAskedFor, Updating
<1>3. /\ Len(was[i]) \in Nat /\ Len(is[i]) = Len(was[i]) + 1
      /\ DOMAIN was[i] = 1..Len(was[i]) /\ DOMAIN is[i] = 1..Len(was[i]) + 1
      /\ is[i][Len(was[i]) + 1] = bar
      /\ \A k \in DOMAIN was[i] : is[i][k] = was[i][k]
      /\ \A u \in Types, j \in Ins : u # t \/ j # i => decision_data_'[u][j] = decision_data_[u][j]
  <2>1. /\ decision_data_ \in [Types -> [Ins -> Seq(Bar)]]
        /\ decision_data_' = [decision_data_ EXCEPT ![t][i] = Append(@, bar)]
    BY <1>0 DEF TypeOK, push_bar
  <2> HIDE DEF i, bar
  <2> QED BY <2>1, <1>2, AppendBar
<1> HIDE DEF was, is
<1>9. \A k \in DOMAIN is[i] : k \in DOMAIN was[i] \/ k = Len(was[i]) + 1
  BY <1>3
<1>4. Unborn'
  BY <1>1 DEF Unborn, setup
<1>5. OnlyAskedFor'
  <2>1. \A u \in Periods : Composing(u)' => focus_instr'[u] # <<>>
    BY <1>1 DEF OnlyAskedFor, Composing, scanned
  <2>2. \A u \in Types : Updating(u)' => Interested(u, notified'[u].ins)
    BY <1>1 DEF OnlyAskedFor, Updating
  <2>3. ASSUME NEW u \in Types, NEW j \in Ins, DOMAIN decision_data_'[u][j] # {}
        PROVE  Interested(u, j)
    <3>1. CASE u = t /\ j = i
      BY <3>1, <1>2
    <3>2. CASE ~(u = t /\ j = i)
      BY <2>3, <3>2, <1>3 DEF OnlyAskedFor
    <3> QED BY <3>1, <3>2
  <2> QED BY <2>1, <2>2, <2>3 DEF OnlyAskedFor, Interested
<1>6. Told'
  <2> SUFFICES ASSUME ONE \in k_type, NEW j \in focused
               PROVE  Minutes(j) = Len(decision_data_'[ONE][j])
                        + (IF phase'[ONE] \in {"write", "push"} /\ notified[ONE].ins = j THEN 1 ELSE 0)
    BY <1>1 DEF Told, Updating, Minutes
  <2>1. Minutes(j) = Len(decision_data_[ONE][j])
                        + (IF phase[ONE] \in {"write", "push"} /\ notified[ONE].ins = j THEN 1 ELSE 0)
    BY DEF Told, Updating
  <2>2. CASE t # ONE
    BY <2>1, <2>2, <1>1, <1>3
  <2>3. CASE t = ONE /\ j # i
    BY <2>1, <2>3, <1>1, <1>3
  <2>4. CASE t = ONE /\ j = i
    <3>1. Minutes(j) = Len(was[i]) + 1
      BY <2>1, <2>4, <1>1 DEF was
    <3>2. Len(decision_data_'[ONE][j]) = Len(was[i]) + 1 /\ phase'[ONE] = "back"
      BY <2>4, <1>1, <1>3 DEF is
    <3> QED BY <3>1, <3>2, <1>3
  <2> QED BY <2>2, <2>3, <2>4
<1>7. MinuteAfter'
  <2>1. \A u \in Periods : Composing(u)' => notified'[u].bar.last < Minutes(notified[u].ins)
    BY <1>1 DEF MinuteAfter, Composing
  <2>2. ASSUME NEW u \in Periods, NEW j \in Ins, NEW k \in DOMAIN decision_data_'[u][j]
        PROVE  decision_data_'[u][j][k].last < Minutes(j)
    <3>1. CASE ~(u = t /\ j = i)
      BY <3>1, <1>3 DEF MinuteAfter
    <3>2. CASE u = t /\ j = i /\ k \in DOMAIN was[i]
      BY <3>2, <1>3 DEF MinuteAfter, was, is
    <3>3. CASE u = t /\ j = i /\ k = Len(was[i]) + 1
      <4>1. bar.last < Minutes(i)
        BY <3>3, <1>1 DEF MinuteAfter, Composing
      <4>2. decision_data_'[u][j][k] = bar
        BY <3>3, <1>3 DEF is
      <4> QED BY <4>1, <4>2, <3>3
    <3>4. u = t /\ j = i => k \in DOMAIN was[i] \/ k = Len(was[i]) + 1
      BY <1>9 DEF is
    <3> QED BY <3>1, <3>2, <3>3, <3>4
  <2>3. \A j \in Ins : Minutes(j)' = Minutes(j)
    BY <1>1 DEF Minutes
  <2> QED BY <2>1, <2>2, <2>3, <1>1 DEF MinuteAfter, Minutes
<1>8. BarsBehind' /\ NoMinuteTwice'
  BY <1>1 DEF BarsBehind, NoMinuteTwice, Left, Composing, scanned
<1> QED BY <1>0, <1>4, <1>5, <1>6, <1>7, <1>8

-----------------------------------------------------------------------------
(* The other steps: they move threads, not bars.                           *)

LEMMA ThreadStep ==
    ASSUME ManagerInv, UNCHANGED <<basic_minute_kdata_, decision_data_, notified>>, TypeOK', Unborn',
           \A t \in Periods : Composing(t)' => Composing(t) /\ focus_instr'[t] = focus_instr[t],
           \A t \in Types : (phase'[t] \in {"write", "push"}) = (phase[t] \in {"write", "push"}),
           \A t \in Periods : Left(t)' = Left(t)
    PROVE  ManagerInv'
<1> USE ConstantFacts DEF ManagerInv
<1>1. OnlyAskedFor'
  BY DEF OnlyAskedFor, Updating, Composing
<1>2. Told' /\ MinuteAfter'
  BY DEF Told, MinuteAfter, Updating, Composing, Minutes
<1>3. BarsBehind' /\ NoMinuteTwice'
  BY DEF BarsBehind, NoMinuteTwice
<1> QED BY <1>1, <1>2, <1>3

LEMMA OtherStep ==
    ASSUME ManagerInv,
           \/ Main \/ OneBack
           \/ \E t \in Periods : get_instruments(t) \/ Position(t) \/ \E i \in Ins : NoBarYet(t, i)
    PROVE  ManagerInv'
<1> USE ConstantFacts
<1>0. TypeOK /\ TypeOK' /\ Unborn /\ OnlyAskedFor
  BY TypeStep DEF ManagerInv, Next, PeriodThread, OneThread
<1>1. CASE OpenThread
  <2>1. /\ phase[periods[main]] = "unborn" /\ periods[main] \in Periods
        /\ phase'[periods[main]] = "start" /\ main' = main + 1 /\ main \in Nat
        /\ \A t \in Types : t # periods[main] => phase'[t] = phase[t]
    <3>1. main \in DOMAIN periods /\ main \in Nat /\ main' = main + 1
      BY <1>0, <1>1 DEF OpenThread, TypeOK
    <3>2. phase[periods[main]] = "unborn" /\ periods[main] \in Periods
      BY <3>1, <1>0 DEF Unborn
    <3>3. /\ phase'[periods[main]] = "start"
          /\ \A t \in Types : t # periods[main] => phase'[t] = phase[t]
      BY <3>2, <1>0, <1>1 DEF OpenThread, TypeOK
    <3> QED BY <3>1, <3>2, <3>3
  <2>2. Unborn'
    <3> SUFFICES ASSUME NEW k \in DOMAIN periods, main + 1 <= k PROVE phase'[periods[k]] = "unborn"
      BY <2>1 DEF Unborn
    <3>1. k \in Nat /\ main <= k /\ k # main
      BY <2>1, ManagerAssumption
    <3>2. main \in DOMAIN periods
      BY <1>1 DEF OpenThread
    <3>3. periods[k] # periods[main]
      BY <3>1, <3>2, ManagerAssumption
    <3> QED BY <3>1, <3>3, <2>1, <1>0 DEF Unborn
  <2>3. UNCHANGED <<basic_minute_kdata_, decision_data_, notified, focus_instr, retrieve_start_pos>>
    BY <1>1 DEF OpenThread, scanned
  <2> QED BY <2>1, <2>2, <2>3, <1>0, ThreadStep DEF Composing, Left
<1>2. CASE SetInstruments
  <2>1. UNCHANGED <<basic_minute_kdata_, decision_data_, notified, focus_instr, retrieve_start_pos, phase>>
    BY <1>2 DEF SetInstruments, scanned
  <2>2. Unborn'
    <3>1. \A k \in DOMAIN periods : ~(main' <= k)
      <4>1. Len(periods) \in Nat /\ DOMAIN periods = 1..Len(periods)
        BY ManagerAssumption
      <4> QED BY <4>1, <1>2 DEF SetInstruments
    <3> QED BY <3>1 DEF Unborn
  <2> QED BY <2>1, <2>2, <1>0, ThreadStep DEF Composing, Left
<1>3. CASE OneBack
  <2>1. /\ UNCHANGED <<basic_minute_kdata_, decision_data_, notified, focus_instr, retrieve_start_pos, main>>
        /\ phase[ONE] = "back" /\ phase'[ONE] = "scan"
        /\ \A t \in Periods : phase'[t] = phase[t]
    BY <1>0, <1>3 DEF OneBack, scanned, setup, TypeOK
  <2>2. Unborn'
    BY <1>0, <2>1 DEF Unborn
  <2> QED BY <2>1, <2>2, <1>0, ThreadStep DEF Composing, Left
<1>4. ASSUME NEW t \in Periods, get_instruments(t) PROVE ManagerInv'
  <2>1. /\ UNCHANGED <<basic_minute_kdata_, decision_data_, notified, retrieve_start_pos, main>>
        /\ phase[t] = "start" /\ phase'[t] = "scan"
        /\ \A u \in Types \ {t} : phase'[u] = phase[u] /\ focus_instr'[u] = focus_instr[u]
    BY <1>0, <1>4 DEF get_instruments, setup, TypeOK
  <2>2. Unborn'
    BY <1>0, <2>1 DEF Unborn
  <2> QED BY <2>1, <2>2, <1>0, ThreadStep DEF Composing, Left
<1>5. ASSUME NEW t \in Periods, Position(t) PROVE ManagerInv'
  <2>1. /\ UNCHANGED <<basic_minute_kdata_, decision_data_, notified, focus_instr, main>>
        /\ phase[t] = "back" /\ phase'[t] = "scan"
        /\ retrieve_start_pos'[t] = retrieve_start_pos[t] + checkup_table[t]
        /\ retrieve_start_pos'[t] \in Nat
        /\ \A u \in Types \ {t} : /\ phase'[u] = phase[u]
                                  /\ retrieve_start_pos'[u] = retrieve_start_pos[u]
    BY <1>0, <1>5 DEF Position, Advance, setup, TypeOK
  <2>2. Unborn'
    BY <1>0, <2>1 DEF Unborn
  <2>3. \A u \in Periods : Left(u)' = Left(u)
    BY <2>1 DEF Left, Composing
  <2> QED BY <2>1, <2>2, <2>3, <1>0, ThreadStep DEF Composing
<1>6. ASSUME NEW t \in Periods, NEW i \in Ins, NoBarYet(t, i) PROVE ManagerInv'
  <2>1. UNCHANGED <<basic_minute_kdata_, decision_data_, notified, focus_instr, retrieve_start_pos, phase, main>>
    BY <1>6 DEF NoBarYet, setup
  <2>2. Unborn'
    BY <1>0, <2>1 DEF Unborn
  <2> QED BY <2>1, <2>2, <1>0, ThreadStep DEF Composing, Left
<1> QED BY <1>1, <1>2, <1>3, <1>4, <1>5, <1>6 DEF Main

-----------------------------------------------------------------------------
\* What the strategy and the period threads know of the minutes, in every
\* reachable state.
THEOREM ManagerInvariant == Spec => []ManagerInv
<1>1. Init => ManagerInv
  <2> SUFFICES ASSUME Init PROVE ManagerInv
    OBVIOUS
  <2> USE ConstantFacts
  <2>1. TypeOK
    <3>1. Len(periods) \in Nat
      BY ManagerAssumption
    <3>2. [ins |-> instruments[1], bar |-> [first |-> 1, last |-> 1]] \in [ins : Ins, bar : Bar]
      BY DEF Bar
    <3>3. /\ main \in 1..Len(periods) + 2 /\ subscribe_inst_ \in {<<>>, instruments}
          /\ phase \in [Types -> {"unborn", "start", "scan", "write", "push", "back"}]
          /\ focus_instr \in [Types -> {<<>>, instruments}]
          /\ at \in [Types -> DOMAIN instruments]
          /\ retrieve_start_pos \in [Types -> Nat]
      BY <3>1 DEF Init
    <3>4. notified \in [Types -> [ins : Ins, bar : Bar]]
      BY <3>2 DEF Init
    <3>5. /\ basic_minute_kdata_ \in [Types -> [Ins -> Seq(Bar)]]
          /\ decision_data_ \in [Types -> [Ins -> Seq(Bar)]]
      BY DEF Init
    <3>6. save_file_ \in Seq([period : Types, ins : Ins, bar : Bar, whole : BOOLEAN])
      BY DEF Init
    <3>7. raced \in BOOLEAN
      BY DEF Init
    <3> QED BY <3>3, <3>4, <3>5, <3>6, <3>7 DEF TypeOK
  <2>2. \A t \in Types, i \in Ins : /\ basic_minute_kdata_[t][i] = <<>>
                                   /\ decision_data_[t][i] = <<>>
    BY DEF Init
  <2>3. \A t \in Types : ~Composing(t) /\ ~Updating(t)
    BY DEF Init, Composing, Updating
  <2>4. Unborn
    <3>1. \A t \in Types \ {ONE} : phase[t] = "unborn"
      BY DEF Init
    <3> QED BY <3>1 DEF Unborn
  <2>5. OnlyAskedFor /\ Told /\ MinuteAfter
    <3>1. OnlyAskedFor /\ MinuteAfter
      BY <2>2, <2>3 DEF OnlyAskedFor, MinuteAfter
    <3>2. \A i \in Ins : Len(basic_minute_kdata_[ONE][i]) = 0 /\ Len(decision_data_[ONE][i]) = 0
      BY <2>2
    <3>3. Told
      <4>1. phase[ONE] \notin {"write", "push"}
        BY <2>3 DEF Updating
      <4>2. \A i \in Ins : Minutes(i) = 0
        BY <3>2 DEF Minutes
      <4> QED BY <4>1, <4>2, <3>2 DEF Told, Updating
    <3> QED BY <3>1, <3>3
  <2>6. BarsBehind /\ NoMinuteTwice
    BY <2>2 DEF BarsBehind, NoMinuteTwice
  <2> QED BY <2>1, <2>4, <2>5, <2>6 DEF ManagerInv
<1>2. ManagerInv /\ [Next]_vars => ManagerInv'
  <2> SUFFICES ASSUME ManagerInv, [Next]_vars PROVE ManagerInv'
    OBVIOUS
  <2>1. CASE UNCHANGED vars
    <3>1. TypeOK' /\ Unborn'
      BY <2>1, TypeStep DEF ManagerInv, Unborn, vars, setup
    <3> QED BY <2>1, <3>1, ThreadStep DEF vars, scanned, Composing, Left
  <2>2. CASE Next
    BY <2>2, ConstantFacts, PublishStep, ComposeStep, WriteStep, PushStep, OtherStep
       DEF Next, Publish, OneThread, PeriodThread
  <2> QED BY <2>1, <2>2
<1> QED BY <1>1, <1>2, PTL DEF Spec

\* Bars of a period share no minute (calculate_md_base_function).
THEOREM MinutesUsedOnce == Spec => []NoMinuteTwice
<1>1. ManagerInv => NoMinuteTwice
  BY DEF ManagerInv
<1> QED BY <1>1, ManagerInvariant, PTL

\* The strategy is told of a longer bar only after it has been told of the
\* minutes in it (calculate_specified_period waits for one minute more).
THEOREM MinutesToldFirst == Spec => []MinutesBeforePeriods
<1>1. ManagerInv => MinutesBeforePeriods
  <2> SUFFICES ASSUME ManagerInv, ONE \in k_type, NEW t \in Periods, NEW i \in Ins,
                      NEW k \in DOMAIN decision_data_[t][i]
               PROVE  decision_data_[t][i][k].last <= Len(decision_data_[ONE][i])
    BY DEF MinutesBeforePeriods
  <2>1. decision_data_[t][i][k].last < Minutes(i) /\ decision_data_[t][i][k].last \in Nat
    BY ConstantFacts, DecisionType DEF ManagerInv, MinuteAfter
  <2>2. i \in focused
    BY ConstantFacts DEF ManagerInv, OnlyAskedFor, Interested
  <2>3. Len(decision_data_[ONE][i]) \in Nat
    <3>1. decision_data_[ONE][i] \in Seq(Bar)
      BY ConstantFacts DEF ManagerInv, TypeOK
    <3> QED BY <3>1
  <2>4. Minutes(i) <= Len(decision_data_[ONE][i]) + 1
    <3>1. Told
      BY DEF ManagerInv
    <3>2. Minutes(i) = Len(decision_data_[ONE][i])
                         + (IF Updating(ONE) /\ notified[ONE].ins = i THEN 1 ELSE 0)
      BY <2>2, <3>1 DEF Told
    <3> QED BY <2>3, <3>2
  <2> QED BY <2>1, <2>3, <2>4, MinutesType DEF ManagerInv
<1> QED BY <1>1, ManagerInvariant, PTL

\* Every variable keeps its type; a thread's place in its list stays one.
THEOREM ManagerTypes == Spec => []TypeOK
<1>1. ManagerInv => TypeOK
  BY DEF ManagerInv
<1> QED BY <1>1, ManagerInvariant, PTL

-----------------------------------------------------------------------------
(* The strategy's minutes                                                  *)

\* The strategy's k-th minute is the k-th one published.
Numbered ==
    /\ Updating(ONE) => notified[ONE].bar.first = Minutes(notified[ONE].ins)
    /\ \A i \in Ins : \A k \in DOMAIN decision_data_[ONE][i] :
          decision_data_[ONE][i][k].first = k

\* A step of another thread, or one that only moves the calculator on.
LEMMA NumberedKept ==
    ASSUME ManagerInv, Numbered,
           \A i \in Ins : basic_minute_kdata_'[ONE][i] = basic_minute_kdata_[ONE][i],
           decision_data_'[ONE] = decision_data_[ONE], notified'[ONE] = notified[ONE],
           Updating(ONE)' => Updating(ONE)
    PROVE  Numbered'
<1>1. notified[ONE].ins \in Ins
  BY ConstantFacts DEF ManagerInv, TypeOK
<1> QED BY <1>1 DEF Numbered, Minutes

LEMMA NumberedStep == ManagerInv /\ ManagerInv' /\ Numbered /\ [Next]_vars => Numbered'
<1> SUFFICES ASSUME ManagerInv, ManagerInv', Numbered, [Next]_vars PROVE Numbered'
  OBVIOUS
<1> USE ConstantFacts
<1>0. TypeOK /\ basic_minute_kdata_ \in [Types -> [Ins -> Seq(Bar)]]
      /\ decision_data_ \in [Types -> [Ins -> Seq(Bar)]]
      /\ phase \in [Types -> {"unborn", "start", "scan", "write", "push", "back"}]
  BY DEF ManagerInv, TypeOK
<1>1. ASSUME NEW i \in Ins, push_min_one_data(i) PROVE Numbered'
  <2>1. /\ basic_minute_kdata_' = [basic_minute_kdata_ EXCEPT ![ONE][i] = Append(@, MinuteBar(i))]
        /\ Notify(ONE, i, MinuteBar(i)) /\ decision_data_' = decision_data_
    BY <1>1 DEF push_min_one_data
  <2>2. MinuteBar(i) \in Bar /\ MinuteBar(i).first = Minutes(i) + 1
    BY <1>0, NewBarType DEF MinuteBar, Minutes
  <2>3. notified'[ONE] = [ins |-> i, bar |-> MinuteBar(i)]
    BY <1>0, <2>1, <2>2, NotifyType
  <2>4. Len(basic_minute_kdata_'[ONE][i]) = Minutes(i) + 1
    BY <1>0, <2>1, <2>2, AppendBar DEF Minutes
  <2>5. notified'[ONE].bar.first = Len(basic_minute_kdata_'[ONE][notified'[ONE].ins])
    BY <2>2, <2>3, <2>4
  <2> QED BY <2>1, <2>5 DEF Numbered, Minutes
<1>2. ASSUME NEW t \in Types, push_bar(t) PROVE Numbered'
  <2>1. /\ phase[t] = "push" /\ basic_minute_kdata_' = basic_minute_kdata_
        /\ notified' = notified /\ phase' = [phase EXCEPT ![t] = "back"]
        /\ decision_data_' =
              [decision_data_ EXCEPT ![t][notified[t].ins] = Append(@, notified[t].bar)]
    BY <1>2 DEF push_bar
  <2>2. CASE t # ONE
    BY <1>0, <2>1, <2>2, NumberedKept DEF Updating
  <2>3. CASE t = ONE
    <3> DEFINE i == notified[ONE].ins
               bar == notified[ONE].bar
    <3>1. i \in Ins /\ bar \in Bar
      BY DEF ManagerInv, TypeOK
    <3>2. bar.first = Minutes(i) /\ ONE \in k_type /\ i \in focused
      BY <2>1, <2>3 DEF Numbered, Updating, ManagerInv, OnlyAskedFor, Interested
    <3>3. Minutes(i) = Len(decision_data_[ONE][i]) + 1
      BY <2>1, <2>3, <3>2 DEF ManagerInv, Told, Updating
    <3> HIDE DEF i, bar
    <3>4. decision_data_' = [decision_data_ EXCEPT ![ONE][i] = Append(@, bar)]
      BY <2>1, <2>3 DEF i, bar
    <3>5. /\ DOMAIN decision_data_'[ONE][i] = 1..Len(decision_data_[ONE][i]) + 1
          /\ DOMAIN decision_data_[ONE][i] = 1..Len(decision_data_[ONE][i])
          /\ decision_data_'[ONE][i][Len(decision_data_[ONE][i]) + 1] = bar
          /\ \A k \in DOMAIN decision_data_[ONE][i] :
                decision_data_'[ONE][i][k] = decision_data_[ONE][i][k]
          /\ \A j \in Ins \ {i} : decision_data_'[ONE][j] = decision_data_[ONE][j]
          /\ Len(decision_data_[ONE][i]) \in Nat
      BY <1>0, <3>1, <3>4, AppendBar
    <3>6. \A j \in Ins : \A k \in DOMAIN decision_data_'[ONE][j] :
             decision_data_'[ONE][j][k].first = k
      <4> SUFFICES ASSUME NEW j \in Ins, NEW k \in DOMAIN decision_data_'[ONE][j]
                   PROVE  decision_data_'[ONE][j][k].first = k
        OBVIOUS
      <4>1. CASE j # i
        BY <4>1, <3>5 DEF Numbered
      <4>2. CASE j = i /\ k \in DOMAIN decision_data_[ONE][i]
        BY <4>2, <3>1, <3>5 DEF Numbered
      <4>3. CASE j = i /\ k = Len(decision_data_[ONE][i]) + 1
        BY <4>3, <3>2, <3>3, <3>5
      <4> QED BY <4>1, <4>2, <4>3, <3>5
    <3>7. ~Updating(ONE)'
      BY <1>0, <2>1, <2>3 DEF Updating
    <3> QED BY <3>6, <3>7 DEF Numbered
  <2> QED BY <2>2, <2>3
<1>3. ASSUME NEW t \in Types, write_save_data(t) PROVE Numbered'
  BY <1>0, <1>3, NumberedKept DEF write_save_data, Updating
<1>4. ASSUME NEW t \in Periods, NEW i \in Ins, Compose(t, i) PROVE Numbered'
  <2>1. /\ basic_minute_kdata_' = [basic_minute_kdata_ EXCEPT ![t][i] = Append(@, NextBar(t))]
        /\ Notify(t, i, NextBar(t)) /\ decision_data_' = decision_data_
    BY <1>4 DEF Compose
  <2>2. NextBar(t) \in Bar
    BY <1>0, NewBarType
  <2>3. \A j \in Ins : basic_minute_kdata_'[ONE][j] = basic_minute_kdata_[ONE][j]
    BY <1>0, <2>1, <2>2, AppendBar
  <2>4. notified'[ONE] = notified[ONE] /\ phase'[ONE] = phase[ONE]
    <3>1. t \in Types /\ ONE \in Types \ {t}
      OBVIOUS
    <3>2. \A u \in Types \ {t} : phase'[u] = phase[u] /\ notified'[u] = notified[u]
      BY <1>0, <2>1, <2>2, <3>1, NotifyType
    <3> QED BY <3>1, <3>2
  <2> QED BY <2>1, <2>3, <2>4, NumberedKept DEF Updating
<1>5. CASE Main \/ OneBack \/ \E t \in Periods :
              get_instruments(t) \/ Position(t) \/ \E i \in Ins : NoBarYet(t, i)
  <2>1. UNCHANGED <<basic_minute_kdata_, decision_data_, notified>>
    BY <1>5 DEF Main, OpenThread, SetInstruments, OneBack, get_instruments, Position, NoBarYet
  <2>2. Updating(ONE)' => Updating(ONE)
    BY <1>0, <1>5 DEF Main, OpenThread, SetInstruments, OneBack, get_instruments, Position,
                      NoBarYet, Updating
  <2> QED BY <2>1, <2>2, NumberedKept
<1>6. CASE UNCHANGED vars
  BY <1>6, NumberedKept DEF vars, Updating
<1> QED BY <1>1, <1>2, <1>3, <1>4, <1>5, <1>6
        DEF Next, Publish, OneThread, PeriodThread

LEMMA MinutesNumbered == Spec => []Numbered
<1>1. Init => Numbered
  BY ConstantFacts DEF Init, Numbered, Updating
<1> QED BY <1>1, NumberedStep, ManagerInvariant, PTL DEF Spec

-----------------------------------------------------------------------------
(* The archive: record by record what the strategy gets                    *)

Record == [period : Types, ins : Ins, bar : Bar, whole : BOOLEAN]

LEMMA RecordsFinite ==
    ASSUME NEW file, NEW t, NEW i, NEW n \in Nat
    PROVE  /\ Records(file, t, i, n) \subseteq 1..n
           /\ IsFiniteSet(Records(file, t, i, n)) /\ Cardinality(Records(file, t, i, n)) \in Nat
<1>1. Records(file, t, i, n) \subseteq 1..n
  BY DEF Records
<1>2. IsFiniteSet(1..n)
  BY FS_Interval
<1> QED BY <1>1, <1>2, FS_Subset, FS_CardinalityType

\* The count at one of the records is the place of a bar.
LEMMA PlaceOfRecord ==
    ASSUME NEW file, NEW t, NEW i, NEW n \in Nat, NEW k \in Records(file, t, i, n)
    PROVE  Cardinality(Records(file, t, i, k)) \in 1..Cardinality(Records(file, t, i, n))
<1>1. k \in Nat /\ k \in Records(file, t, i, k) /\ Records(file, t, i, k) \subseteq Records(file, t, i, n)
  BY DEF Records
<1>2. Cardinality(Records(file, t, i, k)) <= Cardinality(Records(file, t, i, n))
  BY <1>1, RecordsFinite, FS_Subset
<1>3. Cardinality(Records(file, t, i, k)) \in Nat /\ Cardinality(Records(file, t, i, k)) # 0
  BY <1>1, RecordsFinite, FS_EmptySet
<1> QED BY <1>2, <1>3, RecordsFinite

\* A record more, of t and i or not.
LEMMA HoldsMore ==
    ASSUME NEW file \in Seq(Record), NEW new \in Record, NEW t, NEW i,
           NEW bars \in Seq(Bar), Holds(file, t, i, bars), new.whole
    PROVE  Holds(Append(file, new), t, i,
                 IF new.period = t /\ new.ins = i THEN Append(bars, new.bar) ELSE bars)
<1> DEFINE longer == Append(file, new)
           mine == new.period = t /\ new.ins = i
           n == Len(file)
<1>1. /\ n \in Nat /\ Len(longer) = n + 1
      /\ longer[n + 1] = new /\ \A k \in 1..n : longer[k] = file[k]
  BY AppendProperties
<1>2. \A k \in 1..n : Records(longer, t, i, k) = Records(file, t, i, k)
  BY <1>1 DEF Records
<1>3. Records(longer, t, i, n + 1) = IF mine THEN Records(file, t, i, n) \union {n + 1}
                                     ELSE Records(file, t, i, n)
  BY <1>1 DEF Records
<1>4. /\ Records(file, t, i, n) \subseteq 1..n
      /\ Cardinality(Records(file, t, i, n)) = Len(bars)
      /\ \A k \in Records(file, t, i, n) :
            /\ file[k].whole /\ file[k].bar = bars[Cardinality(Records(file, t, i, k))]
            /\ Cardinality(Records(file, t, i, k)) \in 1..Len(bars)
  BY <1>1, RecordsFinite, PlaceOfRecord DEF Holds
<1> HIDE DEF longer, n
<1>5. CASE mine
  <2>1. n + 1 \notin Records(file, t, i, n) /\ IsFiniteSet(Records(file, t, i, n))
    BY <1>1, <1>4, RecordsFinite
  <2>2. Cardinality(Records(longer, t, i, n + 1)) = Len(bars) + 1
    BY <1>3, <1>4, <1>5, <2>1, FS_AddElement
  <2>3. /\ Len(Append(bars, new.bar)) = Len(bars) + 1
        /\ Append(bars, new.bar)[Len(bars) + 1] = new.bar
        /\ \A k \in 1..Len(bars) : Append(bars, new.bar)[k] = bars[k]
    BY AppendProperties DEF Record
  <2>4. ASSUME NEW k \in Records(longer, t, i, n + 1)
        PROVE  longer[k].whole /\ longer[k].bar = Append(bars, new.bar)[Cardinality(Records(longer, t, i, k))]
    <3>1. CASE k = n + 1
      BY <3>1, <1>1, <2>2, <2>3
    <3>2. CASE k \in Records(file, t, i, n)
      BY <3>2, <1>1, <1>2, <1>4, <2>3
    <3> QED BY <3>1, <3>2, <1>3, <1>5
  <2>5. Holds(longer, t, i, Append(bars, new.bar))
    BY <1>1, <2>2, <2>3, <2>4 DEF Holds
  <2> QED BY <1>5, <2>5 DEF longer
<1>6. CASE ~mine
  <2>1. Holds(longer, t, i, bars)
    BY <1>1, <1>2, <1>3, <1>4, <1>6 DEF Holds
  <2> QED BY <1>6, <2>1 DEF longer
<1> QED BY <1>5, <1>6

\* As long as the file and what is given stay the same, so does what is said of them.
LEMMA SavedKept ==
    ASSUME SavedBeforeUsed, save_file_' = save_file_, raced => raced',
           \A t \in Types, i \in Ins : Given(t, i)' = Given(t, i)
    PROVE  SavedBeforeUsed'
BY DEF SavedBeforeUsed, Saved, Interested

LEMMA SavedWrite ==
    ASSUME ManagerInv, SavedBeforeUsed, NEW u \in Types, write_save_data(u) PROVE SavedBeforeUsed'
<1> USE ConstantFacts
<1>0. /\ save_file_ \in Seq(Record) /\ notified \in [Types -> [ins : Ins, bar : Bar]]
      /\ phase \in [Types -> {"unborn", "start", "scan", "write", "push", "back"}]
      /\ decision_data_ \in [Types -> [Ins -> Seq(Bar)]]
  BY DEF ManagerInv, TypeOK, Record
<1> DEFINE new == [period |-> u, ins |-> notified[u].ins, bar |-> notified[u].bar,
                   whole |-> TRUE]
<1>1. ~raced => save_file_' = Append(save_file_, new)
  BY DEF write_save_data
<1>2. /\ new \in Record /\ new.period = u /\ new.ins = notified[u].ins /\ new.bar = notified[u].bar
      /\ new.whole
  BY <1>0 DEF Record
<1>3. raced' = raced
  BY DEF write_save_data
<1> HIDE DEF new
<1>4. /\ phase[u] = "write" /\ phase' = [phase EXCEPT ![u] = "push"]
      /\ notified' = notified /\ decision_data_' = decision_data_
  BY DEF write_save_data
<1>5. Interested(u, notified[u].ins)
  BY <1>4 DEF ManagerInv, OnlyAskedFor, Updating
<1>6. ASSUME NEW t \in Types, NEW i \in Ins
      PROVE  /\ ~raced => Holds(save_file_', t, i, Given(t, i)')
             /\ Given(t, i)' # <<>> => Interested(t, i)
  <2>1. /\ ~raced => Holds(save_file_, t, i, Given(t, i))
        /\ Given(t, i) \in Seq(Bar)
        /\ Given(t, i) # <<>> => Interested(t, i)
    BY <1>0 DEF SavedBeforeUsed, Saved, Given
  <2>2. Given(t, i)' = IF new.period = t /\ new.ins = i THEN Append(Given(t, i), new.bar)
                       ELSE Given(t, i)
    BY <1>0, <1>2, <1>4 DEF Given
  <2>3. ASSUME ~raced PROVE Holds(save_file_', t, i, Given(t, i)')
    <3>1. Holds(Append(save_file_, new), t, i,
                IF new.period = t /\ new.ins = i THEN Append(Given(t, i), new.bar) ELSE Given(t, i))
      BY <1>0, <1>2, <2>1, <2>3, HoldsMore
    <3> QED BY <1>1, <2>2, <2>3, <3>1
  <2> QED BY <1>2, <1>5, <2>1, <2>2, <2>3
<1> QED BY <1>3, <1>6 DEF SavedBeforeUsed, Saved, Interested

LEMMA SavedPush ==
    ASSUME ManagerInv, SavedBeforeUsed, NEW u \in Types, push_bar(u) PROVE SavedBeforeUsed'
<1>0. /\ notified \in [Types -> [ins : Ins, bar : Bar]]
      /\ phase \in [Types -> {"unborn", "start", "scan", "write", "push", "back"}]
      /\ decision_data_ \in [Types -> [Ins -> Seq(Bar)]]
  BY DEF ManagerInv, TypeOK
<1>1. /\ phase[u] = "push" /\ phase' = [phase EXCEPT ![u] = "back"]
      /\ notified' = notified /\ save_file_' = save_file_ /\ raced' = raced
      /\ decision_data_' =
            [decision_data_ EXCEPT ![u][notified[u].ins] = Append(@, notified[u].bar)]
  BY DEF push_bar
<1>2. notified[u].ins \in Ins /\ notified[u].bar \in Bar
  BY <1>0
<1>3. /\ decision_data_'[u][notified[u].ins] = Append(decision_data_[u][notified[u].ins], notified[u].bar)
      /\ \A t \in Types, i \in Ins :
            t # u \/ i # notified[u].ins => decision_data_'[t][i] = decision_data_[t][i]
  BY <1>0, <1>1, <1>2
<1>4. \A t \in Types, i \in Ins : Given(t, i)' = Given(t, i)
  BY <1>0, <1>1, <1>2, <1>3 DEF Given
<1> QED BY <1>1, <1>4, SavedKept

\* Steps that neither write nor push begin and end no "push".
LEMMA SavedStep == ASSUME ManagerInv, SavedBeforeUsed, [Next]_vars PROVE SavedBeforeUsed'
<1> USE ConstantFacts
<1>0. TypeOK /\ phase \in [Types -> {"unborn", "start", "scan", "write", "push", "back"}]
  BY DEF ManagerInv, TypeOK
<1>1. ASSUME NEW t \in Types, NEW i \in Ins, NEW bar \in Bar, phase[t] = "scan", Notify(t, i, bar),
             decision_data_' = decision_data_, save_file_' = save_file_
      PROVE  SavedBeforeUsed'
  <2>1. /\ phase'[t] \in {"write", "back"} /\ (raced => raced')
        /\ \A u \in Types \ {t} : phase'[u] = phase[u] /\ notified'[u] = notified[u]
    BY <1>0, <1>1, NotifyType
  <2>2. \A u \in Types, j \in Ins : Given(u, j)' = Given(u, j)
    BY <1>1, <2>1 DEF Given
  <2> QED BY <1>1, <2>1, <2>2, SavedKept
<1>2. ASSUME NEW i \in Ins, push_min_one_data(i) PROVE SavedBeforeUsed'
  BY <1>0, <1>1, <1>2, NewBarType DEF push_min_one_data
<1>3. ASSUME NEW t \in Periods, NEW i \in Ins, Compose(t, i) PROVE SavedBeforeUsed'
  BY <1>0, <1>1, <1>3, NewBarType DEF Compose, Scanning
<1>4. CASE Main \/ OneBack \/ \E t \in Periods :
              get_instruments(t) \/ Position(t) \/ \E i \in Ins : NoBarYet(t, i)
  <2>1. UNCHANGED <<decision_data_, notified, save_file_, raced>>
    BY <1>4 DEF Main, OpenThread, SetInstruments, OneBack, get_instruments, Position, NoBarYet
  <2>2. \A u \in Types : phase'[u] = "push" <=> phase[u] = "push"
    <3>1. CASE OpenThread
      <4>1. main \in DOMAIN periods /\ phase' = [phase EXCEPT ![periods[main]] = "start"]
        BY <3>1 DEF OpenThread
      <4>2. main \in Nat /\ Unborn
        BY <4>1, ManagerAssumption DEF ManagerInv
      <4>3. periods[main] \in Periods /\ phase[periods[main]] = "unborn"
        BY <4>1, <4>2 DEF Unborn
      <4> QED BY <1>0, <4>1, <4>3
    <3>2. CASE ~OpenThread
      BY <1>0, <1>4, <3>2 DEF Main, SetInstruments, OneBack, get_instruments, Position, NoBarYet
    <3> QED BY <3>1, <3>2
  <2>3. \A u \in Types, j \in Ins : Given(u, j)' = Given(u, j)
    BY <2>1, <2>2 DEF Given
  <2> QED BY <2>1, <2>3, SavedKept
<1>5. CASE UNCHANGED vars
  BY <1>5, SavedKept DEF vars, Given
<1> QED BY <1>2, <1>3, <1>4, <1>5, SavedWrite, SavedPush
        DEF Next, Publish, OneThread, PeriodThread

\* Whichever threads update the strategy (CStrategy::update), in whatever
\* order: the records of a period and an instrument are the strategy's bars,
\* until two of the threads write at once.
THEOREM SavedFirst == Spec => []SavedBeforeUsed
<1>1. Init => SavedBeforeUsed
  <2> SUFFICES ASSUME Init, NEW t \in Types, NEW i \in Ins
               PROVE  Holds(save_file_, t, i, Given(t, i)) /\ Given(t, i) = <<>>
    BY DEF SavedBeforeUsed, Saved
  <2>1. save_file_ = <<>> /\ Given(t, i) = <<>>
    BY ConstantFacts DEF Init, Given
  <2>2. Records(<<>>, t, i, 0) = {} /\ Len(<<>>) = 0
    BY DEF Records
  <2> QED BY <2>1, <2>2, FS_EmptySet DEF Holds
<1> QED BY <1>1, SavedStep, ManagerInvariant, PTL DEF Spec

-----------------------------------------------------------------------------
(* What holds of simpler set-ups                                           *)

OnePeriodAsked == \A t, u \in k_type : t = u

\* All that write to the file are of the one period asked for: of one thread.
LEMMA OneWriter ==
    ASSUME OnePeriodAsked, ManagerInv, ~raced, [Next]_vars PROVE ~raced'
<1>1. ASSUME NEW t \in Types, NEW i \in Ins, NEW bar, Notify(t, i, bar) PROVE ~raced'
  <2>1. Interested(t, i) => ~Writing(t)
    BY DEF Writing, ManagerInv, OnlyAskedFor, Updating, Interested, OnePeriodAsked
  <2> QED BY <1>1, <2>1 DEF Notify
<1>2. CASE UNCHANGED raced
  BY <1>2
<1> QED BY <1>1, <1>2, ConstantFacts
        DEF Next, Main, Publish, OneThread, PeriodThread, OpenThread, SetInstruments,
            push_min_one_data, OneBack, push_bar, write_save_data, get_instruments, Position,
            NoBarYet, Compose, vars

\* A strategy that asks for bars of one period only gets them into its file,
\* each of them, once, whole and in order, whatever the threads of the other
\* periods do (CStrategy::update).
THEOREM ArchiveStaysWhole == OnePeriodAsked => (Spec => []ArchiveWhole)
<1> SUFFICES ASSUME OnePeriodAsked PROVE Spec => []ArchiveWhole
  OBVIOUS
<1>1. Init => ~raced
  BY DEF Init
<1>2. ManagerInv /\ ~raced /\ [Next]_vars => ~raced'
  BY OneWriter
<1>3. SavedBeforeUsed /\ ~raced => ArchiveWhole
  BY DEF SavedBeforeUsed, ArchiveWhole
<1> QED BY <1>1, <1>2, <1>3, SavedFirst, ManagerInvariant, PTL DEF Spec

\* With one instrument a period's bars are as long as its position says.
OneInstrument == \A i, j \in Ins : i = j
Packed == \A t \in Periods, i \in Ins :
    Len(basic_minute_kdata_[t][i]) * checkup_table[t] = Left(t)

LEMMA PackedCompose ==
    ASSUME OneInstrument, ManagerInv, Packed, Gapless,
           NEW t \in Periods, NEW i \in Ins, Compose(t, i)
    PROVE  Packed' /\ Gapless'
<1> USE ConstantFacts
<1> DEFINE n == Len(basic_minute_kdata_[t][i])
           c == checkup_table[t]
           bar == NextBar(t)
<1>0. /\ TypeOK /\ basic_minute_kdata_ \in [Types -> [Ins -> Seq(Bar)]]
      /\ retrieve_start_pos[t] \in Nat /\ c \in Nat
  BY DEF ManagerInv, TypeOK
<1>1. bar \in Bar /\ bar.first = retrieve_start_pos[t] + 1
  BY <1>0, NewBarType DEF NextBar
<1>2. /\ phase[t] = "scan" /\ Notify(t, i, bar) /\ retrieve_start_pos' = retrieve_start_pos
      /\ basic_minute_kdata_' = [basic_minute_kdata_ EXCEPT ![t][i] = Append(@, bar)]
  BY DEF Compose, Scanning, scanned
<1>3. n * c = retrieve_start_pos[t]
  <2>1. n * c = Left(t)
    BY Zenon DEF Packed
  <2>2. Left(t) = retrieve_start_pos[t]
    BY <1>0, <1>2 DEF Left, Composing
  <2> QED BY <2>1, <2>2
<1> HIDE DEF n, c, bar
<1>4. /\ n \in Nat /\ Len(basic_minute_kdata_'[t][i]) = n + 1
      /\ DOMAIN basic_minute_kdata_[t][i] = 1..n
      /\ DOMAIN basic_minute_kdata_'[t][i] = 1..n + 1
      /\ basic_minute_kdata_'[t][i][n + 1] = bar
      /\ \A k \in DOMAIN basic_minute_kdata_[t][i] :
            basic_minute_kdata_'[t][i][k] = basic_minute_kdata_[t][i][k]
      /\ \A u \in Types, j \in Ins :
            u # t \/ j # i => basic_minute_kdata_'[u][j] = basic_minute_kdata_[u][j]
  BY <1>0, <1>1, <1>2, AppendBar DEF n
<1>5. /\ phase'[t] \in {"write", "back"}
      /\ \A u \in Types \ {t} : phase'[u] = phase[u]
  BY <1>0, <1>1, <1>2, NotifyType
<1>6. (n + 1) * c = n * c + c
  BY <1>0, <1>4
<1>7. Packed'
  <2> SUFFICES ASSUME NEW u \in Periods, NEW j \in Ins
               PROVE  Len(basic_minute_kdata_'[u][j]) * checkup_table[u] = Left(u)'
    BY DEF Packed
  <2>1. CASE u = t
    <3>1. j = i /\ Left(u)' = retrieve_start_pos[t] + c
      BY <2>1, <1>2, <1>5 DEF OneInstrument, Left, Composing, c
    <3>2. Len(basic_minute_kdata_'[u][j]) * checkup_table[u] = (n + 1) * c
      BY <2>1, <3>1, <1>4 DEF c
    <3> QED BY <3>1, <3>2, <1>3, <1>6
  <2>2. CASE u # t
    BY <2>2, <1>2, <1>4, <1>5 DEF Packed, Left, Composing
  <2> QED BY <2>1, <2>2
<1>8. Gapless'
  <2> SUFFICES ASSUME NEW u \in Periods, NEW j \in Ins, NEW k \in DOMAIN basic_minute_kdata_'[u][j]
               PROVE  basic_minute_kdata_'[u][j][k].first = (k - 1) * checkup_table[u] + 1
    BY DEF Gapless
  <2>1. CASE u = t /\ k = n + 1
    <3>1. j = i /\ (k - 1) * checkup_table[u] = n * c
      BY <2>1, <1>4 DEF OneInstrument, c
    <3> QED BY <2>1, <3>1, <1>1, <1>3, <1>4
  <2>2. CASE u = t /\ k # n + 1
    <3>1. j = i
      BY DEF OneInstrument
    <3>2. k \in DOMAIN basic_minute_kdata_[t][i]
      BY <2>2, <3>1, <1>4
    <3>3. basic_minute_kdata_[t][i][k].first = (k - 1) * checkup_table[t] + 1
      BY <3>2, Zenon DEF Gapless
    <3> QED BY <2>2, <3>1, <3>2, <3>3, <1>4
  <2>3. CASE u # t
    BY <2>3, <1>4 DEF Gapless
  <2> QED BY <2>1, <2>2, <2>3
<1> QED BY <1>7, <1>8

LEMMA PackedStep ==
    ASSUME OneInstrument, ManagerInv, Packed, Gapless, [Next]_vars
    PROVE  Packed' /\ Gapless'
<1> USE ConstantFacts
<1>0. /\ TypeOK /\ basic_minute_kdata_ \in [Types -> [Ins -> Seq(Bar)]]
      /\ phase \in [Types -> {"unborn", "start", "scan", "write", "push", "back"}]
      /\ retrieve_start_pos \in [Types -> Nat]
  BY DEF ManagerInv, TypeOK
<1>1. ASSUME \A t \in Periods : /\ basic_minute_kdata_'[t] = basic_minute_kdata_[t]
                                /\ Left(t)' = Left(t)
      PROVE  Packed' /\ Gapless'
  BY <1>1 DEF Packed, Gapless
<1>2. ASSUME NEW i \in Ins, push_min_one_data(i) PROVE Packed' /\ Gapless'
  <2>1. /\ basic_minute_kdata_' = [basic_minute_kdata_ EXCEPT ![ONE][i] = Append(@, MinuteBar(i))]
        /\ Notify(ONE, i, MinuteBar(i)) /\ retrieve_start_pos' = retrieve_start_pos
    BY <1>2 DEF push_min_one_data, scanned
  <2>2. \A t \in Periods : basic_minute_kdata_'[t] = basic_minute_kdata_[t]
    BY <1>0, <2>1
  <2>3. \A t \in Periods : phase'[t] = phase[t]
    <3>1. \A t \in Types \ {ONE} : phase'[t] = phase[t]
      BY <1>0, <2>1, NewBarType, NotifyType
    <3> QED BY <3>1
  <2> QED BY <1>1, <2>1, <2>2, <2>3 DEF Left, Composing
<1>3. ASSUME NEW t \in Periods, Position(t) PROVE Packed' /\ Gapless'
  <2>1. /\ phase[t] = "back" /\ basic_minute_kdata_' = basic_minute_kdata_
        /\ phase' = [phase EXCEPT ![t] = "scan"]
        /\ retrieve_start_pos' =
              [retrieve_start_pos EXCEPT ![t] = retrieve_start_pos[t] + checkup_table[t]]
    BY <1>3 DEF Position, Advance
  <2>2. \A u \in Periods : Left(u)' = Left(u)
    BY <1>0, <2>1 DEF Left, Composing
  <2> QED BY <1>1, <2>1, <2>2
<1>4. CASE Main \/ OneBack \/ (\E t \in Types : write_save_data(t) \/ push_bar(t))
           \/ (\E t \in Periods : get_instruments(t) \/ \E i \in Ins : NoBarYet(t, i))
  <2>1. basic_minute_kdata_' = basic_minute_kdata_ /\ retrieve_start_pos' = retrieve_start_pos
    BY <1>4 DEF Main, OpenThread, SetInstruments, OneBack, write_save_data, push_bar,
                get_instruments, NoBarYet, scanned
  <2>2. \A t \in Periods : Composing(t)' <=> Composing(t)
    <3>1. CASE OpenThread
      <4>1. main \in DOMAIN periods /\ phase' = [phase EXCEPT ![periods[main]] = "start"]
        BY <3>1 DEF OpenThread
      <4>2. main \in Nat /\ Unborn
        BY <4>1, ManagerAssumption DEF ManagerInv
      <4>3. periods[main] \in Periods /\ phase[periods[main]] = "unborn"
        BY <4>1, <4>2 DEF Unborn
      <4> QED BY <1>0, <4>1, <4>3 DEF Composing
    <3>2. CASE ~OpenThread
      BY <1>0, <1>4, <3>2 DEF Main, SetInstruments, OneBack, write_save_data, push_bar,
                get_instruments, NoBarYet, Composing
    <3> QED BY <3>1, <3>2
  <2> QED BY <1>1, <2>1, <2>2 DEF Left
<1>5. CASE UNCHANGED vars
  BY <1>1, <1>5 DEF vars, scanned, Left, Composing
<1> QED BY <1>2, <1>3, <1>4, <1>5, PackedCompose
        DEF Next, Publish, OneThread, PeriodThread

\* With a single instrument the shared position (retrieve_start_pos of
\* calculate_md_base_function) does no harm: no minute is left out.
THEOREM NoGapsForOne == OneInstrument => (Spec => []Gapless)
<1> SUFFICES ASSUME OneInstrument PROVE Spec => []Gapless
  OBVIOUS
<1>1. Init => Packed /\ Gapless
  BY ConstantFacts DEF Init, Packed, Gapless, Left, Composing
<1>2. ManagerInv /\ Packed /\ Gapless /\ [Next]_vars => Packed' /\ Gapless'
  BY PackedStep
<1> QED BY <1>1, <1>2, ManagerInvariant, PTL DEF Spec
=============================================================================
