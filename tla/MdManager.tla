----------------------------- MODULE MdManager -----------------------------
(***************************************************************************)
(* CMdManager (ctp_trade/MdManager.cpp): from one minute bars to bars of   *)
(* longer periods, and on to a strategy.                                   *)
(*                                                                         *)
(* CMdBroadCast's calculator pushes each one minute bar to the dataset ONE *)
(* and notifies the strategy of it.  One thread per longer period copies   *)
(* the list of instruments when it starts and then goes round it, turning  *)
(* the next minutes of an instrument into a bar of its period.  All of     *)
(* these threads notify the strategy, which writes the bar to a file and   *)
(* appends it to its own copy of the data (CStrategy::update).             *)
(*                                                                         *)
(* A bar is the interval of one minute bars it is made of; what composing  *)
(* does to the prices is not modelled here.                                *)
(***************************************************************************)
EXTENDS Naturals, Sequences, FiniteSets

CONSTANTS
    instruments,     \* CTradeManager::load_all_interested_ins
    ONE,             \* the dataset of one minute bars
    periods,         \* the longer periods, in the order their threads start
    checkup_table,   \* minutes of a bar, per period
    k_type,          \* the periods the strategy has asked for
    focused,         \* its instruments
    MaxBars          \* bound: one minute bars of an instrument

Ins == {instruments[k] : k \in DOMAIN instruments}
Periods == {periods[k] : k \in DOMAIN periods}
Types == {ONE} \union Periods

ASSUME ManagerAssumption ==
    /\ instruments \in Seq(Ins) /\ instruments # <<>>
    /\ periods \in Seq(Periods) /\ ONE \notin Periods
    /\ \A j, k \in DOMAIN periods : periods[j] = periods[k] => j = k
    /\ checkup_table \in [Types -> Nat \ {0}] /\ checkup_table[ONE] = 1
    /\ k_type \subseteq Types /\ focused \subseteq Ins
    /\ MaxBars \in Nat

Bar == [first : Nat \ {0}, last : Nat \ {0}]

VARIABLES
    main,                \* what initial_md_manager does next
    subscribe_inst_,     \* CMdBroadCast's list of instruments
    basic_minute_kdata_, \* the bars of each period and instrument
    phase,               \* where each period's thread is (ONE's: the calculator)
    focus_instr,         \* its copy of the list
    at,                  \* its place in it
    retrieve_start_pos,  \* how many minutes it has used
    notified,            \* the bar it is notifying the strategy of
    decision_data_,      \* the strategy's copy of the bars
    save_file_,          \* the records the strategy has written
    raced                \* whether two threads have been writing it at once

setup   == <<main, subscribe_inst_>>
scanned == <<focus_instr, at, retrieve_start_pos>>
vars    == <<setup, basic_minute_kdata_, phase, scanned, notified, decision_data_,
             save_file_, raced>>

-----------------------------------------------------------------------------
Init ==
    /\ main = 1 /\ subscribe_inst_ = <<>>
    /\ basic_minute_kdata_ = [t \in Types |-> [i \in Ins |-> <<>>]]
    /\ phase = [t \in Types |-> IF t = ONE THEN "scan" ELSE "unborn"]
    /\ focus_instr = [t \in Types |-> <<>>]
    /\ at = [t \in Types |-> 1]
    /\ retrieve_start_pos = [t \in Types |-> 0]
    /\ notified = [t \in Types |-> [ins |-> instruments[1], bar |-> [first |-> 1, last |-> 1]]]
    /\ decision_data_ = [t \in Types |-> [i \in Ins |-> <<>>]]
    /\ save_file_ = <<>> /\ raced = FALSE

-----------------------------------------------------------------------------
(* initial_md_manager: first the period threads, then CMdBroadCast.        *)

OpenThread ==
    /\ main \in DOMAIN periods
    /\ phase' = [phase EXCEPT ![periods[main]] = "start"]
    /\ main' = main + 1
    /\ UNCHANGED <<subscribe_inst_, basic_minute_kdata_, scanned, notified,
                   decision_data_, save_file_, raced>>

\* set_intruments.  A thread that copies the list meanwhile gets the old or
\* the new one, or brings the process down.
Running == main > Len(periods) + 1
SetInstruments ==
    /\ main = Len(periods) + 1
    /\ subscribe_inst_' = instruments
    /\ main' = main + 1
    /\ UNCHANGED <<basic_minute_kdata_, phase, scanned, notified,
                   decision_data_, save_file_, raced>>

-----------------------------------------------------------------------------
(* CStrategy::update, run by the thread that notifies.                     *)

Interested_anyperiod(t, i) == i \in focused      \* (slip: of whatever period)
Interested(t, i) == t \in k_type /\ i \in focused

Notify_unsaved(t, i, bar) == \* (slip: not written)
    /\ phase' = [phase EXCEPT ![t] = IF Interested(t, i) THEN "push" ELSE "back"]
    /\ notified' = [notified EXCEPT ![t] = [ins |-> i, bar |-> bar]]
    /\ UNCHANGED raced

\* Nothing keeps a thread from writing while another does.
Writing(t) == \E u \in Types \ {t} : phase[u] = "write"
Notify(t, i, bar) ==
    /\ phase' = [phase EXCEPT ![t] = IF Interested(t, i) THEN "write" ELSE "back"]
    /\ notified' = [notified EXCEPT ![t] = [ins |-> i, bar |-> bar]]
    /\ raced' = (raced \/ (Interested(t, i) /\ Writing(t)))

\* fstream::write puts the record behind the others -- or, when two threads
\* have been in the stream's one buffer at once, behind some of them, whole,
\* torn or not at all.
Torn(record) == [record EXCEPT !.whole = FALSE]
Written(file, record) == {SubSeq(file, 1, k) \o tail :
    k \in 0..Len(file), tail \in {<<>>, <<record>>, <<Torn(record)>>}}
write_save_data(t) ==
    /\ phase[t] = "write"
    /\ LET record == [period |-> t, ins |-> notified[t].ins, bar |-> notified[t].bar,
                      whole |-> TRUE]
       IN  IF raced THEN save_file_' \in Written(save_file_, record)
                    ELSE save_file_' = Append(save_file_, record)
    /\ phase' = [phase EXCEPT ![t] = "push"]
    /\ UNCHANGED <<setup, basic_minute_kdata_, scanned, notified, decision_data_, raced>>

push_bar(t) ==
    /\ phase[t] = "push"
    /\ decision_data_' =
          [decision_data_ EXCEPT ![t][notified[t].ins] = Append(@, notified[t].bar)]
    /\ phase' = [phase EXCEPT ![t] = "back"]
    /\ UNCHANGED <<setup, basic_minute_kdata_, scanned, notified, save_file_, raced>>

-----------------------------------------------------------------------------
(* push_min_one_data, called by CMdBroadCast's calculator.                 *)

MinuteBar(i) == LET n == Len(basic_minute_kdata_[ONE][i]) + 1 IN [first |-> n, last |-> n]

push_min_one_data(i) ==
    /\ Running /\ phase[ONE] = "scan" /\ Len(basic_minute_kdata_[ONE][i]) < MaxBars
    /\ basic_minute_kdata_' = [basic_minute_kdata_ EXCEPT ![ONE][i] = Append(@, MinuteBar(i))]
    /\ Notify(ONE, i, MinuteBar(i))
    /\ UNCHANGED <<setup, scanned, decision_data_, save_file_>>

OneBack ==
    /\ phase[ONE] = "back"
    /\ phase' = [phase EXCEPT ![ONE] = "scan"]
    /\ UNCHANGED <<setup, basic_minute_kdata_, scanned, notified,
                   decision_data_, save_file_, raced>>

-----------------------------------------------------------------------------
(* calculate_md_base_function, the thread of period t.                     *)

get_instruments(t) ==
    /\ phase[t] = "start"
    /\ focus_instr' = [focus_instr EXCEPT ![t] = subscribe_inst_]
    /\ phase' = [phase EXCEPT ![t] = "scan"]
    /\ UNCHANGED <<setup, basic_minute_kdata_, at, retrieve_start_pos, notified,
                   decision_data_, save_file_, raced>>

Scanning(t, i) == /\ phase[t] = "scan" /\ focus_instr[t] # <<>>
                  /\ i = focus_instr[t][at[t]]

NextAt_nowrap(t) == [at EXCEPT ![t] = @ + 1]     \* (slip: no way back to the first)
NextAt(t) == [at EXCEPT ![t] = (@ % Len(focus_instr[t])) + 1]

\* calculate_specified_period: more minutes than the bar needs.
Enough_exact(t, i) == \* (slip: as many as it needs)
    Len(basic_minute_kdata_[ONE][i]) >= retrieve_start_pos[t] + checkup_table[t]
Enough_late(t, i) == \* (slip: and one more)
    Len(basic_minute_kdata_[ONE][i]) > retrieve_start_pos[t] + checkup_table[t] + 1
Enough(t, i) ==
    Len(basic_minute_kdata_[ONE][i]) > retrieve_start_pos[t] + checkup_table[t]

NoBarYet(t, i) ==
    /\ Scanning(t, i) /\ ~Enough(t, i)
    /\ at' = NextAt(t)
    /\ UNCHANGED <<setup, basic_minute_kdata_, phase, focus_instr, retrieve_start_pos,
                   notified, decision_data_, save_file_, raced>>

NextBar(t) == [first |-> retrieve_start_pos[t] + 1,
               last |-> retrieve_start_pos[t] + checkup_table[t]]

Compose(t, i) ==
    /\ Scanning(t, i) /\ Enough(t, i)
    /\ basic_minute_kdata_' = [basic_minute_kdata_ EXCEPT ![t][i] = Append(@, NextBar(t))]
    /\ Notify(t, i, NextBar(t))
    /\ UNCHANGED <<setup, scanned, decision_data_, save_file_>>

\* One position serves all the instruments.
Advance_one(t) == retrieve_start_pos[t] + 1      \* (slip: to the next minute)
Advance(t) == retrieve_start_pos[t] + checkup_table[t]

Position(t) ==
    /\ phase[t] = "back"
    /\ retrieve_start_pos' = [retrieve_start_pos EXCEPT ![t] = Advance(t)]
    /\ at' = NextAt(t)
    /\ phase' = [phase EXCEPT ![t] = "scan"]
    /\ UNCHANGED <<setup, basic_minute_kdata_, focus_instr, notified,
                   decision_data_, save_file_, raced>>

-----------------------------------------------------------------------------
PeriodThread(t) ==
    \/ get_instruments(t) \/ Position(t) \/ write_save_data(t) \/ push_bar(t)
    \/ \E i \in Ins : NoBarYet(t, i) \/ Compose(t, i)
OneThread == OneBack \/ write_save_data(ONE) \/ push_bar(ONE)
Main == OpenThread \/ SetInstruments
Publish == \E i \in Ins : push_min_one_data(i)

Next == Main \/ Publish \/ OneThread \/ \E t \in Periods : PeriodThread(t)

Spec == Init /\ [][Next]_vars
-----------------------------------------------------------------------------
(* Type *)

\* Every variable keeps its type, and a thread's place in its list is one.
TypeOK ==
    /\ main \in 1..Len(periods) + 2
    /\ subscribe_inst_ \in {<<>>, instruments}
    /\ basic_minute_kdata_ \in [Types -> [Ins -> Seq(Bar)]]
    /\ phase \in [Types -> {"unborn", "start", "scan", "write", "push", "back"}]
    /\ focus_instr \in [Types -> {<<>>, instruments}]
    /\ at \in [Types -> DOMAIN instruments]
    /\ retrieve_start_pos \in [Types -> Nat]
    /\ notified \in [Types -> [ins : Ins, bar : Bar]]
    /\ decision_data_ \in [Types -> [Ins -> Seq(Bar)]]
    /\ save_file_ \in Seq([period : Types, ins : Ins, bar : Bar, whole : BOOLEAN])
    /\ raced \in BOOLEAN

-----------------------------------------------------------------------------
(* Safety *)

\* The bars of a period are made of that many minutes, all of them there,
\* and no minute of an instrument is in two of them, though the threads read
\* the one minute bars while they grow and instruments share a position.
NoMinuteTwice == \A t \in Periods, i \in Ins :
    LET bars == basic_minute_kdata_[t][i] IN
    \A k \in DOMAIN bars :
        /\ bars[k].last = bars[k].first + checkup_table[t] - 1
        /\ bars[k].last <= Len(basic_minute_kdata_[ONE][i])
        /\ \A j \in 1..k - 1 : bars[j].last < bars[k].first

\* A strategy that has asked for one minute bars, too, never sees a longer
\* bar before the minutes it is made of: the calculator's thread tells it of
\* the minutes, the period's own thread of the bar.  (The one minute bar is
\* in the dataset before the strategy is told.)
MinutesBeforePeriods == ONE \in k_type =>
    \A t \in Periods, i \in Ins : \A k \in DOMAIN decision_data_[t][i] :
        decision_data_[t][i][k].last <= Len(decision_data_[ONE][i])

\* The strategy's bars of t and i, with the one written and not yet pushed.
Given(t, i) == IF phase[t] = "push" /\ notified[t].ins = i
               THEN Append(decision_data_[t][i], notified[t].bar) ELSE decision_data_[t][i]

\* Which of a file's first n records are of t and i, and whether these hold
\* just the given bars, in order and none torn.
Records(file, t, i, n) == {k \in 1..n : file[k].period = t /\ file[k].ins = i}
Holds(file, t, i, bars) ==
    LET mine == Records(file, t, i, Len(file)) IN
    /\ Cardinality(mine) = Len(bars)
    /\ \A k \in mine :
          file[k].whole /\ file[k].bar = bars[Cardinality(Records(file, t, i, k))]

\* What the strategy can act on has been written to its file first, in the
\* same order and with nothing else of it -- until two threads have been
\* writing at once, after which the file promises nothing.  And the strategy
\* gets nothing it has not asked for.
Saved(t, i) == Holds(save_file_, t, i, Given(t, i))
SavedBeforeUsed == \A t \in Types, i \in Ins :
    /\ ~raced => Saved(t, i)
    /\ Given(t, i) # <<>> => Interested(t, i)

\* No two threads write to the file at once, and it has all the strategy is
\* given, as long as that asks for bars of one period only, as main does
\* (ctp_trade.cpp:9).
ArchiveWhole == ~raced /\ \A t \in Types, i \in Ins : Saved(t, i)

\* Every minute of the day is in a bar of each period, but for the last ones.
Gapless == \A t \in Periods, i \in Ins : \A k \in DOMAIN basic_minute_kdata_[t][i] :
    basic_minute_kdata_[t][i][k].first = (k - 1) * checkup_table[t] + 1
=============================================================================
