----------------------------- MODULE MinuteBars -----------------------------
(***************************************************************************)
(* What CMdBroadCast promises, free of threads, locks and buffers: per     *)
(* instrument a stream of ticks is accepted, and the stream is cut, front  *)
(* to back and without gaps, into one bar per finished minute.  Only while *)
(* the market of an instrument is closed may a stretch of its ticks be     *)
(* dropped instead.                                                        *)
(***************************************************************************)
EXTENDS Naturals, Sequences

CONSTANTS Ins,           \* the instruments
          Tick,          \* the ticks
          MinuteOf(_),   \* the minute a tick was traded in
          DayOf(_)       \* and the trading day

VARIABLES stream,    \* [Ins -> Seq(Tick)]: every tick accepted so far
          cut,       \* [Ins -> Nat]: how many of them are in a bar or dropped
          bars,      \* [Ins -> Seq(bar)]: the bars published so far
          open       \* [Ins -> BOOLEAN]: is the market open?

mbvars == <<stream, cut, bars, open>>

Init ==
    /\ stream = [i \in Ins |-> <<>>]
    /\ cut = [i \in Ins |-> 0]
    /\ bars = [i \in Ins |-> <<>>]
    /\ open = [i \in Ins |-> FALSE]

\* A tick enters the stream, or only tells whether the market is open.
Accept(i) ==
    /\ \/ \E t \in Tick : stream' = [stream EXCEPT ![i] = Append(@, t)]
       \/ UNCHANGED stream
    /\ \E o \in BOOLEAN : open' = [open EXCEPT ![i] = o]
    /\ UNCHANGED <<cut, bars>>

\* The next n ticks are all the ticks of one minute, and the minute is over:
\* a tick of a later one has been accepted.
IsMinute(i, n) ==
    /\ n > 0 /\ cut[i] + n < Len(stream[i])
    /\ \A j \in 1..n : MinuteOf(stream[i][cut[i] + j]) = MinuteOf(stream[i][cut[i] + n])
    /\ MinuteOf(stream[i][cut[i] + n]) < MinuteOf(stream[i][cut[i] + n + 1])

Publish(i) == \E n \in 1..Len(stream[i]) :
    /\ IsMinute(i, n)
    /\ bars' = [bars EXCEPT ![i] = Append(@,
                  [trade_day |-> DayOf(stream[i][cut[i] + 1]),
                   trade_time |-> 100 * MinuteOf(stream[i][cut[i] + n]),
                   ticks |-> SubSeq(stream[i], cut[i] + 1, cut[i] + n)])]
    /\ cut' = [cut EXCEPT ![i] = @ + n]
    /\ UNCHANGED <<stream, open>>

\* After the close the ticks left over are dropped.
Discard(i) ==
    /\ ~open[i]
    /\ cut' = [cut EXCEPT ![i] = Len(stream[i])]
    /\ UNCHANGED <<stream, bars, open>>

Next == \E i \in Ins : Accept(i) \/ Publish(i) \/ Discard(i)

Spec == Init /\ [][Next]_mbvars
=============================================================================
