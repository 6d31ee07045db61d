----------------------------- MODULE MaStrategy -----------------------------
(***************************************************************************)
(* CMAStrategy's indicator thread (ctp_trade/Strategy.cpp) and the moving  *)
(* averages it asks for signals (ctp_trade/TechniqueIndicator.cpp).        *)
(*                                                                         *)
(* There is a CMovingAverage per period and instrument, here a node.  The  *)
(* thread goes round the nodes; at each it looks for a fork at the bar it  *)
(* has come to, moves on if the bar is there, and orders at the price of   *)
(* the bar before the new position.  Other threads append bars meanwhile   *)
(* (CStrategy::update); each look at the bars takes their lock anew.       *)
(*                                                                         *)
(* A bar is the fork get_fork_signal finds at it: "gold", "dead" or        *)
(* "nothing".  The trend it looks for otherwise makes no order.            *)
(***************************************************************************)
EXTENDS Integers, Sequences

CONSTANTS
    nodes,        \* the keys of decision_tech_ma_, in the map's order
    period_max,   \* the longest average: 4 (set_default_parameters)
    MaxBars       \* bound: bars of a node

Nodes == {nodes[k] : k \in DOMAIN nodes}

ASSUME StrategyAssumption ==
    /\ nodes \in Seq(Nodes) /\ nodes # <<>>
    /\ \A j, k \in DOMAIN nodes : nodes[j] = nodes[k] => j = k
    /\ period_max \in Nat \ {0} /\ MaxBars \in Nat

Forks == {"gold", "dead"}
Verdict == Forks \union {"nothing"}

VARIABLES
    candles_,               \* the strategy's bars, per node
    initial_read_pos_flag,  \* has the node had enough bars?
    candle_bar_read_pos,    \* how many of its bars the thread has passed
    at, pc, action,         \* the thread: node, place in the loop, fork found
    orders,                 \* orders of each node: direction, bar of the price
    late                    \* history: bars appended behind the thread's back

thread == <<at, pc, action>>
vars   == <<candles_, initial_read_pos_flag, candle_bar_read_pos, thread, orders, late>>

Node == nodes[at]
NextAt == (at % Len(nodes)) + 1

-----------------------------------------------------------------------------
Init ==
    /\ candles_ = [n \in Nodes |-> <<>>]
    /\ initial_read_pos_flag = [n \in Nodes |-> FALSE]
    /\ candle_bar_read_pos = [n \in Nodes |-> 0]
    /\ at = 1 /\ pc = "ready" /\ action = "nothing"
    /\ orders = [n \in Nodes |-> <<>>]
    /\ late = {}

\* CCandleBar::push_bar, in the thread that notifies the strategy.
push_bar(n) == \E v \in Verdict :
    /\ Len(candles_[n]) < MaxBars
    /\ candles_' = [candles_ EXCEPT ![n] = Append(@, v)]
    /\ late' = IF pc = "advance" /\ Node = n /\ candle_bar_read_pos[n] = Len(candles_[n])
               THEN late \union {<<n, Len(candles_[n])>>} ELSE late
    /\ UNCHANGED <<initial_read_pos_flag, candle_bar_read_pos, thread, orders>>

-----------------------------------------------------------------------------
(* strategic_decision_function.  Bars are numbered from 0.                 *)

Enough == Len(candles_[Node]) > period_max

\* is_basic_data_ready
NotReady ==
    /\ pc = "ready" /\ ~initial_read_pos_flag[Node] /\ ~Enough
    /\ at' = NextAt
    /\ UNCHANGED <<candles_, initial_read_pos_flag, candle_bar_read_pos, pc, action, orders, late>>

Ready ==
    /\ pc = "ready"
    /\ \/ /\ initial_read_pos_flag[Node]
          /\ UNCHANGED <<initial_read_pos_flag, candle_bar_read_pos>>
       \/ /\ ~initial_read_pos_flag[Node] /\ Enough
          /\ candle_bar_read_pos' = [candle_bar_read_pos EXCEPT ![Node] = period_max]
          /\ initial_read_pos_flag' = [initial_read_pos_flag EXCEPT ![Node] = TRUE]
    /\ pc' = "fork"
    /\ UNCHANGED <<candles_, at, action, orders, late>>

\* get_signal's first look.  The averages of a bar that is not there yet
\* cannot be calculated, which is no signal.
ForkAt_last(n, k) == \* (slip: at the latest bar)
    IF k < Len(candles_[n]) THEN candles_[n][Len(candles_[n])] ELSE "nothing"
ForkAt(n, k) == IF k < Len(candles_[n]) THEN candles_[n][k + 1] ELSE "nothing"

get_fork_signal ==
    /\ pc = "fork"
    /\ action' = ForkAt(Node, candle_bar_read_pos[Node])
    /\ pc' = "advance"
    /\ UNCHANGED <<candles_, initial_read_pos_flag, candle_bar_read_pos, at, orders, late>>

\* Its second look, after the averages: is the bar there?
BarThere_never == FALSE                           \* (slip: the position never moves)
BarThere == Len(candles_[Node]) > candle_bar_read_pos[Node]

get_signal ==
    /\ pc = "advance"
    /\ candle_bar_read_pos' = IF BarThere THEN [candle_bar_read_pos EXCEPT ![Node] = @ + 1]
                                          ELSE candle_bar_read_pos
    /\ pc' = "trigger"
    /\ UNCHANGED <<candles_, initial_read_pos_flag, at, action, orders, late>>

\* get_limit_price: the close of this bar.
limit_bar_next == candle_bar_read_pos[Node]       \* (slip: of the next one)
limit_bar == candle_bar_read_pos[Node] - 1

\* trigger_signal_action: a golden fork buys, a dead one sells.  (With
\* _TRADE_TIME_ the order is inserted, otherwise only logged.)
trigger_signal_action ==
    /\ pc = "trigger"
    /\ orders' = IF action \in Forks
                 THEN [orders EXCEPT ![Node] = Append(@, [fork |-> action, bar |-> limit_bar])]
                 ELSE orders
    /\ at' = NextAt /\ pc' = "ready" /\ action' = "nothing"
    /\ UNCHANGED <<candles_, initial_read_pos_flag, candle_bar_read_pos, late>>

-----------------------------------------------------------------------------
IndicatorThread == NotReady \/ Ready \/ get_fork_signal \/ get_signal \/ trigger_signal_action

Next == IndicatorThread \/ \E n \in Nodes : push_bar(n)

Spec == Init /\ [][Next]_vars

\* The thread keeps running; nothing obliges bars to come.
FairSpec == Spec /\ WF_vars(IndicatorThread)

-----------------------------------------------------------------------------
(* Type *)

\* Every variable keeps its type; the position never passes the bars.
TypeOK ==
    /\ candles_ \in [Nodes -> Seq(Verdict)]
    /\ initial_read_pos_flag \in [Nodes -> BOOLEAN]
    /\ candle_bar_read_pos \in [Nodes -> Nat]
    /\ \A n \in Nodes : candle_bar_read_pos[n] <= Len(candles_[n])
    /\ at \in DOMAIN nodes /\ pc \in {"ready", "fork", "advance", "trigger"}
    /\ action \in Verdict
    /\ orders \in [Nodes -> Seq([fork : Forks, bar : Nat])]
    /\ late \subseteq Nodes \X Nat

-----------------------------------------------------------------------------
(* Safety *)

\* An order is priced at the very bar its fork is at, though the position
\* moves between the fork and the price, and bars come in between.
PricedAtTheFork == \A n \in Nodes : \A k \in DOMAIN orders[n] :
    LET order == orders[n][k] IN
    order.bar < Len(candles_[n]) /\ candles_[n][order.bar + 1] = order.fork

\* No fork is traded twice, however often the thread comes round, and forks
\* are traded in the order of time.
OneOrderPerFork == \A n \in Nodes : \A j, k \in DOMAIN orders[n] :
    j < k => orders[n][j].bar < orders[n][k].bar

\* The bars of n the thread has gone past and is done with.
Passed(n) == {k \in period_max..candle_bar_read_pos[n] - 1 :
                 Node = n /\ k + 1 = candle_bar_read_pos[n] => pc # "trigger"}
Traded(n, k) == \E j \in DOMAIN orders[n] : orders[n][j].bar = k

\* A fork is traded once the thread is past it, but for one at a bar that
\* came between the two looks at it.
ForksTraded == \A n \in Nodes : \A k \in Passed(n) :
    candles_[n][k + 1] \in Forks /\ <<n, k>> \notin late => Traded(n, k)

-----------------------------------------------------------------------------
(* Liveness *)

\* The thread catches up with every node's bars.
CatchesUp == \A n \in Nodes, k \in 0..MaxBars - 1 :
    Len(candles_[n]) > period_max /\ Len(candles_[n]) > k ~> candle_bar_read_pos[n] > k
=============================================================================
