-------------------------- MODULE MaStrategyProofs --------------------------
(***************************************************************************)
(* What holds of the indicator thread for any nodes, any longest average   *)
(* and any number of bars.  The thread looks at the bars three times per   *)
(* round, for the fork, for its position and for the price; the invariant  *)
(* says what it knows in between.                                          *)
(***************************************************************************)
EXTENDS MaStrategy, SequenceTheorems, TLAPS

Known(n) == candle_bar_read_pos[n]

\* Between the first look and the second: a fork found is at the position,
\* a fork there that was not found came late.
FirstLook == pc = "advance" =>
    /\ action \in Forks => /\ Known(Node) < Len(candles_[Node])
                           /\ candles_[Node][Known(Node) + 1] = action
    /\ /\ action = "nothing" /\ Known(Node) < Len(candles_[Node])
       /\ candles_[Node][Known(Node) + 1] \in Forks
       => <<Node, Known(Node)>> \in late

\* After the second look the fork found is one before the position, and not
\* traded before.
SecondLook == pc = "trigger" =>
    /\ action \in Forks =>
         /\ Known(Node) > 0 /\ candles_[Node][Known(Node)] = action
         /\ \A k \in DOMAIN orders[Node] : orders[Node][k].bar < Known(Node) - 1
    /\ /\ action = "nothing" /\ Known(Node) > period_max
       /\ candles_[Node][Known(Node)] \in Forks /\ <<Node, Known(Node) - 1>> \notin late
       => Traded(Node, Known(Node) - 1)

OrdersBehind == \A n \in Nodes : \A k \in DOMAIN orders[n] : orders[n][k].bar < Known(n)

Started ==
    /\ \A n \in Nodes : IF initial_read_pos_flag[n] THEN Known(n) >= period_max ELSE Known(n) = 0
    /\ pc # "ready" => initial_read_pos_flag[Node]
    /\ pc \in {"ready", "fork"} => action = "nothing"

LookInv == /\ TypeOK /\ Started /\ FirstLook /\ SecondLook /\ OrdersBehind
           /\ PricedAtTheFork /\ OneOrderPerFork /\ ForksTraded

-----------------------------------------------------------------------------
LEMMA NodeType == ASSUME TypeOK PROVE Node \in Nodes /\ NextAt \in DOMAIN nodes
<1>1. at \in DOMAIN nodes /\ nodes \in Seq(Nodes)
  BY StrategyAssumption DEF TypeOK
<1>2. Node \in Nodes
  BY <1>1 DEF Node, Nodes
<1>3. NextAt \in DOMAIN nodes
  BY <1>1, SMTT(30) DEF NextAt
<1> QED BY <1>2, <1>3

LEMMA OrderType == ASSUME TypeOK, NEW n \in Nodes, NEW k \in DOMAIN orders[n]
                   PROVE  orders[n][k] \in [fork : Forks, bar : Nat] /\ orders[n][k].bar \in Nat
<1>1. orders[n] \in Seq([fork : Forks, bar : Nat])
  BY DEF TypeOK
<1>2. orders[n][k] \in [fork : Forks, bar : Nat]
  <2>1. k \in 1..Len(orders[n])
    BY <1>1
  <2> QED BY <1>1, <2>1, ElementOfSeq
<1> QED BY <1>2

LEMMA PriceType == ASSUME LookInv, pc = "trigger", action \in Forks PROVE limit_bar \in Nat
<1>1. Node \in Nodes
  BY NodeType DEF LookInv
<1> QED BY <1>1 DEF LookInv, SecondLook, limit_bar, TypeOK, Known

LEMMA TypeStep == ASSUME LookInv, [Next]_vars PROVE TypeOK'
<1> USE DEF LookInv
<1> SUFFICES ASSUME Next PROVE TypeOK'
  BY DEF TypeOK, vars, thread
<1>0. /\ TypeOK /\ Node \in Nodes /\ NextAt \in DOMAIN nodes
  BY NodeType
<1> USE DEF Verdict, Forks
<1>1. ASSUME NEW n \in Nodes, push_bar(n) PROVE TypeOK'
  <2>1. PICK v \in Verdict : candles_' = [candles_ EXCEPT ![n] = Append(@, v)]
    BY <1>1 DEF push_bar
  <2>2. candles_' \in [Nodes -> Seq(Verdict)]
    BY <2>1, <1>0 DEF TypeOK
  <2>3. \A m \in Nodes : Len(candles_[m]) <= Len(candles_'[m])
    BY <2>1, <1>0 DEF TypeOK
  <2>4. \A m \in Nodes : candle_bar_read_pos'[m] <= Len(candles_'[m])
    BY <2>2, <2>3, <1>0, <1>1 DEF TypeOK, push_bar
  <2>5. late' \subseteq Nodes \X Nat
    BY <1>0, <1>1 DEF TypeOK, push_bar
  <2> QED BY <2>2, <2>4, <2>5, <1>0, <1>1 DEF TypeOK, push_bar, thread
<1>2. CASE NotReady
  BY <1>0, <1>2 DEF TypeOK, NotReady
<1>3. CASE Ready
  <2>1. candle_bar_read_pos' \in [Nodes -> Nat] /\ initial_read_pos_flag' \in [Nodes -> BOOLEAN]
    BY <1>0, <1>3, StrategyAssumption DEF TypeOK, Ready
  <2>2. \A m \in Nodes : candle_bar_read_pos'[m] <= Len(candles_[m])
    <3>1. CASE UNCHANGED candle_bar_read_pos
      BY <3>1, <1>0 DEF TypeOK
    <3>2. CASE Enough /\ candle_bar_read_pos' = [candle_bar_read_pos EXCEPT ![Node] = period_max]
      <4>1. \A m \in Nodes : candle_bar_read_pos'[m] = IF m = Node THEN period_max
                                                      ELSE candle_bar_read_pos[m]
        BY <3>2, <1>0 DEF TypeOK
      <4>2. period_max <= Len(candles_[Node])
        BY <3>2, <1>0, StrategyAssumption DEF TypeOK, Enough
      <4> QED BY <4>1, <4>2, <1>0 DEF TypeOK
    <3> QED BY <3>1, <3>2, <1>3 DEF Ready
  <2> QED BY <2>1, <2>2, <1>0, <1>3 DEF TypeOK, Ready
<1>4. CASE get_fork_signal
  <2>1. ForkAt(Node, candle_bar_read_pos[Node]) \in Verdict
    BY <1>0 DEF TypeOK, ForkAt
  <2> QED BY <2>1, <1>0, <1>4 DEF TypeOK, get_fork_signal
<1>5. CASE get_signal
  <2>1. candle_bar_read_pos' \in [Nodes -> Nat]
    BY <1>0, <1>5 DEF TypeOK, get_signal
  <2>2. \A m \in Nodes : candle_bar_read_pos'[m] <= Len(candles_[m])
    BY <1>0, <1>5 DEF TypeOK, get_signal, BarThere
  <2> QED BY <2>1, <2>2, <1>0, <1>5 DEF TypeOK, get_signal
<1>6. CASE trigger_signal_action
  <2>1. orders' \in [Nodes -> Seq([fork : Forks, bar : Nat])]
    <3>1. CASE action \in Forks
      <4>1. limit_bar \in Nat
        BY <1>6, <3>1, PriceType DEF trigger_signal_action
      <4> QED BY <4>1, <3>1, <1>0, <1>6 DEF TypeOK, trigger_signal_action
    <3>2. CASE action \notin Forks
      BY <3>2, <1>0, <1>6 DEF TypeOK, trigger_signal_action
    <3> QED BY <3>1, <3>2
  <2> QED BY <2>1, <1>0, <1>6 DEF TypeOK, trigger_signal_action
<1> QED BY <1>1, <1>2, <1>3, <1>4, <1>5, <1>6 DEF Next, IndicatorThread

-----------------------------------------------------------------------------
LEMMA PushStep == ASSUME LookInv, NEW n \in Nodes, push_bar(n)
                  PROVE  LookInv'
<1> USE DEF LookInv, Known
<1>0. TypeOK /\ TypeOK' /\ Node \in Nodes /\ Node' = Node
  BY TypeStep, NodeType DEF Next, push_bar, thread, Node
<1>8. candles_ \in [Nodes -> Seq(Verdict)] /\ candles_' \in [Nodes -> Seq(Verdict)]
  BY <1>0 DEF TypeOK
<1>9. \A m \in Nodes : Len(candles_[m]) \in Nat /\ Len(candles_'[m]) \in Nat
  BY <1>8
<1>1. \A m \in Nodes : /\ Len(candles_[m]) <= Len(candles_'[m])
                       /\ \A k \in 1..Len(candles_[m]) : candles_'[m][k] = candles_[m][k]
  BY <1>8 DEF push_bar
<1>2. Started'
  BY <1>0 DEF Started, push_bar, thread
<1>7. orders' = orders
  BY DEF push_bar
<1>3. FirstLook'
  <2> SUFFICES ASSUME pc = "advance" PROVE FirstLook'
    BY DEF FirstLook, push_bar, thread
  <2>1. Known(Node) \in Nat /\ Known(Node) <= Len(candles_[Node]) /\ Known(Node)' = Known(Node)
    BY <1>0 DEF TypeOK, push_bar
  <2>2. CASE Known(Node) < Len(candles_[Node])
    <3>1. /\ Known(Node) + 1 \in 1..Len(candles_[Node])
          /\ candles_'[Node][Known(Node) + 1] = candles_[Node][Known(Node) + 1]
      <4>1. Known(Node) + 1 \in 1..Len(candles_[Node])
        BY <2>1, <2>2, <1>0, <1>9
      <4> QED BY <4>1, <1>0, <1>1
    <3>2. late \subseteq late'
      BY DEF push_bar
    <3>3. Known(Node) < Len(candles_'[Node])
      <4>1. Len(candles_[Node]) \in Nat /\ Len(candles_'[Node]) \in Nat
        BY <1>0, <1>9
      <4>2. Len(candles_[Node]) <= Len(candles_'[Node])
        BY <1>0, <1>1
      <4> HIDE DEF Known
      <4> QED BY <4>1, <4>2, <2>1, <2>2
    <3> QED BY <3>1, <3>2, <3>3, <2>1, <2>2, <1>0 DEF FirstLook, push_bar, thread
  <2>3. CASE Known(Node) = Len(candles_[Node])
    <3>1. action \notin Forks
      BY <2>3, <2>1, <1>0 DEF FirstLook, TypeOK
    <3>2. CASE n = Node
      BY <3>1, <3>2, <2>1, <2>3, <1>0 DEF FirstLook, push_bar, thread
    <3>3. CASE n # Node
      BY <3>1, <3>3, <2>1, <2>3, <1>0 DEF FirstLook, push_bar, thread, TypeOK
    <3> QED BY <3>2, <3>3
  <2> QED BY <2>1, <2>2, <2>3, <1>0 DEF TypeOK
<1>4. SecondLook'
  <2> SUFFICES ASSUME pc = "trigger" PROVE SecondLook'
    BY DEF SecondLook, push_bar, thread
  <2>1. Known(Node) \in Nat /\ Known(Node) <= Len(candles_[Node]) /\ Known(Node)' = Known(Node)
    BY <1>0 DEF TypeOK, push_bar
  <2>2. Known(Node) > 0 => candles_'[Node][Known(Node)] = candles_[Node][Known(Node)]
    BY <2>1, <1>0, <1>1 DEF TypeOK
  <2>3. late' = late
    BY DEF push_bar
  <2> QED BY <2>1, <2>2, <2>3, <1>0, StrategyAssumption DEF SecondLook, Traded, push_bar, thread
<1>5. OrdersBehind' /\ OneOrderPerFork'
  BY DEF OrdersBehind, OneOrderPerFork, push_bar
<1>6. PricedAtTheFork'
  <2> SUFFICES ASSUME NEW m \in Nodes, NEW k \in DOMAIN orders[m]
               PROVE  /\ orders[m][k].bar < Len(candles_'[m])
                      /\ candles_'[m][orders[m][k].bar + 1] = orders[m][k].fork
    BY <1>7 DEF PricedAtTheFork
  <2>1. orders[m][k].bar \in Nat
    BY <1>0, OrderType
  <2>2. /\ orders[m][k].bar < Len(candles_[m])
        /\ candles_[m][orders[m][k].bar + 1] = orders[m][k].fork
    BY DEF PricedAtTheFork
  <2>3. Len(candles_[m]) \in Nat /\ Len(candles_'[m]) \in Nat
    BY <1>9
  <2>4. orders[m][k].bar + 1 \in 1..Len(candles_[m])
    BY <2>1, <2>2, <2>3
  <2> QED BY <2>1, <2>2, <2>3, <2>4, <1>1
<1>10. ForksTraded'
  <2>3. \A m \in Nodes : Passed(m)' = Passed(m)
    BY <1>0 DEF Passed, push_bar, thread
  <2>4. \A m \in Nodes, k \in Int : Traded(m, k)' = Traded(m, k)
    BY <1>7 DEF Traded
  <2>5. \A m \in Nodes : Passed(m) \subseteq Int
    BY DEF Passed
  <2> SUFFICES ASSUME NEW m \in Nodes, NEW k \in Passed(m),
                      candles_'[m][k + 1] \in Forks, <<m, k>> \notin late'
               PROVE  Traded(m, k)
    BY <2>3, <2>4, <2>5 DEF ForksTraded
  <2>1. candles_'[m][k + 1] = candles_[m][k + 1]
    <3>1. /\ k \in period_max..Known(m) - 1 /\ Known(m) \in Nat
          /\ Known(m) <= Len(candles_[m])
      BY <1>0 DEF Passed, TypeOK
    <3>2. k + 1 \in 1..Len(candles_[m])
      BY <3>1, <1>9, StrategyAssumption
    <3> QED BY <3>2, <1>1
  <2>2. late \subseteq late'
    BY DEF push_bar
  <2> QED BY <2>1, <2>2 DEF ForksTraded
<1> QED BY <1>0, <1>2, <1>3, <1>4, <1>5, <1>6, <1>10

LEMMA LookStep == ASSUME LookInv, get_fork_signal PROVE LookInv'
<1> USE DEF LookInv, Known
<1>0. TypeOK /\ TypeOK' /\ Node \in Nodes /\ Node' = Node
  BY TypeStep, NodeType DEF Next, IndicatorThread, get_fork_signal, Node
<1>1. FirstLook'
  BY <1>0 DEF FirstLook, get_fork_signal, ForkAt, Forks, Verdict, TypeOK
<1>2. Started' /\ SecondLook' /\ OrdersBehind' /\ PricedAtTheFork' /\ OneOrderPerFork'
  BY <1>0 DEF Started, SecondLook, OrdersBehind, PricedAtTheFork, OneOrderPerFork, get_fork_signal
<1>3. ForksTraded'
  BY <1>0 DEF ForksTraded, Passed, Traded, get_fork_signal
<1> QED BY <1>0, <1>1, <1>2, <1>3

LEMMA AdvanceStep == ASSUME LookInv, get_signal PROVE LookInv'
<1> USE DEF LookInv, Known
<1>0. TypeOK /\ TypeOK' /\ Node \in Nodes /\ Node' = Node
  BY TypeStep, NodeType DEF Next, IndicatorThread, get_signal, Node
<1>1. /\ candles_' = candles_ /\ orders' = orders /\ late' = late /\ action' = action
      /\ initial_read_pos_flag' = initial_read_pos_flag /\ pc = "advance" /\ pc' = "trigger"
  BY DEF get_signal
<1>2. \A m \in Nodes : /\ Known(m) \in Nat /\ Known(m)' \in Nat /\ Known(m) <= Known(m)'
                       /\ m # Node => Known(m)' = Known(m)
  BY <1>0 DEF get_signal, TypeOK
<1>3. Len(candles_[Node]) \in Nat /\ Known(Node) <= Len(candles_[Node])
  BY <1>0 DEF TypeOK
<1>4. Known(Node)' = IF Known(Node) < Len(candles_[Node]) THEN Known(Node) + 1 ELSE Known(Node)
  BY <1>0, <1>2, <1>3 DEF get_signal, BarThere, TypeOK
<1> HIDE DEF Known
<1>5. \A m \in Nodes : initial_read_pos_flag[m] = FALSE => m # Node
  BY <1>1 DEF Started
<1>6. Started'
  <2>1. ASSUME NEW m \in Nodes
        PROVE  IF initial_read_pos_flag[m] THEN Known(m)' >= period_max ELSE Known(m)' = 0
    <3>1. initial_read_pos_flag[m] \in BOOLEAN
      BY <1>0 DEF TypeOK
    <3> QED BY <3>1, <1>2, <1>5, StrategyAssumption DEF Started
  <2> QED BY <2>1, <1>0, <1>1 DEF Started
<1>7. FirstLook'
  BY <1>1 DEF FirstLook
<1>8. \A m \in Nodes : \A k \in DOMAIN orders[m] : orders[m][k].bar \in Nat
  BY <1>0, OrderType
<1>9. OrdersBehind'
  <2> SUFFICES ASSUME NEW m \in Nodes, NEW k \in DOMAIN orders[m]
               PROVE  orders[m][k].bar < Known(m)'
    BY <1>1 DEF OrdersBehind
  <2>1. orders[m][k].bar < Known(m) /\ orders[m][k].bar \in Nat
    BY <1>8 DEF OrdersBehind
  <2> QED BY <2>1, <1>2
<1>10. SecondLook'
  <2>1. CASE action \in Forks
    <3>1. Known(Node)' = Known(Node) + 1 /\ candles_[Node][Known(Node) + 1] = action
      BY <2>1, <1>1, <1>4 DEF FirstLook
    <3>2. \A k \in DOMAIN orders[Node] : orders[Node][k].bar < Known(Node)' - 1
      BY <3>1, <1>0, <1>2, <1>8 DEF OrdersBehind
    <3>3. Known(Node)' > 0
      BY <3>1, <1>0, <1>2
    <3>4. action # "nothing"
      BY <2>1 DEF Forks
    <3> QED BY <3>1, <3>2, <3>3, <3>4, <1>0, <1>1 DEF SecondLook
  <2>2. CASE action \notin Forks
    <3>1. SUFFICES ASSUME action = "nothing", Known(Node)' > period_max,
                          candles_[Node][Known(Node)'] \in Forks,
                          <<Node, Known(Node)' - 1>> \notin late
                   PROVE  Traded(Node, Known(Node)' - 1)
      BY <2>2, <1>0, <1>1 DEF SecondLook, Traded
    <3>2. CASE Known(Node) < Len(candles_[Node])
      <4>1. Known(Node)' = Known(Node) + 1 /\ Known(Node)' - 1 = Known(Node)
        BY <3>2, <1>0, <1>2, <1>4
      <4> QED BY <4>1, <3>1, <3>2, <1>1 DEF FirstLook
    <3>3. CASE ~(Known(Node) < Len(candles_[Node]))
      <4>1. Known(Node)' = Known(Node)
        BY <3>3, <1>4
      <4>2. Known(Node) - 1 \in Passed(Node)
        BY <4>1, <3>1, <1>0, <1>1, <1>2, StrategyAssumption DEF Passed, Known
      <4>3. candles_[Node][(Known(Node) - 1) + 1] = candles_[Node][Known(Node)]
        BY <1>0, <1>2
      <4> QED BY <4>1, <4>2, <4>3, <3>1, <1>0 DEF ForksTraded
    <3> QED BY <3>2, <3>3
  <2> QED BY <2>1, <2>2
<1>11. PricedAtTheFork' /\ OneOrderPerFork'
  BY <1>1 DEF PricedAtTheFork, OneOrderPerFork
<1>12. ForksTraded'
  <2> SUFFICES ASSUME NEW m \in Nodes, NEW k \in Passed(m)',
                      candles_[m][k + 1] \in Forks, <<m, k>> \notin late
               PROVE  Traded(m, k)
    BY <1>1 DEF ForksTraded, Traded
  <2>1. /\ k \in period_max..Known(m)' - 1
        /\ Node = m => k + 1 # Known(m)'
    BY <1>0, <1>1 DEF Passed, Known
  <2>2. k \in period_max..Known(m) - 1
    <3>1. CASE m # Node
      BY <2>1, <3>1, <1>2 DEF Known
    <3>2. CASE m = Node
      BY <2>1, <3>2, <1>0, <1>2, <1>4, StrategyAssumption DEF Known
    <3> QED BY <3>1, <3>2
  <2>3. k \in Passed(m)
    BY <2>2, <1>1 DEF Passed, Known
  <2> QED BY <2>3 DEF ForksTraded
<1> QED BY <1>0, <1>6, <1>7, <1>9, <1>10, <1>11, <1>12

LEMMA TriggerStep == ASSUME LookInv, trigger_signal_action PROVE LookInv'
<1> USE DEF LookInv
<1>0. TypeOK /\ TypeOK' /\ Node \in Nodes
  BY TypeStep, NodeType DEF Next, IndicatorThread
<1>1. /\ candles_' = candles_ /\ late' = late /\ candle_bar_read_pos' = candle_bar_read_pos
      /\ initial_read_pos_flag' = initial_read_pos_flag
      /\ pc = "trigger" /\ pc' = "ready" /\ action' = "nothing"
  BY DEF trigger_signal_action
<1>2. \A m \in Nodes : Known(m)' = Known(m) /\ Known(m) \in Nat
  BY <1>0, <1>1 DEF Known, TypeOK
<1>3. Started' /\ FirstLook' /\ SecondLook'
  BY <1>1 DEF Started, FirstLook, SecondLook, Known
<1>4. CASE action \notin Forks
  <2>1. orders' = orders
    BY <1>4 DEF trigger_signal_action
  <2>2. OrdersBehind' /\ PricedAtTheFork' /\ OneOrderPerFork'
    BY <2>1, <1>1 DEF OrdersBehind, PricedAtTheFork, OneOrderPerFork, Known
  <2>3. ForksTraded'
    <3> SUFFICES ASSUME NEW m \in Nodes, NEW k \in Passed(m)',
                        candles_[m][k + 1] \in Forks, <<m, k>> \notin late
                 PROVE  Traded(m, k)
      BY <2>1, <1>1 DEF ForksTraded, Traded
    <3>1. k \in period_max..Known(m) - 1
      BY <1>1 DEF Passed, Known
    <3>2. CASE Node = m /\ k + 1 = Known(m)
      <4>1. k = Known(m) - 1 /\ Known(m) > period_max
        BY <3>1, <3>2, <1>2, StrategyAssumption
      <4>2. action = "nothing"
        BY <1>0, <1>4 DEF TypeOK, Verdict
      <4> QED BY <4>1, <4>2, <3>2, <1>1 DEF SecondLook
    <3>3. CASE ~(Node = m /\ k + 1 = Known(m))
      BY <3>1, <3>3 DEF Passed, ForksTraded, Known
    <3> QED BY <3>2, <3>3
  <2> QED BY <1>0, <1>3, <2>2, <2>3
<1>5. CASE action \in Forks
  <2> DEFINE new == [fork |-> action, bar |-> Known(Node) - 1]
  <2>1. /\ Known(Node) > 0 /\ candles_[Node][Known(Node)] = action
        /\ \A k \in DOMAIN orders[Node] : orders[Node][k].bar < Known(Node) - 1
        /\ Known(Node) <= Len(candles_[Node]) /\ Len(candles_[Node]) \in Nat
    BY <1>0, <1>1, <1>5 DEF SecondLook, TypeOK, Known
  <2>2. orders' = [orders EXCEPT ![Node] = Append(@, new)]
    BY <1>5 DEF trigger_signal_action, limit_bar, Known
  <2>3. /\ orders'[Node] = Append(orders[Node], new)
        /\ \A m \in Nodes \ {Node} : orders'[m] = orders[m]
    BY <2>2, <1>0 DEF TypeOK
  <2>4. orders[Node] \in Seq([fork : Forks, bar : Nat]) /\ Len(orders[Node]) \in Nat
    <3>1. orders[Node] \in Seq([fork : Forks, bar : Nat])
      BY <1>0 DEF TypeOK
    <3> QED BY <3>1
  <2>5. /\ DOMAIN orders[Node] = 1..Len(orders[Node])
        /\ DOMAIN orders'[Node] = 1..Len(orders[Node]) + 1
        /\ \A k \in 1..Len(orders[Node]) : orders'[Node][k] = orders[Node][k]
        /\ orders'[Node][Len(orders[Node]) + 1] = new
    <3> HIDE DEF new
    <3> QED BY <2>3, <2>4
  <2>6. new.bar = Known(Node) - 1 /\ new.fork = action /\ (Known(Node) - 1) + 1 = Known(Node)
    BY <1>0, <1>2
  <2> HIDE DEF new
  <2>7. \A k \in DOMAIN orders'[Node] : k \in DOMAIN orders[Node] \/ k = Len(orders[Node]) + 1
    BY <2>4, <2>5
  <2>8. OrdersBehind'
    <3> SUFFICES ASSUME NEW m \in Nodes, NEW k \in DOMAIN orders'[m]
                 PROVE  orders'[m][k].bar < Known(m)
      BY <1>2 DEF OrdersBehind
    <3>1. CASE m # Node
      BY <3>1, <2>3 DEF OrdersBehind
    <3>2. CASE m = Node /\ k \in DOMAIN orders[Node]
      BY <3>2, <2>5 DEF OrdersBehind
    <3>3. CASE m = Node /\ k = Len(orders[Node]) + 1
      BY <3>3, <2>5, <2>6, <1>2
    <3> QED BY <3>1, <3>2, <3>3, <2>7
  <2>9. PricedAtTheFork'
    <3> SUFFICES ASSUME NEW m \in Nodes, NEW k \in DOMAIN orders'[m]
                 PROVE  /\ orders'[m][k].bar < Len(candles_[m])
                        /\ candles_[m][orders'[m][k].bar + 1] = orders'[m][k].fork
      BY <1>1 DEF PricedAtTheFork
    <3>1. CASE m # Node
      BY <3>1, <2>3 DEF PricedAtTheFork
    <3>2. CASE m = Node /\ k \in DOMAIN orders[Node]
      BY <3>2, <2>5 DEF PricedAtTheFork
    <3>3. CASE m = Node /\ k = Len(orders[Node]) + 1
      <4>1. Known(Node) - 1 < Len(candles_[Node])
        BY <2>1, <1>0, <1>2
      <4> QED BY <4>1, <3>3, <2>1, <2>5, <2>6
    <3> QED BY <3>1, <3>2, <3>3, <2>7
  <2>10. OneOrderPerFork'
    <3> SUFFICES ASSUME NEW m \in Nodes, NEW j \in DOMAIN orders'[m],
                        NEW k \in DOMAIN orders'[m], j < k
                 PROVE  orders'[m][j].bar < orders'[m][k].bar
      BY DEF OneOrderPerFork
    <3>1. CASE m # Node
      BY <3>1, <2>3 DEF OneOrderPerFork
    <3>2. CASE m = Node /\ k \in DOMAIN orders[Node]
      <4>1. j \in 1..Len(orders[Node])
        BY <3>2, <2>4, <2>5, <2>7
      <4> QED BY <4>1, <3>2, <2>5 DEF OneOrderPerFork
    <3>3. CASE m = Node /\ k = Len(orders[Node]) + 1
      <4>1. j \in 1..Len(orders[Node])
        BY <3>3, <2>4, <2>5
      <4> QED BY <4>1, <3>3, <2>1, <2>5, <2>6
    <3> QED BY <3>1, <3>2, <3>3, <2>7
  <2>11. ForksTraded'
    <3> SUFFICES ASSUME NEW m \in Nodes, NEW k \in Passed(m)',
                        candles_[m][k + 1] \in Forks, <<m, k>> \notin late
                 PROVE  Traded(m, k)'
      BY <1>1 DEF ForksTraded
    <3>1. k \in period_max..Known(m) - 1
      BY <1>1 DEF Passed, Known
    <3>2. CASE Node = m /\ k + 1 = Known(m)
      <4>1. Len(orders[Node]) + 1 \in DOMAIN orders'[Node]
        BY <2>4, <2>5
      <4>2. k = Known(Node) - 1
        BY <3>1, <3>2, <1>0, <1>2, StrategyAssumption
      <4> QED BY <4>1, <4>2, <3>2, <2>5, <2>6 DEF Traded
    <3>3. CASE ~(Node = m /\ k + 1 = Known(m))
      <4>1. Traded(m, k)
        BY <3>1, <3>3 DEF Passed, ForksTraded, Known
      <4>2. PICK j \in DOMAIN orders[m] : orders[m][j].bar = k
        BY <4>1 DEF Traded
      <4>3. j \in DOMAIN orders'[m] /\ orders'[m][j] = orders[m][j]
        <5>1. CASE m = Node
          BY <5>1, <2>4, <2>5
        <5>2. CASE m # Node
          BY <5>2, <2>3
        <5> QED BY <5>1, <5>2
      <4> QED BY <4>2, <4>3 DEF Traded
    <3> QED BY <3>2, <3>3
  <2> QED BY <1>0, <1>3, <2>8, <2>9, <2>10, <2>11
<1> QED BY <1>4, <1>5

LEMMA ReadyStep == ASSUME LookInv, Ready \/ NotReady PROVE LookInv'
<1> USE DEF LookInv
<1>0. TypeOK /\ TypeOK' /\ Node \in Nodes
  BY TypeStep, NodeType DEF Next, IndicatorThread
<1>1. /\ candles_' = candles_ /\ late' = late /\ orders' = orders /\ action' = action
      /\ pc = "ready" /\ pc' \in {"ready", "fork"}
  BY DEF Ready, NotReady
<1>2. CASE UNCHANGED <<initial_read_pos_flag, candle_bar_read_pos>>
  <2>1. OrdersBehind' /\ PricedAtTheFork' /\ OneOrderPerFork' /\ FirstLook' /\ SecondLook'
    BY <1>1, <1>2 DEF OrdersBehind, PricedAtTheFork, OneOrderPerFork, FirstLook, SecondLook, Known
  <2>2. ForksTraded'
    BY <1>1, <1>2 DEF ForksTraded, Passed, Traded
  <2>3. pc' = "fork" => Node' = Node /\ initial_read_pos_flag[Node]
    BY <1>0, <1>1, <1>2 DEF Ready, NotReady, TypeOK, Node
  <2>4. Started'
    BY <2>3, <1>1, <1>2 DEF Started, Known
  <2> QED BY <2>1, <2>2, <2>4, <1>0
<1>3. CASE /\ Ready /\ ~initial_read_pos_flag[Node] /\ Enough
           /\ candle_bar_read_pos' = [candle_bar_read_pos EXCEPT ![Node] = period_max]
           /\ initial_read_pos_flag' = [initial_read_pos_flag EXCEPT ![Node] = TRUE]
  <2>1. /\ Known(Node) = 0 /\ Known(Node)' = period_max /\ initial_read_pos_flag'[Node]
        /\ \A m \in Nodes \ {Node} : /\ Known(m)' = Known(m)
                                     /\ initial_read_pos_flag'[m] = initial_read_pos_flag[m]
    BY <1>0, <1>3 DEF Started, Known, TypeOK, Ready, Node
  <2>2. Node' = Node /\ pc' = "fork" /\ action = "nothing"
    BY <1>1, <1>3 DEF Ready, Node, Started
  <2>3. Started'
    BY <2>1, <2>2, <1>0, <1>1, StrategyAssumption DEF Started
  <2>4. DOMAIN orders[Node] = {}
    <3>1. \A k \in DOMAIN orders[Node] : orders[Node][k].bar \in Nat /\ orders[Node][k].bar < 0
      BY <2>1, <1>0, OrderType DEF OrdersBehind
    <3> QED BY <3>1
  <2>5. OrdersBehind'
    BY <2>1, <2>4, <1>0, <1>1 DEF OrdersBehind
  <2>6. PricedAtTheFork' /\ OneOrderPerFork' /\ FirstLook' /\ SecondLook'
    BY <2>2, <1>1 DEF PricedAtTheFork, OneOrderPerFork, FirstLook, SecondLook
  <2>7. ForksTraded'
    <3> SUFFICES ASSUME NEW m \in Nodes, NEW k \in Passed(m)',
                        candles_[m][k + 1] \in Forks, <<m, k>> \notin late
                 PROVE  Traded(m, k)
      BY <1>1 DEF ForksTraded, Traded
    <3>1. k \in period_max..Known(m)' - 1
      BY DEF Passed, Known
    <3>2. m # Node
      BY <3>1, <2>1, <2>2, StrategyAssumption DEF Known
    <3>3. k \in Passed(m)
      BY <3>1, <3>2, <2>1 DEF Passed, Known
    <3> QED BY <3>3 DEF ForksTraded
  <2> QED BY <2>3, <2>5, <2>6, <2>7, <1>0
<1> QED BY <1>2, <1>3 DEF Ready, NotReady

-----------------------------------------------------------------------------
\* What the thread knows between its three looks at the bars: any number of
\* bars may come in between.
THEOREM LooksInvariant == Spec => []LookInv
<1>1. Init => LookInv
  <2> SUFFICES ASSUME Init PROVE LookInv
    OBVIOUS
  <2>1. 1 \in DOMAIN nodes
    BY StrategyAssumption
  <2>2. TypeOK
    BY <2>1 DEF Init, TypeOK, Verdict
  <2>3. \A n \in Nodes : DOMAIN orders[n] = {} /\ Known(n) = 0
    BY DEF Init, Known
  <2>4. \A n \in Nodes : Passed(n) = {}
    BY <2>3, StrategyAssumption DEF Passed, Known
  <2>5. Started /\ FirstLook /\ SecondLook /\ OrdersBehind
    BY <2>3 DEF Init, Started, FirstLook, SecondLook, OrdersBehind
  <2>6. PricedAtTheFork /\ OneOrderPerFork /\ ForksTraded
    BY <2>3, <2>4 DEF PricedAtTheFork, OneOrderPerFork, ForksTraded
  <2> QED BY <2>2, <2>5, <2>6 DEF LookInv
<1>2. LookInv /\ [Next]_vars => LookInv'
  <2> SUFFICES ASSUME LookInv, [Next]_vars PROVE LookInv'
    OBVIOUS
  <2>1. ASSUME NEW n \in Nodes, push_bar(n) PROVE LookInv'
    BY <2>1, PushStep
  <2>2. CASE IndicatorThread
    BY <2>2, ReadyStep, LookStep, AdvanceStep, TriggerStep DEF IndicatorThread
  <2>3. CASE UNCHANGED vars
    <3> USE <2>3 DEF vars, thread, LookInv
    <3>1. TypeOK'
      BY DEF TypeOK
    <3>2. Started' /\ OrdersBehind' /\ PricedAtTheFork' /\ OneOrderPerFork'
      BY DEF Started, OrdersBehind, PricedAtTheFork, OneOrderPerFork, Known, Node
    <3>3. FirstLook' /\ SecondLook' /\ ForksTraded'
      BY DEF FirstLook, SecondLook, ForksTraded, Passed, Traded, Known, Node
    <3> QED BY <3>1, <3>2, <3>3
  <2> QED BY <2>1, <2>2, <2>3 DEF Next
<1> QED BY <1>1, <1>2, PTL DEF Spec

\* An order is priced at the bar of its fork (CMovingAverage::get_limit_price
\* after get_signal has moved the position).
THEOREM PriceIsTheForks == Spec => []PricedAtTheFork
<1>1. LookInv => PricedAtTheFork
  BY DEF LookInv
<1> QED BY <1>1, LooksInvariant, PTL

\* No fork is traded twice (CMovingAverage::get_signal).
THEOREM NoForkTwice == Spec => []OneOrderPerFork
<1>1. LookInv => OneOrderPerFork
  BY DEF LookInv
<1> QED BY <1>1, LooksInvariant, PTL

\* The only forks that are not traded are those of bars that came between
\* the thread's first look and its second.
THEOREM OnlyLateForksMissed == Spec => []ForksTraded
<1>1. LookInv => ForksTraded
  BY DEF LookInv
<1> QED BY <1>1, LooksInvariant, PTL

\* Every variable keeps its type; the thread's node stays one of the map's.
THEOREM LookTypes == Spec => []TypeOK
<1>1. LookInv => TypeOK
  BY DEF LookInv
<1> QED BY <1>1, LooksInvariant, PTL
=============================================================================
