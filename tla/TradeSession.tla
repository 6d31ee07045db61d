---------------------------- MODULE TradeSession ----------------------------
(***************************************************************************)
(* Starting to trade, in the build with _TRADE_TIME_.                      *)
(*                                                                         *)
(*   main         CTradeManager::initial_trader: opens the market data     *)
(*                interface, waits for its login, subscribes; opens the    *)
(*                trading interface, logs in, confirms the settlement;     *)
(*   md and td    the threads of the exchange's two interfaces, which call *)
(*                back in the order of what happens to their connections   *)
(*                (CMdBroadCast's and CTdTradeSpi's On... methods);        *)
(*   Orderers     the strategies' indicator threads, which insert orders   *)
(*                from the first bars on, whatever main is doing.          *)
(*                                                                         *)
(* main and td meet in a trade_handle: a flag, its mutex and its condition *)
(* variable.  A request on a connection that is down returns an error; one *)
(* that was sent is answered, unless the connection is lost first.  The    *)
(* request ids are left out: no callback reads them.                       *)
(***************************************************************************)
EXTENDS Integers, Sequences

CONSTANTS
    Orderers,      \* threads that insert orders
    MaxOrderRef,   \* the reference the exchange gives at the login
    MaxDrops,      \* bound: connections lost, per interface
    MaxOrders      \* bound: orders begun

ASSUME SessionAssumption == MaxOrderRef \in Nat /\ MaxDrops \in Nat /\ MaxOrders \in Nat

VARIABLES
    main,                 \* what initial_trader does next
    asleep,               \* main sleeps in trade_handle::wait_handle
    aborted,              \* the process is gone: abort(), or a null td_api_
    \* market data
    md_api_,              \* the interface: not yet made, null, or open
    md_front,             \* the exchange's side of it
    md_calls,             \* callbacks on their way
    is_ready_subscribe_,
    \* trading
    td_api_, td_front, td_calls,
    connect_td_flag_, ready_flag,
    order_ref,            \* the next order's reference
    orderer,              \* each order thread: where it is, its reference
    \* history
    begun,                \* orders begun
    early,                \* was one begun before the login's answer was taken?
    taken                 \* references of the orders the exchange took

mdvars == <<md_api_, md_front, md_calls, is_ready_subscribe_>>
tdvars == <<td_api_, td_front, td_calls, connect_td_flag_>>
orders == <<orderer, begun, early, taken>>
vars   == <<main, asleep, aborted, mdvars, tdvars, ready_flag, order_ref, orders>>

Api == {"none", "null", "open"}

\* The exchange's side of an interface: is the connection up, the request it
\* has to answer, is it within an accepted login, has it ever granted what
\* else it was asked for (md: the subscription, td: the confirmation of the
\* settlement), and how often the connection was lost.
Front == [up : BOOLEAN, request : {"none", "login", "confirm"}, login : BOOLEAN,
          granted : BOOLEAN, drops : 0..MaxDrops]
NoFront == [up |-> FALSE, request |-> "none", login |-> FALSE, granted |-> FALSE, drops |-> 0]

Calls == {"connected", "disconnected", "login", "login_error", "confirm", "confirm_error"}

-----------------------------------------------------------------------------
Init ==
    /\ main = "md" /\ asleep = FALSE /\ aborted = FALSE
    /\ md_api_ = "none" /\ md_front = NoFront /\ md_calls = <<>>
    /\ is_ready_subscribe_ = FALSE
    /\ td_api_ = "none" /\ td_front = NoFront /\ td_calls = <<>>
    /\ connect_td_flag_ = FALSE /\ ready_flag = FALSE
    /\ order_ref = 0
    /\ orderer = [o \in Orderers |-> [pc |-> "idle", ref |-> 0]]
    /\ begun = 0 /\ early = FALSE /\ taken = <<>>

-----------------------------------------------------------------------------
(* The exchange *)

Connected(front) == [front EXCEPT !.up = TRUE]
Dropped(front) == [front EXCEPT !.up = FALSE, !.request = "none", !.login = FALSE,
                                !.drops = @ + 1]
Asked(front, request) == [front EXCEPT !.request = request]
\* It confirms only within a login.
CanAccept(front) == front.request = "login" \/ front.login
Accepted(front) == [front EXCEPT !.request = "none", !.login = TRUE,
                       !.granted = (@ \/ front.request = "confirm")]
Refused(front) == [front EXCEPT !.request = "none"]

\* What happens to a connection: front becomes next, and call is called back.
Happens(front, next, call) ==
    \/ ~front.up /\ next = Connected(front) /\ call = "connected"
    \/ front.up /\ front.drops < MaxDrops /\ next = Dropped(front) /\ call = "disconnected"
    \/ front.request # "none" /\ CanAccept(front) /\ next = Accepted(front) /\ call = front.request
    \/ front.request # "none" /\ next = Refused(front)
       /\ call = IF front.request = "login" THEN "login_error" ELSE "confirm_error"

MdExchange == \E call \in Calls :
    /\ md_api_ = "open" /\ ~aborted
    /\ Happens(md_front, md_front', call)
    /\ md_calls' = Append(md_calls, call)
    /\ UNCHANGED <<main, asleep, aborted, md_api_, is_ready_subscribe_, tdvars, ready_flag,
                   order_ref, orders>>

TdExchange == \E call \in Calls :
    /\ td_api_ = "open" /\ ~aborted
    /\ Happens(td_front, td_front', call)
    /\ td_calls' = Append(td_calls, call)
    /\ UNCHANGED <<main, asleep, aborted, mdvars, td_api_, connect_td_flag_, ready_flag,
                   order_ref, orders>>

-----------------------------------------------------------------------------
(* The market data callbacks of CMdBroadCast *)

MdCalled(call) == ~aborted /\ md_calls # <<>> /\ Head(md_calls) = call /\ md_calls' = Tail(md_calls)

MdOnFrontConnected ==
    /\ MdCalled("connected")
    /\ md_front' = IF md_front.up THEN Asked(md_front, "login") ELSE md_front
    /\ UNCHANGED <<main, asleep, aborted, md_api_, is_ready_subscribe_, tdvars, ready_flag,
                   order_ref, orders>>

\* connect_md_flag_ is all it resets, and nothing reads that.
MdOnFrontDisconnected ==
    /\ MdCalled("disconnected")
    /\ UNCHANGED <<main, asleep, aborted, md_api_, md_front, is_ready_subscribe_, tdvars,
                   ready_flag, order_ref, orders>>

MdOnRspUserLogin ==
    /\ \/ MdCalled("login") /\ is_ready_subscribe_' = TRUE /\ UNCHANGED aborted
       \/ MdCalled("login_error") /\ aborted' = TRUE /\ UNCHANGED is_ready_subscribe_
    /\ UNCHANGED <<main, asleep, md_api_, md_front, tdvars, ready_flag, order_ref, orders>>

-----------------------------------------------------------------------------
(* trade_handle, and the trading callbacks of CTdTradeSpi *)

\* notify_handle; nothing ever resets the flag.
notify_handle_unset == asleep' = FALSE /\ UNCHANGED ready_flag   \* (slip: no flag)
notify_handle == ready_flag' = TRUE /\ asleep' = FALSE

TdCalled(call) == ~aborted /\ td_calls # <<>> /\ Head(td_calls) = call /\ td_calls' = Tail(td_calls)

TdOnFront ==
    /\ \/ TdCalled("connected") /\ connect_td_flag_' = TRUE
       \/ TdCalled("disconnected") /\ connect_td_flag_' = FALSE
    /\ UNCHANGED <<main, asleep, aborted, mdvars, td_api_, td_front, ready_flag, order_ref, orders>>

OnRspUserLogin ==
    /\ TdCalled("login")
    /\ order_ref' = MaxOrderRef
    /\ notify_handle
    /\ UNCHANGED <<main, aborted, mdvars, td_api_, td_front, connect_td_flag_, orders>>

OnRspSettlementInfoConfirm ==
    /\ TdCalled("confirm")
    /\ notify_handle
    /\ UNCHANGED <<main, aborted, mdvars, td_api_, td_front, connect_td_flag_, order_ref, orders>>

\* A refusal is only stored: whoever waits goes on waiting.
OnRspError_notify == \* (slip: it wakes the waiting thread)
    /\ TdCalled("login_error") \/ TdCalled("confirm_error")
    /\ notify_handle
    /\ UNCHANGED <<main, aborted, mdvars, td_api_, td_front, connect_td_flag_, order_ref, orders>>
OnRspError ==
    /\ TdCalled("login_error") \/ TdCalled("confirm_error")
    /\ UNCHANGED <<main, asleep, aborted, mdvars, td_api_, td_front, connect_td_flag_,
                   ready_flag, order_ref, orders>>

-----------------------------------------------------------------------------
(* main: initial_trader.  What a failing step returns is collected, and    *)
(* main goes on, or waits, all the same.                                   *)

initial_md_manager ==
    /\ main = "md" /\ main' = "subscribe"
    /\ md_api_' \in {"null", "open"}
    /\ UNCHANGED <<asleep, aborted, md_front, md_calls, is_ready_subscribe_, tdvars, ready_flag,
                   order_ref, orders>>

\* subscribe_market spins until the flag is set.
subscribe_market ==
    /\ main = "subscribe" /\ is_ready_subscribe_ /\ ~aborted
    /\ md_front' = [md_front EXCEPT !.granted = @ \/ md_front.login]
    /\ main' = "td"
    /\ UNCHANGED <<asleep, aborted, md_api_, md_calls, is_ready_subscribe_, tdvars, ready_flag,
                   order_ref, orders>>

initial_td_manager ==
    /\ main = "td" /\ main' = "connect" /\ ~aborted
    /\ td_api_' \in {"null", "open"}
    /\ UNCHANGED <<asleep, aborted, mdvars, td_front, td_calls, connect_td_flag_, ready_flag,
                   order_ref, orders>>

\* execute_login_confirm spins until the flag is set, then asks and waits.
get_td_connect_flag ==
    /\ main = "connect" /\ connect_td_flag_ /\ main' = "login" /\ ~aborted
    /\ UNCHANGED <<asleep, aborted, mdvars, tdvars, ready_flag, order_ref, orders>>

Request(from, request, next) ==
    /\ main = from /\ ~aborted
    /\ IF td_front.up THEN main' = next /\ td_front' = Asked(td_front, request)
                      ELSE main' = "failed" /\ UNCHANGED td_front
    /\ UNCHANGED <<asleep, aborted, mdvars, td_api_, td_calls, connect_td_flag_, ready_flag,
                   order_ref, orders>>

request_user_login == Request("login", "login", "wait_login")
request_settle_confirm == Request("confirm", "confirm", "wait_confirm")

Waiting == main \in {"wait_login", "wait_confirm"}
FallAsleep ==
    /\ Waiting /\ ~ready_flag /\ ~asleep /\ asleep' = TRUE /\ ~aborted
    /\ UNCHANGED <<main, aborted, mdvars, tdvars, ready_flag, order_ref, orders>>
SpuriousWake ==
    /\ asleep /\ asleep' = FALSE /\ ~aborted
    /\ UNCHANGED <<main, aborted, mdvars, tdvars, ready_flag, order_ref, orders>>
wait_handle ==
    /\ Waiting /\ ~asleep /\ ready_flag /\ ~aborted
    /\ main' = IF main = "wait_login" THEN "confirm" ELSE "trading"
    /\ UNCHANGED <<asleep, aborted, mdvars, tdvars, ready_flag, order_ref, orders>>

-----------------------------------------------------------------------------
(* limit_order_insert, in a strategy's thread: it reads order_ref++, with  *)
(* no lock against the login's callback, and calls ReqOrderInsert.  There  *)
(* are no bars to order on before the subscription has been granted.       *)

ReadRef(o) ==
    /\ orderer[o].pc = "idle" /\ md_front.granted /\ begun < MaxOrders /\ ~aborted
    /\ orderer' = [orderer EXCEPT ![o] = [pc |-> "increment", ref |-> order_ref]]
    /\ begun' = begun + 1
    /\ early' = (early \/ ~ready_flag)
    /\ UNCHANGED <<main, asleep, aborted, mdvars, tdvars, ready_flag, order_ref, taken>>

NextRef_same(o) == orderer[o].ref                 \* (slip: not incremented)
NextRef_down(o) == orderer[o].ref - 1             \* (slip: counting down)
NextRef(o) == orderer[o].ref + 1
IncrementRef(o) ==
    /\ orderer[o].pc = "increment" /\ ~aborted
    /\ orderer' = [orderer EXCEPT ![o].pc = "send"]
    /\ order_ref' = NextRef(o)
    /\ UNCHANGED <<main, asleep, aborted, mdvars, tdvars, ready_flag, begun, early, taken>>

\* Through a null td_api_ the process is gone.  What the request returns,
\* nobody looks at.
ReqOrderInsert(o) ==
    /\ orderer[o].pc = "send" /\ ~aborted
    /\ orderer' = [orderer EXCEPT ![o].pc = "idle"]
    /\ aborted' = (td_api_ # "open")
    /\ taken' = IF td_front.login THEN Append(taken, orderer[o].ref) ELSE taken
    /\ UNCHANGED <<main, asleep, mdvars, tdvars, ready_flag, order_ref, begun, early>>

-----------------------------------------------------------------------------
MdCallback == MdOnFrontConnected \/ MdOnFrontDisconnected \/ MdOnRspUserLogin
TdCallback == TdOnFront \/ OnRspUserLogin \/ OnRspSettlementInfoConfirm \/ OnRspError
initial_trader ==
    \/ initial_md_manager \/ subscribe_market \/ initial_td_manager \/ get_td_connect_flag
    \/ request_user_login \/ request_settle_confirm \/ FallAsleep \/ wait_handle
Order(o) == ReadRef(o) \/ IncrementRef(o) \/ ReqOrderInsert(o)

Next == MdExchange \/ TdExchange \/ MdCallback \/ TdCallback
        \/ initial_trader \/ SpuriousWake \/ \E o \in Orderers : Order(o)

Spec == Init /\ [][Next]_vars

\* The process' threads keep running; nothing obliges the exchange to
\* connect or to answer.
Fairness == WF_vars(initial_trader) /\ WF_vars(MdCallback) /\ WF_vars(TdCallback)

FairSpec == Spec /\ Fairness

-----------------------------------------------------------------------------
(* Type *)

Places == {"md", "subscribe", "td", "connect", "login", "wait_login", "confirm",
           "wait_confirm", "trading", "failed"}

\* Every variable keeps its type.
TypeOK ==
    /\ main \in Places /\ asleep \in BOOLEAN /\ aborted \in BOOLEAN
    /\ md_api_ \in Api /\ md_front \in Front /\ md_calls \in Seq(Calls)
    /\ is_ready_subscribe_ \in BOOLEAN
    /\ td_api_ \in Api /\ td_front \in Front /\ td_calls \in Seq(Calls)
    /\ connect_td_flag_ \in BOOLEAN /\ ready_flag \in BOOLEAN
    /\ order_ref \in Nat
    /\ orderer \in [Orderers -> [pc : {"idle", "increment", "send"}, ref : Nat]]
    /\ begun \in 0..MaxOrders /\ early \in BOOLEAN /\ taken \in Seq(Nat)

-----------------------------------------------------------------------------
(* Safety *)

\* main does not look at what its steps return, but waits for what they bring
\* about: it calls no interface that is null; unless the connection was lost
\* it gets past the subscription only when that is granted, and to the
\* confirmation of the settlement only within an accepted login, never after
\* a refusal or a wake-up without an answer.
ConfirmsWithinLogin ==
    /\ main \notin {"md", "subscribe"} =>
         md_api_ = "open" /\ (md_front.drops = 0 => md_front.granted)
    /\ main \notin {"md", "subscribe", "td", "connect"} => td_api_ = "open"
    /\ main \in {"confirm", "wait_confirm", "trading"} /\ td_front.drops = 0 => td_front.login

\* An order the exchange took with no higher reference than the one before.
SetBack(k) == k \in DOMAIN taken /\ k + 1 \in DOMAIN taken /\ taken[k + 1] <= taken[k]
FromTheLoginOn ==
    /\ \A j, k \in DOMAIN taken : j < k => taken[j] < taken[k]
    /\ \A k \in DOMAIN taken : MaxOrderRef <= taken[k] /\ taken[k] < order_ref

\* The references one ordering thread gives the exchange increase, whatever
\* the callbacks do to order_ref between its reading and its writing it: the
\* login's answer sets them back once at most.  Once that is taken before the
\* first order is begun, they increase from the reference it gave on.
OneOrderer == \A o, p \in Orderers : o = p
RefsIncrease == OneOrderer =>
    /\ \A j, k \in DOMAIN taken : SetBack(j) /\ SetBack(k) => j = k
    /\ ~early => FromTheLoginOn

-----------------------------------------------------------------------------
(* Liveness *)

OnItsWay(calls, call) == \E k \in DOMAIN calls : calls[k] = call

\* No accepted login goes unnoticed: main subscribes after that of the
\* market data, and leaves wait_handle after that of the trading interface,
\* whether the answer comes before or after it falls asleep.
LoginsNoticed ==
    /\ OnItsWay(md_calls, "login") ~> main # "subscribe" \/ aborted
    /\ main = "wait_login" /\ OnItsWay(td_calls, "login") ~> main # "wait_login" \/ aborted

-----------------------------------------------------------------------------
(* What a comment of the source says, and the code does not do             *)

\* TdManager.h:16, "login and confirmation": when execute_login_confirm has
\* returned 0, the exchange has confirmed the settlement.
ConfirmedBeforeTrading == main = "trading" => td_front.granted
=============================================================================
