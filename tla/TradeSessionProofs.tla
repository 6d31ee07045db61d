------------------------- MODULE TradeSessionProofs -------------------------
(***************************************************************************)
(* The start of trading, for any number of order threads, of lost          *)
(* connections and of orders.  main asks for a login once, so its answer   *)
(* is taken once, before everything the wait for it holds back: that is    *)
(* what the order references and the confirmation within a login rest on.  *)
(***************************************************************************)
EXTENDS TradeSession, SequenceTheorems, TLAPS

-----------------------------------------------------------------------------
(* Types *)

LEMMA FrontStays ==
    ASSUME NEW front \in Front, NEW next, NEW call \in Calls, Happens(front, next, call),
           MaxDrops \in Nat
    PROVE  next \in Front
<1>1. CASE next = Connected(front)
  BY <1>1 DEF Connected, Front
<1>2. CASE front.drops < MaxDrops /\ next = Dropped(front)
  <2>1. front.drops + 1 \in 0..MaxDrops
    BY <1>2 DEF Front
  <2> QED BY <1>2, <2>1 DEF Dropped, Front
<1>3. CASE next = Accepted(front)
  BY <1>3 DEF Accepted, Front
<1>4. CASE next = Refused(front)
  BY <1>4 DEF Refused, Front
<1> QED BY <1>1, <1>2, <1>3, <1>4 DEF Happens

LEMMA AskedFront ==
    ASSUME NEW front \in Front, NEW request \in {"login", "confirm"}
    PROVE  Asked(front, request) \in Front
BY DEF Asked, Front

LEMMA Popped ==
    ASSUME NEW S, NEW s \in Seq(S), s # <<>>
    PROVE  /\ Tail(s) \in Seq(S)
           /\ \A k \in DOMAIN Tail(s) : k + 1 \in DOMAIN s /\ Tail(s)[k] = s[k + 1]
           /\ 1 \in DOMAIN s /\ Head(s) = s[1]
           /\ \A k \in DOMAIN s : k \in Nat
<1>1. Len(s) \in Nat /\ Len(s) > 0 /\ DOMAIN s = 1..Len(s)
  BY EmptySeq
<1>2. Tail(s) \in Seq(S) /\ Len(Tail(s)) = Len(s) - 1 /\ \A k \in 1..Len(Tail(s)) : Tail(s)[k] = s[k + 1]
  BY HeadTailProperties
<1> QED BY <1>1, <1>2

LEMMA Appended ==
    ASSUME NEW S, NEW s \in Seq(S), NEW e \in S
    PROVE  /\ Append(s, e) \in Seq(S)
           /\ DOMAIN Append(s, e) = DOMAIN s \union {Len(s) + 1}
           /\ Append(s, e)[Len(s) + 1] = e
           /\ \A k \in DOMAIN s : /\ k \in Nat /\ k < Len(s) + 1
                                  /\ Append(s, e)[k] = s[k]
OBVIOUS

LEMMA TypeInit == Init => TypeOK
<1> SUFFICES ASSUME Init PROVE TypeOK
  OBVIOUS
<1>1. NoFront \in Front
  BY SessionAssumption DEF NoFront, Front
<1>2. orderer \in [Orderers -> [pc : {"idle", "increment", "send"}, ref : Nat]]
  BY DEF Init
<1>3. md_calls \in Seq(Calls) /\ td_calls \in Seq(Calls) /\ taken \in Seq(Nat)
  BY DEF Init
<1>4. main \in Places /\ md_api_ \in Api /\ td_api_ \in Api
  BY DEF Init, Places, Api
<1>5. begun \in 0..MaxOrders /\ order_ref \in Nat
  BY SessionAssumption DEF Init
<1>6. /\ asleep = FALSE /\ aborted = FALSE /\ is_ready_subscribe_ = FALSE
      /\ connect_td_flag_ = FALSE /\ ready_flag = FALSE /\ early = FALSE
      /\ md_front = NoFront /\ td_front = NoFront
  BY DEF Init
<1> QED BY <1>1, <1>2, <1>3, <1>4, <1>5, <1>6 DEF TypeOK

LEMMA TypeStep == TypeOK /\ [Next]_vars => TypeOK'
<1> SUFFICES ASSUME TypeOK, [Next]_vars PROVE TypeOK'
  OBVIOUS
<1> USE SessionAssumption
<1>1. CASE MdExchange
  <2>1. PICK call \in Calls : Happens(md_front, md_front', call) /\ md_calls' = Append(md_calls, call)
    BY <1>1 DEF MdExchange
  <2>2. md_front' \in Front /\ md_calls' \in Seq(Calls)
    BY <2>1, FrontStays, Appended DEF TypeOK
  <2> QED BY <1>1, <2>2 DEF MdExchange, TypeOK, tdvars, orders
<1>2. CASE TdExchange
  <2>1. PICK call \in Calls : Happens(td_front, td_front', call) /\ td_calls' = Append(td_calls, call)
    BY <1>2 DEF TdExchange
  <2>2. td_front' \in Front /\ td_calls' \in Seq(Calls)
    BY <2>1, FrontStays, Appended DEF TypeOK
  <2> QED BY <1>2, <2>2 DEF TdExchange, TypeOK, mdvars, orders
<1>3. CASE MdCallback
  <2>1. md_calls' \in Seq(Calls)
    <3>1. md_calls # <<>> /\ md_calls' = Tail(md_calls)
      BY <1>3 DEF MdCallback, MdOnFrontConnected, MdOnFrontDisconnected, MdOnRspUserLogin, MdCalled
    <3>2. md_calls \in Seq(Calls)
      BY DEF TypeOK
    <3> QED BY <3>1, <3>2, HeadTailProperties
  <2>2. CASE MdOnFrontConnected
    BY <2>1, <2>2, AskedFront DEF MdOnFrontConnected, TypeOK, tdvars, orders
  <2>3. CASE MdOnFrontDisconnected
    BY <2>1, <2>3 DEF MdOnFrontDisconnected, TypeOK, tdvars, orders
  <2>4. CASE MdOnRspUserLogin
    BY <2>1, <2>4 DEF MdOnRspUserLogin, TypeOK, tdvars, orders
  <2> QED BY <1>3, <2>2, <2>3, <2>4 DEF MdCallback
<1>4. CASE TdCallback
  <2>1. td_calls' \in Seq(Calls)
    <3>1. td_calls # <<>> /\ td_calls' = Tail(td_calls)
      BY <1>4 DEF TdCallback, TdOnFront, OnRspUserLogin, OnRspSettlementInfoConfirm,
                  OnRspError, TdCalled
    <3>2. td_calls \in Seq(Calls)
      BY DEF TypeOK
    <3> QED BY <3>1, <3>2, HeadTailProperties
  <2>2. CASE TdOnFront
    BY <2>1, <2>2 DEF TdOnFront, TypeOK, mdvars, orders
  <2>3. CASE OnRspUserLogin
    BY <2>1, <2>3 DEF OnRspUserLogin, notify_handle, TypeOK, mdvars, orders
  <2>4. CASE OnRspSettlementInfoConfirm
    BY <2>1, <2>4 DEF OnRspSettlementInfoConfirm, notify_handle, TypeOK, mdvars, orders
  <2>5. CASE OnRspError
    BY <2>1, <2>5 DEF OnRspError, TypeOK, mdvars, orders
  <2> QED BY <1>4, <2>2, <2>3, <2>4, <2>5 DEF TdCallback
<1>5. CASE initial_trader \/ SpuriousWake
  <2>1. CASE initial_md_manager
    BY <2>1 DEF initial_md_manager, TypeOK, Api, Places, tdvars, orders
  <2>2. CASE subscribe_market
    <3>1. md_front' \in Front
      BY <2>2 DEF subscribe_market, TypeOK, Front
    <3> QED BY <2>2, <3>1 DEF subscribe_market, TypeOK, Places, tdvars, orders
  <2>3. CASE initial_td_manager
    BY <2>3 DEF initial_td_manager, TypeOK, Api, Places, mdvars, orders
  <2>4. CASE get_td_connect_flag
    BY <2>4 DEF get_td_connect_flag, TypeOK, Places, mdvars, tdvars, orders
  <2>5. CASE request_user_login
    BY <2>5, AskedFront DEF request_user_login, Request, TypeOK, Places, mdvars, orders
  <2>6. CASE request_settle_confirm
    BY <2>6, AskedFront DEF request_settle_confirm, Request, TypeOK, Places, mdvars, orders
  <2>7. CASE FallAsleep \/ SpuriousWake
    BY <2>7 DEF FallAsleep, SpuriousWake, TypeOK, mdvars, tdvars, orders
  <2>8. CASE wait_handle
    BY <2>8 DEF wait_handle, TypeOK, Places, mdvars, tdvars, orders
  <2> QED BY <1>5, <2>1, <2>2, <2>3, <2>4, <2>5, <2>6, <2>7, <2>8 DEF initial_trader
<1>6. ASSUME NEW o \in Orderers, Order(o) PROVE TypeOK'
  <2>1. CASE ReadRef(o)
    BY <2>1 DEF ReadRef, TypeOK, mdvars, tdvars
  <2>2. CASE IncrementRef(o)
    BY <2>2 DEF IncrementRef, NextRef, TypeOK, mdvars, tdvars
  <2>3. CASE ReqOrderInsert(o)
    <3>1. taken' \in Seq(Nat)
      BY <2>3, Appended DEF ReqOrderInsert, TypeOK
    <3> QED BY <2>3, <3>1 DEF ReqOrderInsert, TypeOK, mdvars, tdvars
  <2> QED BY <1>6, <2>1, <2>2, <2>3 DEF Order
<1>7. CASE UNCHANGED vars
  BY <1>7 DEF vars, mdvars, tdvars, orders, TypeOK
<1> QED BY <1>1, <1>2, <1>3, <1>4, <1>5, <1>6, <1>7 DEF Next

\* Every variable of the session keeps its type.
THEOREM SessionTypes == Spec => []TypeOK
BY TypeInit, TypeStep, PTL DEF Spec

-----------------------------------------------------------------------------
(* The login and the confirmation                                          *)

Called(call) == OnItsWay(td_calls, call)

\* main asks for the login once, so one answer at most ever comes; what main
\* does after wait_login waits for the flag that answer sets.
LoginOnce ==
    /\ main \in {"md", "subscribe", "td", "connect", "login"} =>
         ~ready_flag /\ td_front.request = "none" /\ ~Called("login") /\ ~Called("confirm")
    /\ main \in {"confirm", "wait_confirm", "trading"} => ready_flag
    /\ td_front.request = "login" => ~ready_flag /\ ~Called("login")
    /\ Called("login") => ~ready_flag
    /\ \A j, k \in DOMAIN td_calls : td_calls[j] = "login" /\ td_calls[k] = "login" => j = k
    /\ Called("confirm") \/ td_front.request = "confirm" => ready_flag

\* What sets the flag is the answer to an accepted login.
WithinLogin ==
    td_front.drops = 0 /\ (ready_flag \/ Called("login") \/ Called("confirm")) => td_front.login

LoginInv == LoginOnce /\ WithinLogin

LEMMA PopTd ==
    ASSUME TypeOK, NEW call, TdCalled(call)
    PROVE  /\ Called(call) /\ td_calls' = Tail(td_calls)
           /\ \A c \in Calls : Called(c)' => Called(c)
           /\ \A j, k \in DOMAIN td_calls' :
                 /\ j + 1 \in DOMAIN td_calls /\ k + 1 \in DOMAIN td_calls
                 /\ td_calls'[j] = td_calls[j + 1] /\ td_calls'[k] = td_calls[k + 1]
                 /\ j + 1 = k + 1 => j = k
           /\ 1 \in DOMAIN td_calls /\ td_calls[1] = call
           /\ \A j \in DOMAIN td_calls' : j + 1 # 1
<1>1. td_calls \in Seq(Calls) /\ td_calls # <<>> /\ td_calls' = Tail(td_calls)
      /\ Head(td_calls) = call
  BY DEF TypeOK, TdCalled
<1>2. /\ \A k \in DOMAIN Tail(td_calls) : /\ k + 1 \in DOMAIN td_calls
                                          /\ Tail(td_calls)[k] = td_calls[k + 1]
      /\ 1 \in DOMAIN td_calls /\ td_calls[1] = call
  BY <1>1, Popped
<1>3. \A k \in DOMAIN Tail(td_calls) : k \in Nat /\ k # 0
  BY <1>1, HeadTailProperties
<1> QED BY <1>1, <1>2, <1>3 DEF Called, OnItsWay

LEMMA PushTd ==
    ASSUME TypeOK, NEW call \in Calls, td_calls' = Append(td_calls, call)
    PROVE  /\ \A c \in Calls : Called(c)' <=> Called(c) \/ c = call
           /\ \A j \in DOMAIN td_calls' :
                 \/ j \in DOMAIN td_calls /\ td_calls'[j] = td_calls[j]
                 \/ j = Len(td_calls) + 1 /\ td_calls'[j] = call
<1>1. td_calls \in Seq(Calls)
  BY DEF TypeOK
<1>2. /\ DOMAIN td_calls' = DOMAIN td_calls \union {Len(td_calls) + 1}
      /\ td_calls'[Len(td_calls) + 1] = call
      /\ \A k \in DOMAIN td_calls : td_calls'[k] = td_calls[k]
  BY <1>1, Appended
<1> QED BY <1>1, <1>2 DEF Called, OnItsWay

LEMMA LoginInit == Init => LoginInv
BY DEF Init, LoginInv, LoginOnce, WithinLogin, Called, OnItsWay, NoFront

\* What happens on the connection.
LEMMA LoginAtExchange == ASSUME TypeOK, LoginInv, TdExchange PROVE LoginInv'
<1>1. PICK call \in Calls :
          Happens(td_front, td_front', call) /\ td_calls' = Append(td_calls, call)
  BY DEF TdExchange
<1>2. main' = main /\ ready_flag' = ready_flag
  BY DEF TdExchange
<1>3. \A c \in Calls : Called(c)' <=> Called(c) \/ c = call
  BY <1>1, PushTd
<1>4. {"login", "confirm"} \subseteq Calls
  BY DEF Calls
<1>5. td_front \in Front /\ td_front.drops \in Nat
  BY DEF TypeOK, Front
<1>6. \A j, k \in DOMAIN td_calls' : td_calls'[j] = "login" /\ td_calls'[k] = "login" => j = k
  <2>1. call = "login" => td_front.request = "login"
    BY <1>1, <1>5 DEF Happens, Front
  <2>2. call = "login" => ~Called("login")
    BY <2>1 DEF LoginInv, LoginOnce
  <2> QED BY <1>1, <2>2, PushTd DEF LoginInv, LoginOnce, Called, OnItsWay
<1>7. CASE /\ call \in {"connected", "disconnected", "login_error", "confirm_error"}
           /\ td_front'.request \in {td_front.request, "none"}
           /\ td_front'.login = td_front.login /\ td_front'.drops = td_front.drops
  BY <1>2, <1>3, <1>4, <1>6, <1>7 DEF LoginInv, LoginOnce, WithinLogin
<1>8. CASE call = "disconnected" /\ td_front' = Dropped(td_front)
  <2>1. td_front'.request = "none" /\ td_front'.drops # 0
    BY <1>5, <1>8 DEF Dropped, Front
  <2> QED BY <1>2, <1>3, <1>4, <1>6, <1>8, <2>1 DEF LoginInv, LoginOnce, WithinLogin
<1>9. CASE call = td_front.request /\ td_front.request # "none" /\ td_front' = Accepted(td_front)
  <2>1. td_front'.request = "none" /\ td_front'.login
    BY <1>5, <1>9 DEF Accepted, Front
  <2>2. td_front.request \in {"login", "confirm"}
    BY <1>5, <1>9 DEF Front
  <2> QED BY <1>2, <1>3, <1>4, <1>6, <1>9, <2>1, <2>2 DEF LoginInv, LoginOnce, WithinLogin
<1> QED
  <2>1. CASE td_front' = Connected(td_front) /\ call = "connected"
    BY <1>5, <1>7, <2>1 DEF Connected, Front
  <2>2. CASE /\ td_front' = Refused(td_front) /\ td_front.request # "none"
             /\ call \in {"login_error", "confirm_error"}
    BY <1>5, <1>7, <2>2 DEF Refused, Front
  <2> QED BY <1>1, <1>8, <1>9, <2>1, <2>2 DEF Happens

\* What the callbacks of the trading interface do.
LEMMA LoginAtCallback == ASSUME TypeOK, LoginInv, TdCallback PROVE LoginInv'
<1>1. main' = main /\ td_front' = td_front
  BY DEF TdCallback, TdOnFront, OnRspUserLogin, OnRspSettlementInfoConfirm, OnRspError
<1>2. PICK call : TdCalled(call)
  BY DEF TdCallback, TdOnFront, OnRspUserLogin, OnRspSettlementInfoConfirm, OnRspError
<1>3. {"login", "confirm"} \subseteq Calls
  BY DEF Calls
<1>4. (Called("login")' => Called("login")) /\ (Called("confirm")' => Called("confirm"))
  BY <1>2, <1>3, PopTd
<1>5. \A j, k \in DOMAIN td_calls' : td_calls'[j] = "login" /\ td_calls'[k] = "login" => j = k
  BY <1>2, PopTd DEF LoginInv, LoginOnce
<1>6. CASE ready_flag' = ready_flag
  BY <1>1, <1>4, <1>5, <1>6 DEF LoginInv, LoginOnce, WithinLogin
<1>7. CASE OnRspUserLogin
  <2>1. TdCalled("login") /\ ready_flag'
    BY <1>7 DEF OnRspUserLogin, notify_handle
  <2>2. Called("login")
    BY <2>1, PopTd
  <2>3. ~Called("login")'
    BY <2>1, PopTd DEF LoginInv, LoginOnce, Called, OnItsWay
  <2> QED BY <1>1, <1>4, <1>5, <2>1, <2>2, <2>3 DEF LoginInv, LoginOnce, WithinLogin
<1>8. CASE OnRspSettlementInfoConfirm
  <2>1. TdCalled("confirm") /\ ready_flag'
    BY <1>8 DEF OnRspSettlementInfoConfirm, notify_handle
  <2>2. ready_flag
    BY <2>1, PopTd DEF LoginInv, LoginOnce
  <2> QED BY <1>1, <1>4, <1>5, <2>1, <2>2 DEF LoginInv, LoginOnce, WithinLogin
<1> QED BY <1>6, <1>7, <1>8 DEF TdCallback, TdOnFront, OnRspError

\* What main does.
LEMMA LoginAtMain == ASSUME TypeOK, LoginInv, initial_trader \/ SpuriousWake PROVE LoginInv'
<1>1. ready_flag' = ready_flag /\ td_calls' = td_calls
  BY DEF initial_trader, SpuriousWake, initial_md_manager, subscribe_market, initial_td_manager,
         get_td_connect_flag, request_user_login, request_settle_confirm, Request, FallAsleep,
         wait_handle, tdvars
<1>2. \A c : Called(c)' = Called(c)
  BY <1>1 DEF Called, OnItsWay
<1>3. CASE request_user_login \/ request_settle_confirm
  <2>1. \/ main' = "failed" /\ td_front' = td_front
        \/ main = "login" /\ main' = "wait_login" /\ td_front' = Asked(td_front, "login")
        \/ main = "confirm" /\ main' = "wait_confirm" /\ td_front' = Asked(td_front, "confirm")
    BY <1>3 DEF request_user_login, request_settle_confirm, Request
  <2>2. CASE main' = "failed" /\ td_front' = td_front
    BY <1>1, <1>2, <2>2 DEF LoginInv, LoginOnce, WithinLogin
  <2>3. CASE main = "login" /\ main' = "wait_login" /\ td_front' = Asked(td_front, "login")
    <3>1. /\ td_front'.request = "login" /\ td_front'.login = td_front.login
          /\ td_front'.drops = td_front.drops
      BY <2>3 DEF TypeOK, Asked, Front
    <3> QED BY <1>1, <1>2, <2>3, <3>1 DEF LoginInv, LoginOnce, WithinLogin
  <2>4. CASE main = "confirm" /\ main' = "wait_confirm" /\ td_front' = Asked(td_front, "confirm")
    <3>1. /\ td_front'.request = "confirm" /\ td_front'.login = td_front.login
          /\ td_front'.drops = td_front.drops
      BY <2>4 DEF TypeOK, Asked, Front
    <3> QED BY <1>1, <1>2, <2>4, <3>1 DEF LoginInv, LoginOnce, WithinLogin
  <2> QED BY <2>1, <2>2, <2>3, <2>4
<1>4. CASE ~(request_user_login \/ request_settle_confirm)
  <2>1. /\ td_front' = td_front
        /\ \/ main' = main
           \/ main \in {"md", "subscribe", "td", "connect"}
              /\ main' \in {"subscribe", "td", "connect", "login"}
           \/ main \in {"wait_login", "wait_confirm"} /\ ready_flag
              /\ main' \in {"confirm", "trading"}
    BY <1>4 DEF initial_trader, SpuriousWake, initial_md_manager, subscribe_market,
         initial_td_manager, get_td_connect_flag, FallAsleep, wait_handle, Waiting, tdvars
  <2> QED BY <1>1, <1>2, <2>1 DEF LoginInv, LoginOnce, WithinLogin
<1> QED BY <1>3, <1>4

LEMMA LoginStep == TypeOK /\ LoginInv /\ [Next]_vars => LoginInv'
<1> SUFFICES ASSUME TypeOK, LoginInv, [Next]_vars PROVE LoginInv'
  OBVIOUS
<1>1. ASSUME main' = main, ready_flag' = ready_flag, td_front' = td_front, td_calls' = td_calls
      PROVE  LoginInv'
  BY <1>1 DEF LoginInv, LoginOnce, WithinLogin, Called, OnItsWay
<1>2. CASE MdExchange \/ MdCallback
  BY <1>1, <1>2 DEF MdExchange, MdCallback, MdOnFrontConnected, MdOnFrontDisconnected,
                    MdOnRspUserLogin, tdvars
<1>3. ASSUME NEW o \in Orderers, Order(o) PROVE LoginInv'
  BY <1>1, <1>3 DEF Order, ReadRef, IncrementRef, ReqOrderInsert, tdvars
<1>4. CASE UNCHANGED vars
  BY <1>1, <1>4 DEF vars, tdvars
<1> QED BY <1>2, <1>3, <1>4, LoginAtExchange, LoginAtCallback, LoginAtMain DEF Next

LEMMA LoginInvariant == Spec => []LoginInv
BY LoginInit, LoginStep, SessionTypes, PTL DEF Spec

\* What main waits for comes of an open interface, and of an accepted login.
Subscribed == md_front.drops = 0 => md_front.granted
InterfacesInv ==
    /\ main = "md" => md_api_ = "none"
    /\ main \in {"md", "subscribe", "td"} => td_api_ = "none"
    /\ is_ready_subscribe_ \/ md_calls # <<>> => md_api_ = "open"
    /\ connect_td_flag_ \/ td_calls # <<>> => td_api_ = "open"
    /\ is_ready_subscribe_ \/ OnItsWay(md_calls, "login") => md_front.login \/ md_front.drops # 0
    /\ main \notin {"md", "subscribe"} => md_api_ = "open" /\ Subscribed
    /\ main \notin {"md", "subscribe", "td", "connect"} => td_api_ = "open"

LEMMA InterfacesAtMdExchange ==
    ASSUME TypeOK, InterfacesInv, MdExchange PROVE InterfacesInv'
<1>1. PICK call \in Calls :
          Happens(md_front, md_front', call) /\ md_calls' = Append(md_calls, call)
  BY DEF MdExchange
<1>2. md_api_ = "open" /\ UNCHANGED <<main, md_api_, is_ready_subscribe_, tdvars>>
  BY DEF MdExchange
<1>3. md_front \in Front /\ md_front.drops \in Nat /\ md_calls \in Seq(Calls)
  BY DEF TypeOK, Front
<1>0. /\ md_front'.drops # 0 \/ md_front'.drops = md_front.drops
      /\ md_front.granted => md_front'.granted
      /\ md_front'.drops # 0 \/ (md_front.login => md_front'.login)
  <2>1. CASE md_front' = Connected(md_front)
    BY <1>3, <2>1 DEF Connected, Front
  <2>2. CASE md_front' = Dropped(md_front)
    BY <1>3, <2>2 DEF Dropped, Front
  <2>3. CASE md_front' = Accepted(md_front)
    BY <1>3, <2>3 DEF Accepted, Front
  <2>4. CASE md_front' = Refused(md_front)
    BY <1>3, <2>4 DEF Refused, Front
  <2> QED BY <1>1, <2>1, <2>2, <2>3, <2>4 DEF Happens
<1>4. Subscribed => Subscribed'
  BY <1>0 DEF Subscribed
<1>5. md_front.login \/ md_front.drops # 0 => md_front'.login \/ md_front'.drops # 0
  BY <1>0
<1>6. call = "login" => md_front'.login
  BY <1>1, <1>3 DEF Happens, Accepted, Front
<1>7. OnItsWay(md_calls', "login") => OnItsWay(md_calls, "login") \/ call = "login"
  BY <1>1, <1>3, Appended DEF OnItsWay
<1> QED BY <1>2, <1>4, <1>5, <1>6, <1>7 DEF InterfacesInv, tdvars

LEMMA InterfacesAtMdCallback ==
    ASSUME TypeOK, InterfacesInv, MdCallback PROVE InterfacesInv'
<1>1. PICK call : MdCalled(call)
  BY DEF MdCallback, MdOnFrontConnected, MdOnFrontDisconnected, MdOnRspUserLogin
<1>2. /\ md_calls # <<>> /\ md_calls' = Tail(md_calls) /\ md_calls \in Seq(Calls)
      /\ md_front \in Front
  BY <1>1 DEF MdCalled, TypeOK
<1>3. OnItsWay(md_calls', "login") => OnItsWay(md_calls, "login")
  BY <1>2, Popped DEF OnItsWay
<1>4. UNCHANGED <<main, md_api_, tdvars>>
  BY DEF MdCallback, MdOnFrontConnected, MdOnFrontDisconnected, MdOnRspUserLogin
<1>5. /\ md_front'.login = md_front.login /\ md_front'.drops = md_front.drops
      /\ md_front'.granted = md_front.granted
  BY <1>2 DEF MdCallback, MdOnFrontConnected, MdOnFrontDisconnected, MdOnRspUserLogin, Asked,
              Front
<1>6. is_ready_subscribe_' => is_ready_subscribe_ \/ OnItsWay(md_calls, "login")
  <2>1. MdCalled("login") => OnItsWay(md_calls, "login")
    BY <1>2, Popped DEF MdCalled, OnItsWay
  <2> QED BY <2>1 DEF MdCallback, MdOnFrontConnected, MdOnFrontDisconnected, MdOnRspUserLogin
<1> QED BY <1>2, <1>3, <1>4, <1>5, <1>6 DEF InterfacesInv, Subscribed, tdvars

LEMMA InterfacesAtTd ==
    ASSUME TypeOK, InterfacesInv, TdExchange \/ TdCallback PROVE InterfacesInv'
<1>1. UNCHANGED <<main, mdvars, td_api_>>
  BY DEF TdExchange, TdCallback, TdOnFront, OnRspUserLogin, OnRspSettlementInfoConfirm,
         OnRspError
<1>2. td_api_ = "open"
  BY DEF InterfacesInv, TdExchange, TdCallback, TdOnFront, OnRspUserLogin,
         OnRspSettlementInfoConfirm, OnRspError, TdCalled
<1> QED BY <1>1, <1>2 DEF InterfacesInv, Subscribed, mdvars

LEMMA InterfacesAtMain ==
    ASSUME TypeOK, InterfacesInv, initial_trader \/ SpuriousWake PROVE InterfacesInv'
<1>1. UNCHANGED <<md_calls, is_ready_subscribe_, td_calls, connect_td_flag_>>
  BY DEF initial_trader, SpuriousWake, initial_md_manager, subscribe_market, initial_td_manager,
         get_td_connect_flag, request_user_login, request_settle_confirm, Request, FallAsleep,
         wait_handle, mdvars, tdvars
<1>2. CASE initial_md_manager
  BY <1>1, <1>2 DEF initial_md_manager, InterfacesInv, tdvars
<1>3. CASE subscribe_market
  <2>1. /\ md_front'.login = md_front.login /\ md_front'.drops = md_front.drops
        /\ md_front'.granted = (md_front.granted \/ md_front.login)
    BY <1>3 DEF subscribe_market, TypeOK, Front
  <2>2. Subscribed'
    BY <1>3, <2>1 DEF subscribe_market, InterfacesInv, Subscribed
  <2> QED BY <1>1, <1>3, <2>1, <2>2 DEF subscribe_market, InterfacesInv, tdvars
<1>4. CASE initial_td_manager
  BY <1>1, <1>4 DEF initial_td_manager, InterfacesInv, Subscribed, mdvars
<1>5. CASE get_td_connect_flag
  BY <1>1, <1>5 DEF get_td_connect_flag, InterfacesInv, Subscribed, mdvars, tdvars
<1>6. CASE \/ request_user_login \/ request_settle_confirm
           \/ FallAsleep \/ SpuriousWake \/ wait_handle
  <2>1. /\ UNCHANGED <<mdvars, td_api_>>
        /\ \/ main' = main
           \/ /\ main \in {"login", "confirm", "wait_login", "wait_confirm"}
              /\ main' \in {"wait_login", "confirm", "wait_confirm", "trading", "failed"}
    BY <1>6 DEF request_user_login, request_settle_confirm, Request, FallAsleep, SpuriousWake,
                wait_handle, Waiting, tdvars
  <2> QED BY <1>1, <2>1 DEF InterfacesInv, Subscribed, mdvars
<1> QED BY <1>2, <1>3, <1>4, <1>5, <1>6 DEF initial_trader

LEMMA InterfacesStep == TypeOK /\ InterfacesInv /\ [Next]_vars => InterfacesInv'
<1> SUFFICES ASSUME TypeOK, InterfacesInv, [Next]_vars PROVE InterfacesInv'
  OBVIOUS
<1>1. ASSUME UNCHANGED <<main, mdvars, tdvars>> PROVE InterfacesInv'
  BY <1>1 DEF InterfacesInv, Subscribed, OnItsWay, mdvars, tdvars
<1>2. ASSUME NEW o \in Orderers, Order(o) PROVE InterfacesInv'
  BY <1>1, <1>2 DEF Order, ReadRef, IncrementRef, ReqOrderInsert
<1>3. CASE UNCHANGED vars
  BY <1>1, <1>3 DEF vars
<1> QED BY <1>2, <1>3, InterfacesAtMdExchange, InterfacesAtMdCallback, InterfacesAtTd,
           InterfacesAtMain DEF Next

LEMMA InterfacesInvariant == Spec => []InterfacesInv
<1>1. Init => InterfacesInv
  BY DEF Init, InterfacesInv, OnItsWay
<1> QED BY <1>1, InterfacesStep, SessionTypes, PTL DEF Spec

\* main never gets past an interface that is null, nor, while the connections
\* have held, past a subscription, a confirmation or into trading without the
\* accepted login that each needs (initial_trader, execute_login_confirm).
THEOREM ConfirmsInLogin == Spec => []ConfirmsWithinLogin
<1>1. LoginInv /\ InterfacesInv => ConfirmsWithinLogin
  BY DEF LoginInv, LoginOnce, WithinLogin, InterfacesInv, Subscribed, ConfirmsWithinLogin
<1> QED BY <1>1, LoginInvariant, InterfacesInvariant, PTL

-----------------------------------------------------------------------------
(* The order references                                                    *)

\* Before the login's answer is taken nobody has begun to order; from then on
\* the one orderer's reference lies above those taken, and below order_ref.
RefsInv == OneOrderer /\ ~early =>
    /\ ~ready_flag => taken = <<>> /\ \A o \in Orderers : orderer[o].pc = "idle"
    /\ ready_flag => MaxOrderRef <= order_ref
    /\ \A o \in Orderers :
         /\ orderer[o].pc = "increment" => orderer[o].ref = order_ref
         /\ orderer[o].pc = "send" =>
              /\ MaxOrderRef <= orderer[o].ref /\ orderer[o].ref < order_ref
              /\ \A k \in DOMAIN taken : taken[k] < orderer[o].ref
    /\ FromTheLoginOn

LEMMA RefsInit == Init => RefsInv
BY DEF Init, RefsInv, FromTheLoginOn

LEMMA RefsAtCallback == ASSUME TypeOK, LoginInv, RefsInv, TdCallback PROVE RefsInv'
<1>1. orderer' = orderer /\ early' = early /\ taken' = taken
  BY DEF TdCallback, TdOnFront, OnRspUserLogin, OnRspSettlementInfoConfirm, OnRspError, orders
<1>2. CASE OnRspUserLogin
  <2>1. ~ready_flag /\ ready_flag' /\ order_ref' = MaxOrderRef
    BY <1>2, PopTd DEF OnRspUserLogin, notify_handle, LoginInv, LoginOnce
  <2>2. MaxOrderRef \in Nat
    BY SessionAssumption
  <2> QED BY <1>1, <2>1, <2>2 DEF RefsInv, FromTheLoginOn, OneOrderer
<1>3. CASE ready_flag' = ready_flag /\ order_ref' = order_ref
  BY <1>1, <1>3 DEF RefsInv, FromTheLoginOn, OneOrderer
<1>4. CASE OnRspSettlementInfoConfirm
  <2>1. ready_flag /\ ready_flag' /\ order_ref' = order_ref
    BY <1>4, PopTd DEF OnRspSettlementInfoConfirm, notify_handle, LoginInv, LoginOnce
  <2> QED BY <1>1, <2>1 DEF RefsInv, FromTheLoginOn, OneOrderer
<1> QED BY <1>2, <1>3, <1>4 DEF TdCallback, TdOnFront, OnRspError

LEMMA RefsAtOrder ==
    ASSUME TypeOK, RefsInv, NEW o \in Orderers, Order(o), OneOrderer, ~early'
    PROVE  RefsInv'
<1>1. ready_flag' = ready_flag /\ Orderers = {o}
  BY DEF Order, ReadRef, IncrementRef, ReqOrderInsert, OneOrderer
<1>2. orderer[o].ref \in Nat /\ order_ref \in Nat /\ MaxOrderRef \in Nat /\ taken \in Seq(Nat)
  BY SessionAssumption DEF TypeOK
<1>3. ~early
  BY DEF Order, ReadRef, IncrementRef, ReqOrderInsert, TypeOK
<1>4. CASE ReadRef(o)
  <2>1. /\ orderer'[o].pc = "increment" /\ orderer'[o].ref = order_ref
        /\ order_ref' = order_ref /\ taken' = taken /\ ready_flag
    BY <1>4 DEF ReadRef, TypeOK
  <2> QED BY <1>1, <1>3, <2>1 DEF RefsInv, FromTheLoginOn, OneOrderer
<1>5. CASE IncrementRef(o)
  <2>1. /\ orderer[o].pc = "increment" /\ orderer'[o].pc = "send"
        /\ orderer'[o].ref = orderer[o].ref /\ order_ref' = orderer[o].ref + 1
        /\ taken' = taken
    BY <1>5 DEF IncrementRef, NextRef, TypeOK
  <2>2. ready_flag /\ orderer[o].ref = order_ref /\ MaxOrderRef <= order_ref
    BY <1>3, <2>1 DEF RefsInv
  <2>3. \A k \in DOMAIN taken : taken[k] \in Nat /\ taken[k] < order_ref
    BY <1>2, <1>3 DEF RefsInv, FromTheLoginOn
  <2>4. FromTheLoginOn'
    BY <1>2, <1>3, <2>1, <2>2, <2>3 DEF RefsInv, FromTheLoginOn, OneOrderer
  <2> QED BY <1>1, <1>2, <2>1, <2>2, <2>3, <2>4 DEF RefsInv
<1>6. CASE ReqOrderInsert(o)
  <2>1. /\ orderer[o].pc = "send" /\ orderer'[o].pc = "idle" /\ order_ref' = order_ref
        /\ taken' \in {taken, Append(taken, orderer[o].ref)}
    BY <1>6 DEF ReqOrderInsert, TypeOK
  <2>2. /\ ready_flag /\ MaxOrderRef <= orderer[o].ref /\ orderer[o].ref < order_ref
        /\ \A k \in DOMAIN taken : taken[k] < orderer[o].ref
    BY <1>3, <2>1 DEF RefsInv
  <2>3. /\ \A j, k \in DOMAIN taken : j < k => taken[j] < taken[k]
        /\ \A k \in DOMAIN taken : MaxOrderRef <= taken[k] /\ taken[k] < order_ref
    BY <1>3 DEF RefsInv, FromTheLoginOn
  <2>4. ready_flag' /\ MaxOrderRef <= order_ref'
    BY <1>1, <1>2, <2>1, <2>2
  <2>5. CASE taken' = taken
    <3>1. FromTheLoginOn'
      BY <2>1, <2>3, <2>5 DEF FromTheLoginOn
    <3> QED BY <1>1, <2>1, <2>4, <3>1 DEF RefsInv
  <2>6. CASE taken' = Append(taken, orderer[o].ref)
    <3>1. \A k \in DOMAIN taken' :
             \/ k \in DOMAIN taken /\ k < Len(taken) + 1 /\ taken'[k] = taken[k]
             \/ k = Len(taken) + 1 /\ taken'[k] = orderer[o].ref
      BY <1>2, <2>6, Appended
    <3>2. \A j, k \in DOMAIN taken' : j < k => taken'[j] < taken'[k]
      <4>1. Len(taken) \in Nat /\ \A k \in DOMAIN taken : k \in Nat /\ k <= Len(taken)
        BY <1>2
      <4> QED BY <2>2, <2>3, <3>1, <4>1
    <3>3. \A k \in DOMAIN taken' : MaxOrderRef <= taken'[k] /\ taken'[k] < order_ref'
      BY <2>1, <2>2, <2>3, <3>1
    <3>4. FromTheLoginOn'
      BY <3>2, <3>3 DEF FromTheLoginOn
    <3> QED BY <1>1, <2>1, <2>4, <3>4 DEF RefsInv
  <2> QED BY <2>1, <2>5, <2>6
<1> QED BY <1>4, <1>5, <1>6 DEF Order

LEMMA RefsStep == TypeOK /\ LoginInv /\ RefsInv /\ [Next]_vars => RefsInv'
<1> SUFFICES ASSUME TypeOK, LoginInv, RefsInv, [Next]_vars PROVE RefsInv'
  OBVIOUS
<1>1. ASSUME ready_flag' = ready_flag, order_ref' = order_ref, UNCHANGED orders
      PROVE  RefsInv'
  BY <1>1 DEF orders, RefsInv, FromTheLoginOn, OneOrderer
<1>2. CASE MdExchange \/ TdExchange \/ MdCallback
  BY <1>1, <1>2 DEF MdExchange, TdExchange, MdCallback, MdOnFrontConnected,
                    MdOnFrontDisconnected, MdOnRspUserLogin
<1>3. CASE initial_trader \/ SpuriousWake
  BY <1>1, <1>3 DEF initial_trader, SpuriousWake, initial_md_manager, subscribe_market,
         initial_td_manager, get_td_connect_flag, request_user_login, request_settle_confirm,
         Request, FallAsleep, wait_handle
<1>4. ASSUME NEW o \in Orderers, Order(o) PROVE RefsInv'
  <2>1. CASE OneOrderer /\ ~early'
    BY <1>4, <2>1, RefsAtOrder
  <2>2. CASE ~(OneOrderer /\ ~early')
    BY <2>2 DEF RefsInv, OneOrderer
  <2> QED BY <2>1, <2>2
<1>5. CASE UNCHANGED vars
  BY <1>1, <1>5 DEF vars
<1> QED BY <1>2, <1>3, <1>4, <1>5, RefsAtCallback DEF Next

\* Whether it was begun before or after the login's answer: an order goes out
\* with a higher reference than the last one taken, and leaves a higher one.
Above(n) == taken # <<>> => taken[Len(taken)] < n
InLine == \A o \in Orderers :
    /\ orderer[o].pc = "idle" => Above(order_ref)
    /\ orderer[o].pc = "increment" => Above(orderer[o].ref)
    /\ orderer[o].pc = "send" => Above(orderer[o].ref) /\ orderer[o].ref < order_ref

\* It may be otherwise once: from the login's answer, which comes once, to the
\* first order taken after it.
NeverSetBack == \A k \in DOMAIN taken : ~SetBack(k)
SetBackOnce == \A j, k \in DOMAIN taken : SetBack(j) /\ SetBack(k) => j = k
SetBackInv == OneOrderer =>
    /\ SetBackOnce
    /\ ~ready_flag => NeverSetBack /\ InLine
    /\ \/ InLine
       \/ /\ NeverSetBack
          /\ \A o \in Orderers : orderer[o].pc = "send" =>
                Above(orderer[o].ref) \/ orderer[o].ref < order_ref

LEMMA SetBackInit == Init => SetBackInv
BY DEF Init, SetBackInv, SetBackOnce, NeverSetBack, SetBack, InLine, Above

LEMMA SetBackSame ==
    ASSUME SetBackInv, UNCHANGED <<order_ref, orders>>, ready_flag => ready_flag'
    PROVE  SetBackInv'
BY DEF SetBackInv, SetBackOnce, NeverSetBack, SetBack, InLine, Above, OneOrderer, orders

LEMMA SetBackAtLogin ==
    ASSUME TypeOK, LoginInv, SetBackInv, OnRspUserLogin PROVE SetBackInv'
<1>1. ~ready_flag /\ ready_flag' /\ UNCHANGED orders
  BY PopTd DEF OnRspUserLogin, notify_handle, LoginInv, LoginOnce
<1>2. OneOrderer => SetBackOnce /\ NeverSetBack /\ InLine
  BY <1>1 DEF SetBackInv
<1>3. OneOrderer' <=> OneOrderer
  BY DEF OneOrderer
<1> QED BY <1>1, <1>2, <1>3 DEF SetBackInv, SetBackOnce, NeverSetBack, SetBack, InLine, Above,
                                orders

\* A taken order sets back nothing if it is above the last one.
LEMMA TakenMore ==
    ASSUME TypeOK, NEW ref \in Nat, taken' = Append(taken, ref)
    PROVE  /\ Above(ref) => \A k \in DOMAIN taken' :
                SetBack(k)' => k \in DOMAIN taken /\ SetBack(k)
           /\ NeverSetBack => SetBackOnce'
           /\ \A n \in Nat : ref < n => Above(n)'
<1>1. /\ taken \in Seq(Nat) /\ Len(taken) \in Nat /\ DOMAIN taken = 1..Len(taken)
      /\ taken' \in Seq(Nat) /\ Len(taken') = Len(taken) + 1
      /\ DOMAIN taken' = 1..Len(taken) + 1 /\ taken'[Len(taken) + 1] = ref
      /\ \A k \in 1..Len(taken) : taken'[k] = taken[k]
      /\ taken = <<>> <=> Len(taken) = 0
  BY DEF TypeOK
<1>2. \A n \in Nat : ref < n => Above(n)'
  BY <1>1 DEF Above
<1>3. ASSUME NEW k \in DOMAIN taken', SetBack(k)'
      PROVE  k \in DOMAIN taken /\ (SetBack(k) \/ (k = Len(taken) /\ ~Above(ref)))
  <2>1. k \in 1..Len(taken) /\ taken'[k + 1] <= taken[k]
    BY <1>1, <1>3 DEF SetBack
  <2>2. CASE k = Len(taken)
    BY <1>1, <2>1, <2>2 DEF Above
  <2>3. CASE k # Len(taken)
    <3>1. k + 1 \in 1..Len(taken)
      BY <1>1, <2>1, <2>3
    <3>2. taken'[k + 1] = taken[k + 1] /\ k \in DOMAIN taken /\ k + 1 \in DOMAIN taken
      BY <1>1, <2>1, <3>1
    <3>3. taken[k + 1] <= taken[k]
      BY <2>1, <3>2
    <3> QED BY <3>2, <3>3 DEF SetBack
  <2> QED BY <2>2, <2>3
<1>4. NeverSetBack => SetBackOnce'
  BY <1>3 DEF NeverSetBack, SetBackOnce
<1> QED BY <1>2, <1>3, <1>4

LEMMA SetBackAtOrder ==
    ASSUME TypeOK, SetBackInv, NEW o \in Orderers, Order(o), OneOrderer PROVE SetBackInv'
<1>1. ready_flag' = ready_flag /\ Orderers = {o}
  BY DEF Order, ReadRef, IncrementRef, ReqOrderInsert, OneOrderer
<1>2. orderer[o].ref \in Nat /\ order_ref \in Nat /\ taken \in Seq(Nat)
  BY DEF TypeOK
<1>3. CASE ReadRef(o)
  <2>1. /\ orderer[o].pc = "idle" /\ orderer'[o].pc = "increment"
        /\ orderer'[o].ref = order_ref /\ order_ref' = order_ref /\ taken' = taken
    BY <1>3 DEF ReadRef, TypeOK
  <2>2. InLine => InLine'
    BY <1>1, <2>1 DEF InLine, Above
  <2>3. (SetBackOnce => SetBackOnce') /\ (NeverSetBack => NeverSetBack')
    BY <2>1 DEF SetBackOnce, NeverSetBack, SetBack
  <2> QED BY <1>1, <2>1, <2>2, <2>3 DEF SetBackInv
<1>4. CASE IncrementRef(o)
  <2>1. /\ orderer[o].pc = "increment" /\ orderer'[o].pc = "send"
        /\ orderer'[o].ref = orderer[o].ref /\ order_ref' = orderer[o].ref + 1
        /\ taken' = taken
    BY <1>4 DEF IncrementRef, NextRef, TypeOK
  <2>2. orderer'[o].ref < order_ref'
    BY <1>2, <2>1
  <2>3. InLine => InLine'
    BY <1>1, <2>1, <2>2 DEF InLine, Above
  <2>4. (SetBackOnce => SetBackOnce') /\ (NeverSetBack => NeverSetBack')
    BY <2>1 DEF SetBackOnce, NeverSetBack, SetBack
  <2> QED BY <1>1, <2>2, <2>3, <2>4 DEF SetBackInv
<1>5. CASE ReqOrderInsert(o)
  <2>1. /\ orderer[o].pc = "send" /\ orderer'[o].pc = "idle" /\ order_ref' = order_ref
        /\ taken' \in {taken, Append(taken, orderer[o].ref)}
    BY <1>5 DEF ReqOrderInsert, TypeOK
  <2>2. CASE taken' = taken
    <3>1. (SetBackOnce => SetBackOnce') /\ (NeverSetBack => NeverSetBack')
      BY <2>2 DEF SetBackOnce, NeverSetBack, SetBack
    <3>2. InLine => InLine'
      <4> SUFFICES ASSUME InLine PROVE Above(order_ref)'
        BY <1>1, <2>1 DEF InLine
      <4>1. Above(orderer[o].ref) /\ orderer[o].ref < order_ref
        BY <2>1 DEF InLine
      <4>2. taken # <<>> => taken[Len(taken)] \in Nat
        BY <1>2
      <4> QED BY <1>2, <2>1, <2>2, <4>1, <4>2 DEF Above
    <3> QED BY <1>1, <2>1, <3>1, <3>2 DEF SetBackInv
  <2>3. CASE taken' = Append(taken, orderer[o].ref)
    <3>1. orderer[o].ref < order_ref => InLine'
      BY <1>1, <1>2, <2>1, <2>3, TakenMore DEF InLine
    <3>2. Above(orderer[o].ref) =>
            (SetBackOnce => SetBackOnce') /\ (NeverSetBack => NeverSetBack')
      BY <1>2, <2>3, TakenMore DEF SetBackOnce, NeverSetBack
    <3>3. NeverSetBack => SetBackOnce'
      BY <1>2, <2>3, TakenMore
    <3>4. CASE InLine
      <4>1. Above(orderer[o].ref) /\ orderer[o].ref < order_ref
        BY <2>1, <3>4 DEF InLine
      <4> QED BY <1>1, <3>1, <3>2, <4>1 DEF SetBackInv
    <3>5. CASE ~InLine
      <4>1. /\ ready_flag /\ NeverSetBack
            /\ Above(orderer[o].ref) \/ orderer[o].ref < order_ref
        BY <2>1, <3>5 DEF SetBackInv
      <4> QED BY <1>1, <2>1, <3>1, <3>2, <3>3, <4>1 DEF SetBackInv
    <3> QED BY <3>4, <3>5
  <2> QED BY <2>1, <2>2, <2>3
<1> QED BY <1>3, <1>4, <1>5 DEF Order

LEMMA SetBackStep == TypeOK /\ LoginInv /\ SetBackInv /\ [Next]_vars => SetBackInv'
<1> SUFFICES ASSUME TypeOK, LoginInv, SetBackInv, [Next]_vars PROVE SetBackInv'
  OBVIOUS
<1>1. CASE MdExchange \/ TdExchange \/ MdCallback \/ UNCHANGED vars
  BY <1>1, SetBackSame DEF MdExchange, TdExchange, MdCallback, MdOnFrontConnected,
                    MdOnFrontDisconnected, MdOnRspUserLogin, vars
<1>2. CASE initial_trader \/ SpuriousWake
  BY <1>2, SetBackSame DEF initial_trader, SpuriousWake, initial_md_manager, subscribe_market,
         initial_td_manager, get_td_connect_flag, request_user_login, request_settle_confirm,
         Request, FallAsleep, wait_handle
<1>3. CASE TdOnFront \/ OnRspSettlementInfoConfirm \/ OnRspError
  BY <1>3, SetBackSame DEF TdOnFront, OnRspSettlementInfoConfirm, OnRspError, notify_handle
<1>4. ASSUME NEW o \in Orderers, Order(o) PROVE SetBackInv'
  <2>1. CASE OneOrderer
    BY <1>4, <2>1, SetBackAtOrder
  <2>2. CASE ~OneOrderer
    BY <2>2 DEF SetBackInv, OneOrderer
  <2> QED BY <2>1, <2>2
<1> QED BY <1>1, <1>2, <1>3, <1>4, SetBackAtLogin DEF Next, TdCallback

\* One ordering thread gives the exchange increasing references, but for one
\* step back at most, at the login's answer that sets order_ref while an
\* order is on its way; and if the answer is taken first, from the reference
\* it gave on (limit_order_insert, OnRspUserLogin).
THEOREM RefsAlwaysIncrease == Spec => []RefsIncrease
<1>1. RefsInv /\ SetBackInv => RefsIncrease
  BY DEF RefsInv, SetBackInv, SetBackOnce, RefsIncrease
<1> QED BY <1>1, RefsInit, RefsStep, SetBackInit, SetBackStep, SessionTypes, LoginInvariant,
           PTL DEF Spec
=============================================================================
