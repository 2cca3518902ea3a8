-------------------------- MODULE UserRequestsProofs --------------------------
(***************************************************************************)
(* Proofs about UserRequests, for every set of prices, every margin and    *)
(* every number of manual orders and requests to cancel.                   *)
(***************************************************************************)
EXTENDS UserRequests, TLAPS

-----------------------------------------------------------------------------
(***************************************************************************)
(* The inductive invariant                                                 *)
(***************************************************************************)
Waiting == {"poll", "requested", "own", "last", "cancel", "create", "forget", "update"}
Places == {"idle", "decide", "SELL", "BUY", "place", "release"} \cup Waiting

ManualOrders == [op : {"BUY", "SELL"}, price : Prices]
Orders == [side : {"BUY", "SELL"}, price : Prices, status : {"NEW", "PARTIALLY_FILLED", "FILLED"},
           extra : BOOLEAN, byHand : BOOLEAN]

\* The maker has an order exactly while it waits for it and books it.
Types ==
    /\ position \in Prices \cup {None}
    /\ manual \in ManualOrders \cup {None}
    /\ poster \in [pc : {"idle"}] \cup [pc : {"order", "save"}, op : {"BUY", "SELL"}, price : Prices]
    /\ maker \in [pc : Places, manual : ManualOrders \cup {None},
                  opened : Prices \cup {None}, next : Orders \cup {None}]
    /\ maker.pc = "place" => maker.next \in Orders
    /\ maker.pc \in Waiting => order \in Orders
    /\ maker.pc \notin Waiting => order = None
    /\ cancelRequest \in BOOLEAN
    /\ cancels \in Nat /\ requests \in Nat

\* Nobody but the maker opens or closes a position or moves its price, so that what it
\* read before a sale is still true when the sale is placed.
ReadIsCurrent == maker.pc \in {"SELL", "BUY"} => maker.opened = position

Margin(o) == IF o.byHand THEN ManualMargin ELSE SellMargin
Brings(o) == o.side = "SELL" => position # None /\ o.price >= position + Margin(o)
SalesBring ==
    /\ maker.pc = "place" => Brings(maker.next)
    /\ maker.pc \in Waiting => Brings(order)

\* A request seen is in the map until the maker takes it, and each one counts once.
RequestsCounted ==
    /\ maker.pc = "requested" => cancelRequest
    /\ cancels + (IF cancelRequest THEN 1 ELSE 0) <= requests

IInv == Types /\ ReadIsCurrent /\ SalesBring /\ RequestsCounted

-----------------------------------------------------------------------------
USE RequestsAssumption

LEMMA InitInv == Init => IInv
<1> SUFFICES ASSUME Init PROVE IInv
  OBVIOUS
<1>1. Types /\ ReadIsCurrent /\ SalesBring
  BY DEF Init, Types, ReadIsCurrent, SalesBring, Resting, Waiting, Places
<1>2. maker.pc # "requested" /\ ~cancelRequest /\ cancels = 0 /\ requests = 0
  BY DEF Init, Resting
<1>3. RequestsCounted
  BY <1>2 DEF RequestsCounted
<1> QED
  BY <1>1, <1>3 DEF IInv

\* What the handlers, the lock and the market do leaves the maker's order alone.
LEMMA PosterKeeps ==
    ASSUME IInv,
           \/ \E op \in {"BUY", "SELL"}, price \in Prices : PostManualOrder(op, price)
           \/ PostCheckOrder \/ SetManualOrder \/ ManualOrderExpires
    PROVE  IInv'
<1>1. CASE \E op \in {"BUY", "SELL"}, price \in Prices : PostManualOrder(op, price)
  <2>1. PICK op \in {"BUY", "SELL"}, price \in Prices : PostManualOrder(op, price)
    BY <1>1
  <2>2. Types'
    BY <2>1 DEF IInv, Types, PostManualOrder, tables, ManualOrders
  <2> QED
    BY <2>1, <2>2 DEF IInv, ReadIsCurrent, SalesBring, Brings, Margin, RequestsCounted, PostManualOrder, tables
<1>2. CASE PostCheckOrder
  <2>1. poster \in [pc : {"order", "save"}, op : {"BUY", "SELL"}, price : Prices]
    BY <1>2 DEF IInv, Types, PostCheckOrder
  <2>2. poster' \in [pc : {"idle"}] \cup [pc : {"order", "save"}, op : {"BUY", "SELL"}, price : Prices]
    BY <1>2, <2>1 DEF PostCheckOrder
  <2>3. Types'
    BY <1>2, <2>2 DEF IInv, Types, PostCheckOrder, tables
  <2> QED
    BY <1>2, <2>3 DEF IInv, ReadIsCurrent, SalesBring, Brings, Margin, RequestsCounted, PostCheckOrder, tables
<1>3. CASE SetManualOrder
  <2>1. poster \in [pc : {"order", "save"}, op : {"BUY", "SELL"}, price : Prices]
    BY <1>3 DEF IInv, Types, SetManualOrder
  <2>2. manual' \in ManualOrders
    BY <1>3, <2>1 DEF SetManualOrder, ManualOrders
  <2>3. Types'
    BY <1>3, <2>2 DEF IInv, Types, SetManualOrder, tables
  <2> QED
    BY <1>3, <2>3 DEF IInv, ReadIsCurrent, SalesBring, Brings, Margin, RequestsCounted, SetManualOrder, tables
<1>4. CASE ManualOrderExpires
  BY <1>4 DEF IInv, Types, ReadIsCurrent, SalesBring, Brings, Margin, RequestsCounted, ManualOrderExpires,
              tables, handlers
<1> QED
  BY <1>1, <1>2, <1>3, <1>4

LEMMA OthersKeep ==
    ASSUME IInv, UpdateExtraCharge \/ SetCancelRequest \/ SetLock \/ Market
    PROVE  IInv'
<1>1. CASE UpdateExtraCharge
  BY <1>1 DEF IInv, Types, ReadIsCurrent, SalesBring, Brings, Margin, RequestsCounted, UpdateExtraCharge, tables
<1>2. CASE SetCancelRequest
  BY <1>2 DEF IInv, Types, ReadIsCurrent, SalesBring, Brings, Margin, RequestsCounted, SetCancelRequest, tables
<1>3. CASE SetLock
  BY <1>3 DEF IInv, Types, ReadIsCurrent, SalesBring, Brings, Margin, RequestsCounted, SetLock, tables, handlers
<1>4. CASE Market
  BY <1>4 DEF IInv, Types, ReadIsCurrent, SalesBring, Brings, Margin, RequestsCounted, Market, tables, handlers
<1> QED
  BY <1>1, <1>2, <1>3, <1>4

LEMMA ExchangeKeeps == ASSUME IInv, Exchange PROVE IInv'
<1>1. PICK status \in {"PARTIALLY_FILLED", "FILLED"} : order' = [order EXCEPT !.status = status]
  BY DEF Exchange
<1>2. maker.pc \in Waiting /\ order \in Orders /\ order' \in Orders
  BY <1>1 DEF Exchange, IInv, Types, Waiting, Orders
<1>3. order'.side = order.side /\ order'.price = order.price /\ order'.byHand = order.byHand
  BY <1>1, <1>2 DEF Orders
<1> QED
  BY <1>2, <1>3 DEF Exchange, IInv, Types, ReadIsCurrent, SalesBring, Brings, Margin, RequestsCounted,
                    handlers

-----------------------------------------------------------------------------
(***************************************************************************)
(* The maker                                                               *)
(***************************************************************************)
LEMMA GetManualOrderKeeps == ASSUME IInv, GetManualOrder PROVE IInv'
BY DEF GetManualOrder, IInv, Types, ReadIsCurrent, SalesBring, Brings, Margin, RequestsCounted, Resting,
       Waiting, Places, tables, handlers

LEMMA DecideKeeps == ASSUME IInv, Decide PROVE IInv'
<1>1. PICK op \in {"SELL", "BUY", "idle"} : maker' = [maker EXCEPT !.pc = op, !.opened = position]
  BY DEF Decide, Operations, IInv, Types, ManualOrders
<1> QED
  BY <1>1 DEF Decide, IInv, Types, ReadIsCurrent, SalesBring, Brings, Margin, RequestsCounted, Waiting, Places,
              tables, handlers

\* A maker that goes on to a place without an order and changes nothing else.
LEMMA GoneOn ==
    ASSUME IInv, maker.pc \notin Waiting, NEW pc \in {"release", "idle"},
           Goto(pc) \/ (pc = "idle" /\ Return),
           UNCHANGED <<tables, manual, cancelRequest, handlers, cancels>>
    PROVE  IInv'
BY DEF Goto, Return, Resting, IInv, Types, ReadIsCurrent, SalesBring, Brings, Margin, RequestsCounted, Waiting,
       Places, tables, handlers

\* One that is about to place an order.
LEMMA GoesToPlace ==
    ASSUME IInv, maker.pc \notin Waiting, NEW o \in Orders, Brings(o),
           maker' = [maker EXCEPT !.pc = "place", !.next = o],
           UNCHANGED <<tables, manual, cancelRequest, handlers, cancels>>
    PROVE  IInv'
<1>1. maker'.pc = "place" /\ maker'.next = o
  BY DEF IInv, Types
<1>2. Types'
  BY <1>1 DEF IInv, Types, Waiting, Places, tables, handlers
<1> QED
  BY <1>1, <1>2 DEF IInv, ReadIsCurrent, SalesBring, Brings, Margin, RequestsCounted, Waiting, tables, handlers

LEMMA SellKeeps == ASSUME IInv, Sell PROVE IInv'
<1> DEFINE byHand == Wants("SELL")
<1>1. maker.pc = "SELL" /\ maker.pc \notin Waiting
  BY DEF Sell, Waiting
<1>2. UNCHANGED <<tables, manual, cancelRequest, handlers, cancels>>
  BY DEF Sell
<1>3. CASE Return
  BY <1>1, <1>2, <1>3, GoneOn
<1>4. CASE Goto("release")
  BY <1>1, <1>2, <1>4, GoneOn
<1>5. CASE maker.opened # None /\ \E price \in SellPrices :
             /\ ~(price < MinClosePrice(maker.opened))
             /\ maker' = [maker EXCEPT !.pc = "place", !.next = NewOrder("SELL", price, FALSE, byHand)]
  <2>1. PICK price \in SellPrices :
             /\ ~(price < MinClosePrice(maker.opened))
             /\ maker' = [maker EXCEPT !.pc = "place", !.next = NewOrder("SELL", price, FALSE, byHand)]
    BY <1>5
  <2>2. position \in Prices /\ position # None /\ maker.opened = position
    BY <1>1, <1>5 DEF IInv, Types, ReadIsCurrent
  <2>3. byHand \in BOOLEAN
    BY DEF Wants
  <2>4. price \in Prices
    BY DEF SellPrices, Wants, IInv, Types, ManualOrders
  <2>5. price >= position + (IF byHand THEN ManualMargin ELSE SellMargin)
    BY <2>1, <2>2, <2>4 DEF MinClosePrice, ManualMinClosePrice
  <2> HIDE DEF byHand
  <2> DEFINE o == NewOrder("SELL", price, FALSE, byHand)
  <2>6. o \in Orders /\ o.price = price /\ o.byHand = byHand
    BY <2>3, <2>4 DEF Orders, NewOrder
  <2>7. Brings(o)
    BY <2>2, <2>5, <2>6 DEF Brings, Margin
  <2> HIDE DEF o
  <2> QED
    BY <1>1, <1>2, <2>1, <2>6, <2>7, GoesToPlace DEF o
<1> QED
  BY <1>3, <1>4, <1>5 DEF Sell

LEMMA RefuseKeeps == ASSUME IInv, RefusePurchase PROVE IInv'
BY GoneOn DEF RefusePurchase, Waiting

\* Any purchase at a known price is an order that may be placed.
LEMMA PurchasesBring ==
    ASSUME NEW price \in Prices, NEW extra \in BOOLEAN, NEW byHand \in BOOLEAN
    PROVE  NewOrder("BUY", price, extra, byHand) \in Orders /\ Brings(NewOrder("BUY", price, extra, byHand))
BY DEF NewOrder, Orders, Brings

LEMMA BuyKeeps == ASSUME IInv, Buy PROVE IInv'
<1> DEFINE byHand == Wants("BUY")
<1>1. maker.pc = "BUY" /\ maker.pc \notin Waiting
  BY DEF Buy, Waiting
<1>2. PICK price \in IF byHand THEN {maker.manual.price} ELSE Prices :
        maker' = [maker EXCEPT !.pc = "place", !.next = NewOrder("BUY", price, FALSE, byHand)]
  BY DEF Buy
<1>3. price \in Prices /\ byHand \in BOOLEAN
  BY DEF Wants, IInv, Types, ManualOrders
<1>4. UNCHANGED <<tables, manual, cancelRequest, handlers, cancels>>
  BY DEF Buy
<1> HIDE DEF byHand
<1> QED
  BY <1>1, <1>2, <1>3, <1>4, PurchasesBring, GoesToPlace

LEMMA BuyExtraKeeps == ASSUME IInv, BuyExtra PROVE IInv'
<1>1. maker.pc = "BUY" /\ maker.pc \notin Waiting
  BY DEF BuyExtra, Waiting
<1>2. UNCHANGED <<tables, manual, cancelRequest, handlers, cancels>>
  BY DEF BuyExtra
<1>3. CASE Goto("release")
  BY <1>1, <1>2, <1>3, GoneOn
<1>4. CASE \E price \in Prices, byHand \in BOOLEAN :
             maker' = [maker EXCEPT !.pc = "place", !.next = NewOrder("BUY", price, TRUE, byHand)]
  <2>1. PICK price \in Prices, byHand \in BOOLEAN :
             maker' = [maker EXCEPT !.pc = "place", !.next = NewOrder("BUY", price, TRUE, byHand)]
    BY <1>4
  <2> QED
    BY <1>1, <1>2, <2>1, PurchasesBring, GoesToPlace
<1>5. Wants("BUY") => maker.manual.price \in Prices
  BY DEF Wants, IInv, Types, ManualOrders
<1>6. CASE Wants("BUY") /\ maker' = [maker EXCEPT !.pc = "place",
                                        !.next = NewOrder("BUY", maker.manual.price, TRUE, TRUE)]
  BY <1>4, <1>5, <1>6
<1>7. CASE \E close \in { p \in Prices : p < maker.opened } :
             maker' = [maker EXCEPT !.pc = "place", !.next = NewOrder("BUY", close, TRUE, FALSE)]
  BY <1>4, <1>7
<1> QED
  BY <1>3, <1>6, <1>7 DEF BuyExtra

LEMMA LimitOrderKeeps == ASSUME IInv, LimitOrder PROVE IInv'
BY DEF LimitOrder, Goto, IInv, Types, ReadIsCurrent, SalesBring, Brings, Margin, RequestsCounted, Waiting, Places,
       handlers

\* One turn of the poller that neither takes a request nor ends the wait.
LEMMA Polled ==
    ASSUME IInv, maker.pc \in Waiting, NEW pc \in Waiting, Goto(pc),
           pc = "requested" => cancelRequest,
           UNCHANGED <<position, order, cancelRequest, cancels, handlers>>,
           manual' = manual \/ manual' = None
    PROVE  IInv'
BY DEF Goto, IInv, Types, ReadIsCurrent, SalesBring, Brings, Margin, RequestsCounted, Waiting, Places, handlers

LEMMA HasCancelRequestKeeps == ASSUME IInv, HasCancelRequest PROVE IInv'
<1>1. CASE cancelRequest
  BY <1>1, Polled DEF HasCancelRequest, tables, Waiting
<1>2. CASE ~cancelRequest
  BY <1>2, Polled DEF HasCancelRequest, tables, Waiting
<1> QED
  BY <1>1, <1>2

LEMMA TakeRequestKeeps == ASSUME IInv, TakeRequest PROVE IInv'
<1>1. PICK pc \in {"cancel", "own"} : maker' = [maker EXCEPT !.pc = pc]
  BY DEF TakeRequest, Goto
<1>2. maker.pc = "requested" /\ maker'.pc \in {"cancel", "own"}
  BY <1>1 DEF TakeRequest, IInv, Types
<1>3. cancels' \in {cancels, cancels + 1} /\ cancels' \in Nat
  BY DEF TakeRequest, IInv, Types
<1>4. cancelRequest' = FALSE /\ UNCHANGED <<position, order, copy, manual, poster, requests>>
  BY DEF TakeRequest, DeleteRequest, tables, handlers
<1>5. Types' /\ ReadIsCurrent' /\ SalesBring'
  BY <1>1, <1>2, <1>3, <1>4 DEF IInv, Types, ReadIsCurrent, SalesBring, Brings, Margin, Waiting, Places
<1>6. RequestsCounted'
  <2>1. cancels + 1 <= requests
    BY <1>2 DEF IInv, RequestsCounted
  <2>2. cancels' <= requests'
    BY <1>3, <1>4, <2>1 DEF IInv, Types
  <2>3. (IF cancelRequest' THEN 1 ELSE 0) = 0
    BY <1>4
  <2> QED
    BY <1>2, <1>3, <2>2, <2>3 DEF RequestsCounted
<1> QED
  BY <1>5, <1>6 DEF IInv

LEMMA TurnKeeps == ASSUME IInv, Reconsider \/ CheckManualOrder \/ QueryOrder PROVE IInv'
<1>1. CASE Reconsider
  BY <1>1, Polled DEF Reconsider, tables, Waiting
<1>2. CASE CheckManualOrder
  BY <1>2, Polled DEF CheckManualOrder, tables, Waiting
<1>3. CASE QueryOrder
  BY <1>3, Polled DEF QueryOrder, Waiting
<1> QED
  BY <1>1, <1>2, <1>3

LEMMA CancelOrderKeeps == ASSUME IInv, CancelOrder PROVE IInv'
<1>1. CASE order.status = "NEW"
  BY <1>1 DEF CancelOrder, Goto, IInv, Types, ReadIsCurrent, SalesBring, Brings, Margin, RequestsCounted,
              Waiting, Places, handlers
<1>2. CASE order.status # "NEW"
  BY <1>2, Polled DEF CancelOrder, Waiting
<1> QED
  BY <1>1, <1>2

\* A sale leaves the position as it is until it is booked.
LEMMA CreateKeeps == ASSUME IInv, Create PROVE IInv'
<1>1. order \in Orders /\ order' = order /\ position' \in Prices \cup {None}
  BY DEF Create, IInv, Types, Waiting, Orders
<1>2. order.side = "SELL" => position' = position
  BY DEF Create
<1>3. maker'.pc = "forget" /\ maker' = [maker EXCEPT !.pc = "forget"]
  BY DEF Create, Goto, IInv, Types
<1>4. Types'
  BY <1>1, <1>3 DEF Create, IInv, Types, Waiting, Places, handlers
<1> QED
  BY <1>1, <1>2, <1>3, <1>4 DEF Create, IInv, ReadIsCurrent, SalesBring, Brings, Margin, RequestsCounted, Waiting,
                                 handlers

LEMMA BookingKeeps == ASSUME IInv, DeleteManualOrder \/ Update \/ ReleaseLock PROVE IInv'
<1>1. CASE DeleteManualOrder
  BY <1>1, Polled DEF DeleteManualOrder, tables, Waiting
<1>2. CASE Update
  <2>1. position' \in Prices \cup {None}
    BY <1>2 DEF Update, Booked, IInv, Types
  <2> QED
    BY <1>2, <2>1 DEF Update, Goto, IInv, Types, ReadIsCurrent, SalesBring, Brings, Margin, RequestsCounted,
                      Waiting, Places, handlers
<1>3. CASE ReleaseLock
  BY <1>3, GoneOn DEF ReleaseLock, Waiting
<1> QED
  BY <1>1, <1>2, <1>3

LEMMA StepInv == IInv /\ [Next]_vars => IInv'
<1> SUFFICES ASSUME IInv, [Next]_vars PROVE IInv'
  OBVIOUS
<1>1. CASE MakerStep
  BY <1>1, GetManualOrderKeeps, DecideKeeps, SellKeeps, RefuseKeeps, BuyKeeps, BuyExtraKeeps,
     LimitOrderKeeps, HasCancelRequestKeeps, TakeRequestKeeps, TurnKeeps, CancelOrderKeeps,
     CreateKeeps, BookingKeeps DEF MakerStep
<1>2. CASE UNCHANGED vars
  BY <1>2 DEF vars, tables, handlers, IInv, Types, ReadIsCurrent, SalesBring, Brings, Margin, RequestsCounted
<1> QED
  BY <1>1, <1>2, PosterKeeps, OthersKeep, ExchangeKeeps DEF Next

-----------------------------------------------------------------------------
(***************************************************************************)
(* The theorems                                                            *)
(***************************************************************************)
\* Whatever margins and prices: no sale is offered below what the position it sells
\* must bring (order_executor 274-420, with the manual price and without).
THEOREM SalesCorrect == Spec => []NoSaleBelowMinimum
<1>1. IInv => NoSaleBelowMinimum
  BY DEF IInv, Types, SalesBring, Brings, Margin, NoSaleBelowMinimum, Waiting
<1> QED
  BY InitInv, StepInv, <1>1, PTL DEF Spec

\* However many requests come in while the map is read and deleted from: each one
\* cancels at most one order (order_executor 1229-1241).
THEOREM CancelsCorrect == Spec => []OneCancelPerRequest
<1>1. IInv => OneCancelPerRequest
  BY DEF IInv, Types, RequestsCounted, OneCancelPerRequest
<1> QED
  BY InitInv, StepInv, <1>1, PTL DEF Spec
=============================================================================
