---------------------------- MODULE UserRequests ----------------------------
(***************************************************************************)
(* What a user asks of the maker of one symbol while it works: a manual    *)
(* order (PostManualOrderAction), kept in Redis for a day, and a change of *)
(* the extra charge (UpdateExtraChargeAction), which asks for the waiting  *)
(* order to be cancelled.  The HTTP handlers run beside the maker's        *)
(* goroutine (Make, Buy, BuyExtra, Sell with the poller of waitExecution)  *)
(* and the goroutine of the trade lock.                                    *)
(* The two goroutines of a wait are one process here (WaitExecution shows  *)
(* what they do to each other), an order ends as OrderOutcome promises and *)
(* requests do not fail (TradeLedger).  The trade limit is enabled, and no *)
(* swap is under way (SwapExecution).  Prices are small numbers.           *)
(***************************************************************************)
EXTENDS Integers

CONSTANTS
    Prices,         \* prices of orders
    ManualMargin,   \* GetManualMinClosePrice: 0.5 percent above the position's price
    SellMargin,     \* GetMinClosePrice: the limit's minimum profit
    None,
    MaxPosts,       \* bound: manual orders posted
    MaxRequests     \* bound: requests to cancel

ASSUME RequestsAssumption ==
    /\ Prices \subseteq Int /\ Prices # {}
    /\ ManualMargin \in Nat \ {0} /\ SellMargin \in Nat \ {0}

VARIABLES
    position,       \* price of the opened position, or None
    order,          \* the maker's order at the exchange, or None
    copy,           \* its status in the Redis copy, or None
    manual,         \* manual-order-<symbol>: [op, price] or None
    cancelRequest,  \* CancelRequestMap[symbol]
    fallen,         \* the market: the price has fallen to the next extra charge
    maker,          \* where the maker is, with what it has read
    locked,         \* Lock[symbol]
    lockMsg,        \* what the goroutine of the lock has received, or None
    poster,         \* where PostManualOrderAction is
    editor,         \* where UpdateExtraChargeAction is
    posts, requests, cancels

vars == <<position, order, copy, manual, cancelRequest, fallen, maker, locked, lockMsg,
          poster, editor, posts, requests, cancels>>
tables == <<position, order, copy>>
handlers == <<poster, editor, posts, requests>>

Resting == [pc |-> "idle", manual |-> None, opened |-> None, next |-> None]

Init ==
    /\ position \in Prices \cup {None}
    /\ order = None /\ copy = None
    /\ manual = None /\ cancelRequest = FALSE
    /\ fallen = FALSE
    /\ maker = Resting
    /\ locked = FALSE /\ lockMsg = None
    /\ poster = [pc |-> "idle"] /\ editor = "idle"
    /\ posts = 0 /\ requests = 0 /\ cancels = 0

-----------------------------------------------------------------------------
(***************************************************************************)
(* The handlers                                                            *)
(***************************************************************************)
ManualMinClosePrice(price) == price + ManualMargin

\* The first checks of a manual order, on the position found
PostManualOrder(op, price) ==
    /\ poster.pc = "idle" /\ posts < MaxPosts
    /\ \/ op = "SELL" /\ position # None /\ price >= ManualMinClosePrice(position)
       \/ op = "BUY" /\ position = None
    /\ poster' = [pc |-> "order", op |-> op, price |-> price]
    /\ posts' = posts + 1
    /\ UNCHANGED <<tables, manual, cancelRequest, fallen, maker, locked, lockMsg, editor, requests, cancels>>

\* CalculateBuy may fail, or its price refuse the user's; then the exchange order's copy
\* is looked at.
PostCheckOrder ==
    /\ poster.pc = "order"
    /\ \/ poster' = [pc |-> "idle"]
       \/ /\ ~(order # None /\ order.side = poster.op /\ copy = "PARTIALLY_FILLED")
          /\ poster' = [poster EXCEPT !.pc = "save"]
    /\ UNCHANGED <<tables, manual, cancelRequest, fallen, maker, locked, lockMsg, editor, posts, requests, cancels>>

SetManualOrder ==
    /\ poster.pc = "save"
    /\ manual' = [op |-> poster.op, price |-> poster.price]
    /\ poster' = [pc |-> "idle"]
    /\ UNCHANGED <<tables, cancelRequest, fallen, maker, locked, lockMsg, editor, posts, requests, cancels>>

ManualOrderExpires ==
    /\ manual # None
    /\ manual' = None
    /\ UNCHANGED <<tables, cancelRequest, fallen, maker, locked, lockMsg, handlers, cancels>>

\* The handler finds the opened row and updates it (TradeLedger, Edit); the request
\* comes after that.
UpdateExtraCharge ==
    /\ editor = "idle" /\ requests < MaxRequests
    /\ position # None
    /\ editor' = "request"
    /\ UNCHANGED <<tables, manual, cancelRequest, fallen, maker, locked, lockMsg, poster, posts, requests, cancels>>

SetCancelRequest ==
    /\ editor = "request"
    /\ cancelRequest' = TRUE
    /\ requests' = requests + 1
    /\ editor' = "idle"
    /\ UNCHANGED <<tables, manual, fallen, maker, locked, lockMsg, poster, posts, cancels>>

-----------------------------------------------------------------------------
(***************************************************************************)
(* The trade lock: the maker sends on a channel without a buffer, another  *)
(* goroutine writes the map some time after it has received                *)
(***************************************************************************)
Send(isLocked) == lockMsg = None /\ lockMsg' = isLocked

SetLock ==
    /\ lockMsg # None
    /\ locked' = lockMsg
    /\ lockMsg' = None
    /\ UNCHANGED <<tables, manual, cancelRequest, fallen, maker, handlers, cancels>>

-----------------------------------------------------------------------------
(***************************************************************************)
(* Make                                                                    *)
(***************************************************************************)
Goto(pc) == maker' = [maker EXCEPT !.pc = pc]
Return == maker' = Resting

\* With fewer decisions than needed Make returns, unless there is a manual order.
GetManualOrder ==
    /\ maker.pc = "idle"
    /\ maker' = [Resting EXCEPT !.pc = "decide", !.manual = manual]
    /\ UNCHANGED <<tables, manual, cancelRequest, fallen, locked, lockMsg, handlers, cancels>>

Wants(op) == maker.manual # None /\ maker.manual.op = op

\* The time for an extra charge is more urgent than a manual order.
Operations ==
    LET urgent == position # None /\ fallen IN
    IF maker.manual # None /\ ~urgent THEN {maker.manual.op}
    ELSE {"SELL", "BUY"} \cup (IF urgent THEN {} ELSE {"idle"})

Decide ==
    /\ maker.pc = "decide"
    /\ \E op \in Operations : maker' = [maker EXCEPT !.pc = op, !.opened = position]
    /\ UNCHANGED <<tables, manual, cancelRequest, fallen, locked, lockMsg, handlers, cancels>>

\* Mutant: the handler has checked the price of a manual order.
MinClosePriceTrusted(opened) == IF Wants("SELL") THEN maker.manual.price ELSE opened + SellMargin

MinClosePrice(opened) == IF Wants("SELL") THEN ManualMinClosePrice(opened) ELSE opened + SellMargin

SellPrices == IF Wants("SELL") THEN {maker.manual.price} ELSE Prices

NewOrder(side, price, extra, byHand) ==
    [side |-> side, price |-> price, status |-> "NEW", extra |-> extra, byHand |-> byHand]

Sell ==
    /\ maker.pc = "SELL"
    /\ \/ (maker.opened = None \/ locked) /\ Return /\ UNCHANGED lockMsg
       \/ /\ maker.opened # None /\ ~locked
          /\ Send(TRUE)
          /\ \E price \in SellPrices :
               IF price < MinClosePrice(maker.opened)
                 THEN Goto("release")
                 ELSE maker' = [maker EXCEPT !.pc = "place", !.next = NewOrder("SELL", price, FALSE, Wants("SELL"))]
    /\ UNCHANGED <<tables, manual, cancelRequest, fallen, locked, handlers, cancels>>

\* The stack, the balance, the depth or the notional may refuse any purchase.  The stack's
\* refusal also requests a cancel when the Redis copy of a SELL order is still there
\* (176-180): here the maker has waited for every order to end, and the copy with it.
RefusePurchase ==
    /\ maker.pc = "BUY"
    /\ Return
    /\ UNCHANGED <<tables, manual, cancelRequest, fallen, locked, lockMsg, handlers, cancels>>

Buy ==
    /\ maker.pc = "BUY" /\ maker.opened = None /\ ~locked
    /\ Send(TRUE)
    /\ \E price \in IF Wants("BUY") THEN {maker.manual.price} ELSE Prices :
         maker' = [maker EXCEPT !.pc = "place", !.next = NewOrder("BUY", price, FALSE, Wants("BUY"))]
    /\ UNCHANGED <<tables, manual, cancelRequest, fallen, locked, handlers, cancels>>

\* At the manual price unless the market is above it, as for any other price.  The lock
\* is not looked at.
BuyExtra ==
    /\ maker.pc = "BUY" /\ maker.opened # None /\ fallen
    /\ Send(TRUE)
    /\ \/ /\ Wants("BUY")
          /\ maker' = [maker EXCEPT !.pc = "place", !.next = NewOrder("BUY", maker.manual.price, TRUE, TRUE)]
       \/ \E close \in { p \in Prices : p < maker.opened } :
            /\ Wants("BUY") => close > maker.manual.price
            /\ maker' = [maker EXCEPT !.pc = "place", !.next = NewOrder("BUY", close, TRUE, FALSE)]
       \/ Goto("release")
    /\ UNCHANGED <<tables, manual, cancelRequest, fallen, locked, handlers, cancels>>

LimitOrder ==
    /\ maker.pc = "place"
    /\ order' = maker.next /\ copy' = "NEW"
    /\ Goto("poll")
    /\ UNCHANGED <<position, manual, cancelRequest, fallen, locked, lockMsg, handlers, cancels>>

-----------------------------------------------------------------------------
(***************************************************************************)
(* The wait: one turn of the poller goes from "poll" to "last"             *)
(***************************************************************************)
HasCancelRequest ==
    /\ maker.pc = "poll"
    /\ Goto(IF cancelRequest THEN "requested" ELSE "own")
    /\ UNCHANGED <<tables, manual, cancelRequest, fallen, locked, lockMsg, handlers, cancels>>

\* Mutant: the request stays in the map.
KeepRequest == cancelRequest' = cancelRequest

\* The deferred deletion takes a request made meanwhile along; the request is gone
\* whatever the status of the order.
DeleteRequest == cancelRequest' = FALSE

TakeRequest ==
    /\ maker.pc = "requested"
    /\ DeleteRequest
    /\ IF copy = "NEW" THEN Goto("cancel") /\ cancels' = cancels + 1
                       ELSE Goto("own") /\ UNCHANGED cancels
    /\ UNCHANGED <<tables, manual, fallen, locked, lockMsg, handlers>>

\* The poller's own reasons to cancel: risk, profit, extra charge, time
Reconsider ==
    /\ maker.pc = "own"
    /\ Goto("cancel") \/ Goto("last")
    /\ UNCHANGED <<tables, manual, cancelRequest, fallen, locked, lockMsg, handlers, cancels>>

\* Mutant: a manual order of the other side does not concern the one that waits.
IsOtherOrderOfSide == manual # None /\ manual.op = order.side /\ manual.price # order.price

IsOtherOrder == manual # None /\ manual.price # order.price

\* "cancel current immediately on new manual order"
CheckManualOrder ==
    /\ maker.pc = "last"
    /\ Goto(IF IsOtherOrder THEN "cancel" ELSE "poll")
    /\ UNCHANGED <<tables, manual, cancelRequest, fallen, locked, lockMsg, handlers, cancels>>

\* The timer: every thousandth turn asks for the status instead.
QueryOrder ==
    /\ maker.pc = "last"
    /\ IF order.status = "FILLED" THEN copy' = None /\ Goto("create")
                                  ELSE copy' = order.status /\ Goto("poll")
    /\ UNCHANGED <<position, order, manual, cancelRequest, fallen, locked, lockMsg, handlers, cancels>>

CancelOrder ==
    /\ maker.pc = "cancel"
    /\ copy' = None
    /\ IF order.status = "NEW" THEN order' = None /\ Goto("release")
                               ELSE UNCHANGED order /\ Goto("create")
    /\ UNCHANGED <<position, manual, cancelRequest, fallen, locked, lockMsg, handlers, cancels>>

Exchange ==
    /\ order # None /\ maker.pc \in {"poll", "requested", "own", "last", "cancel"}
    /\ \E status \in {"PARTIALLY_FILLED", "FILLED"} :
         order.status # "FILLED" /\ order.status # status /\ order' = [order EXCEPT !.status = status]
    /\ UNCHANGED <<position, copy, manual, cancelRequest, fallen, maker, locked, lockMsg, handlers, cancels>>

-----------------------------------------------------------------------------
(***************************************************************************)
(* The executed order is booked                                            *)
(***************************************************************************)
Create ==
    /\ maker.pc = "create"
    /\ position' = IF order.side = "BUY" /\ ~order.extra THEN order.price ELSE position
    /\ Goto("forget")
    /\ UNCHANGED <<order, copy, manual, cancelRequest, fallen, locked, lockMsg, handlers, cancels>>

DeleteManualOrder ==
    /\ maker.pc = "forget"
    /\ manual' = None
    /\ Goto("update")
    /\ UNCHANGED <<tables, cancelRequest, fallen, locked, lockMsg, handlers, cancels>>

\* A sale of the whole closes the position, an extra purchase moves its price.
Booked ==
    CASE order.side = "SELL" /\ order.status = "FILLED" -> {None}
      [] order.extra -> { p \in Prices : (order.price <= p /\ p <= position) \/ (position <= p /\ p <= order.price) }
      [] OTHER -> {position}

Update ==
    /\ maker.pc = "update"
    /\ position' \in Booked
    /\ order' = None
    /\ Goto("release")
    /\ UNCHANGED <<copy, manual, cancelRequest, fallen, locked, lockMsg, handlers, cancels>>

ReleaseLock ==
    /\ maker.pc = "release"
    /\ Send(FALSE)
    /\ Return
    /\ UNCHANGED <<tables, manual, cancelRequest, fallen, locked, handlers, cancels>>

Market ==
    /\ fallen' = ~fallen
    /\ UNCHANGED <<tables, manual, cancelRequest, maker, locked, lockMsg, handlers, cancels>>

-----------------------------------------------------------------------------
MakerStep ==
    \/ GetManualOrder \/ Decide \/ Sell \/ RefusePurchase \/ Buy \/ BuyExtra \/ LimitOrder
    \/ HasCancelRequest \/ TakeRequest \/ Reconsider \/ CheckManualOrder \/ QueryOrder \/ CancelOrder
    \/ Create \/ DeleteManualOrder \/ Update \/ ReleaseLock

Next ==
    \/ \E op \in {"BUY", "SELL"}, price \in Prices : PostManualOrder(op, price)
    \/ PostCheckOrder \/ SetManualOrder \/ ManualOrderExpires
    \/ UpdateExtraCharge \/ SetCancelRequest
    \/ SetLock \/ MakerStep \/ Exchange \/ Market

\* The maker and the goroutine of the lock go on, and the poller comes to the manual
\* order in all but every thousandth turn.  Users, the exchange and the market need not
\* do anything.
Fairness ==
    /\ WF_vars(MakerStep)
    /\ WF_vars(SetLock)
    /\ SF_vars(CheckManualOrder)

Spec == Init /\ [][Next]_vars /\ Fairness

-----------------------------------------------------------------------------
(***************************************************************************)
(* Properties                                                              *)
(***************************************************************************)
\* No sale is offered below what its position must bring, whatever the position was when
\* the user's price was checked: the position may have been sold and bought again since.
NoSaleBelowMinimum ==
    order # None /\ order.side = "SELL" /\ maker.pc \notin {"release", "idle"} =>
        /\ position # None
        /\ order.price >= position + (IF order.byHand THEN ManualMargin ELSE SellMargin)

\* A request to cancel cancels one order at most, although the map is read and deleted
\* from without its mutex while a handler writes it.
OneCancelPerRequest == cancels <= requests

\* In a market that does not fall, a manual sale the position allows is placed, or
\* refused by a change of the position or the end of the manual order: no order that
\* waits and no trade lock read too late keeps it from the exchange for ever.
Allowed == manual # None /\ manual.op = "SELL" /\ position # None /\ manual.price >= ManualMinClosePrice(position)
Placed == order # None /\ order.side = "SELL" /\ order.price = manual.price
ManualSaleIsPlaced == <>[]~fallen => (Allowed ~> (~Allowed \/ Placed))

\* "Manual extra buy is temporary prohibited" (order_controller 393): a manual purchase
\* is accepted when no position is opened, so none becomes an extra purchase.
NoManualExtra == order # None => ~(order.extra /\ order.byHand)
=============================================================================
