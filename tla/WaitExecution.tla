--------------------------- MODULE WaitExecution ----------------------------
(***************************************************************************)
(* OrderExecutor.tryLimitOrder and waitExecution: two goroutines watch one *)
(* limit order.  The poller loops over the reasons to look at the order or *)
(* to cancel it and signals each over the unbuffered orderManageChannel;   *)
(* the waiter (the maker's own goroutine) obeys, talks to the exchange and *)
(* answers over the unbuffered control channel.  A cancel that fails while *)
(* the order lives starts waitExecution again inside itself, with new      *)
(* channels and a new poller.                                              *)
(*                                                                         *)
(* Prices, balances and clocks are abstracted to choices: each condition   *)
(* of the poller that reads them may hold or not (so `seconds`, the ttl,   *)
(* is not kept).  The order's status, the client's copy of it, the Redis   *)
(* copy, the cancel request and every send, receive and close are kept.    *)
(***************************************************************************)
EXTENDS ExchangeOrder

CONSTANTS
    TimerLimit,     \* polls between two status checks (30000 / 30 in the code)
    MaxFaults,      \* bound: failing requests in a behaviour
    MaxAttempts     \* bound: nested calls of waitExecution (one per failed cancel)

ASSUME BoundsAssumption ==
    /\ TimerLimit \in Nat \ {0}
    /\ MaxFaults \in Nat
    /\ MaxAttempts \in Nat \ {0}

VARIABLES
    order,          \* the order as the exchange knows it
    held,           \* binanceOrder: the copy both goroutines share by pointer
    cached,         \* what Redis holds under binance-order-<symbol>-<side>
    cancelRequest,  \* CancelRequestMap[symbol]
    waiter,         \* the caller's goroutine
    poller,         \* poller[d]: the goroutine started by the d-th nested call
    open,           \* open[d]: the channels of the d-th call exist and are open
    timer,          \* the running poller's timer, in polls
    faults          \* failing requests so far

vars == <<order, held, cached, cancelRequest, waiter, poller, open, timer, faults>>

Attempts == 1..MaxAttempts

NoOrder == [status |-> "none"]

(***************************************************************************)
(* The places where the poller signals, named after the condition that     *)
(* leads there, and what it sends.                                         *)
(***************************************************************************)
StatusSignals == {"settledStatus", "swapStatus", "riskStatus", "timerStatus"}
CancelSignals == {"swapCancel", "riskCancel", "userCancel", "profitCancel",
                  "extraCancel", "ttlCancel", "manualCancel"}
Signals == StatusSignals \cup CancelSignals \cup {"tick"}

\* The stages of one round of the poller's loop, in the order of the code
Stages == {"top", "swap", "nextSwap", "risk", "user", "profit", "extra", "timer", "ttl"}

PollerStates ==
    [pc : {"run"}, at : Stages] \cup [pc : {"send", "receive"}, at : Signals]
        \cup [pc : {"off", "makeSwap", "lockBuy", "done", "panicked"}, at : {"none"}]

Halted(pc) == [pc |-> pc, at |-> "none"]

\* How the waiter goes on after it answered: it receives again, or it leaves.
WaiterStates ==
    [pc : {"find", "enter", "receive", "query", "cancel", "recover", "reply",
           "return", "returned"},
     then : {"receive", "return", "enter"},
     depth : 0..MaxAttempts,
     result : {"none", "ok", "error"}]

-----------------------------------------------------------------------------
(***************************************************************************)
(* findOrCreateOrder has returned an order: a new one, one that            *)
(* GetOpenedOrders knows or the one cached in Redis, whose copy may be     *)
(* older than the order.                                                   *)
(***************************************************************************)
Init ==
    /\ held \in Orders
    /\ order \in { o \in Orders : Follows(held, o) }
    /\ cached = held
    /\ cancelRequest \in BOOLEAN
    /\ waiter = [pc |-> "find", then |-> "receive", depth |-> 0, result |-> "none"]
    /\ poller = [d \in Attempts |-> Halted("off")]
    /\ open = [d \in Attempts |-> FALSE]
    /\ timer = 0
    /\ faults = 0

\* The exchange works on the order at any time.
Exchange ==
    /\ order' \in Orders
    /\ Progress(order, order')
    /\ UNCHANGED <<held, cached, cancelRequest, waiter, poller, open, timer, faults>>

\* SetCancelRequest, from the maker of the symbol before this call or from the
\* HTTP handler during it.
SetCancelRequest ==
    /\ waiter.pc # "returned"
    /\ ~cancelRequest
    /\ cancelRequest' = TRUE
    /\ UNCHANGED <<order, held, cached, waiter, poller, open, timer, faults>>

-----------------------------------------------------------------------------
(***************************************************************************)
(* The waiter.                                                             *)
(***************************************************************************)
Leave(result) == waiter' = [waiter EXCEPT !.pc = "return", !.result = result]

ReplyThen(then) == waiter' = [waiter EXCEPT !.pc = "reply", !.then = then]

StopThen(result) ==
    waiter' = [waiter EXCEPT !.pc = "reply", !.then = "return", !.result = result]

RequestFails == faults < MaxFaults /\ faults' = faults + 1

\* An order that has ended is worth what it executed.
\* Mutant: every end is an error.
ResultIsError == "error"
Result == IF HasExecutedQuantity(order) THEN "ok" ELSE "error"

\* binanceOrder is replaced by the answer of the exchange.
\* Mutant: the answer is not kept.
DropAnswer == UNCHANGED held
TakeAnswer == held' = order'

\* waitExecution starts again inside itself when its poller has been told to stop.
\* Mutant: the inner call starts beside the outer poller.
RetryAtOnce == waiter' = [waiter EXCEPT !.pc = "enter", !.depth = @ + 1]
Retry == ReplyThen("enter")

\* What the waiter does about a signal
\* Mutant: a signal is not answered.
ObeySilently(place) ==
    waiter' = [waiter EXCEPT !.pc = CASE place = "tick" -> "receive"
                                      [] place \in StatusSignals -> "query"
                                      [] place \in CancelSignals -> "cancel"]
Obey(place) ==
    CASE place = "tick" -> ReplyThen("receive")
      [] place \in StatusSignals -> waiter' = [waiter EXCEPT !.pc = "query"]
      [] place \in CancelSignals -> waiter' = [waiter EXCEPT !.pc = "cancel"]

\* The deferred calls: DeleteBinanceOrder, and close of both channels
\* Mutant: the Redis copy stays.
KeepOrder == UNCHANGED cached
DeleteBinanceOrder == cached' = NoOrder

\* Mutant: the channels are not closed.
LeaveOpen == UNCHANGED open
CloseChannels == open' = [open EXCEPT ![waiter.depth] = FALSE]

\* What counts as done when it is found: filled, or canceled with a part executed
\* Mutant: whatever has executed something is done.
FoundExecuted == HasExecutedQuantity(held)
FoundDone == IsFilled(held) \/ (IsCanceled(held) /\ HasExecutedQuantity(held))

\* tryLimitOrder, lines 458-470: an order found settled is not waited for.
Find ==
    /\ waiter.pc = "find"
    /\ IF FoundDone
       THEN /\ waiter' = [waiter EXCEPT !.pc = "returned", !.result = "ok"]
            /\ UNCHANGED cached
       ELSE IF IsSettled(held) /\ ~HasExecutedQuantity(held)
       THEN /\ waiter' = [waiter EXCEPT !.pc = "returned", !.result = "error"]
            /\ DeleteBinanceOrder
       ELSE /\ waiter' = [waiter EXCEPT !.pc = "enter", !.depth = 1]
            /\ UNCHANGED cached
    /\ UNCHANGED <<order, held, cancelRequest, poller, open, timer, faults>>

\* waitExecution makes its channels and starts its poller, unless the trade
\* limit cannot be read.
Enter ==
    /\ waiter.pc = "enter"
    /\ open' = [open EXCEPT ![waiter.depth] = TRUE]
    /\ timer' = 0
    /\ \/ /\ waiter' = [waiter EXCEPT !.pc = "receive"]
          /\ poller' = [poller EXCEPT ![waiter.depth] = [pc |-> "run", at |-> "top"]]
          /\ UNCHANGED faults
       \/ /\ RequestFails
          /\ Leave("error")
          /\ UNCHANGED poller
    /\ UNCHANGED <<order, held, cached, cancelRequest>>

\* action := <-orderManageChannel
Receive(d) ==
    /\ waiter.pc = "receive"
    /\ waiter.depth = d
    /\ poller[d].pc = "send"
    /\ poller' = [poller EXCEPT ![d].pc = "receive"]
    /\ Obey(poller[d].at)
    /\ UNCHANGED <<order, held, cached, cancelRequest, open, timer, faults>>

\* QueryOrder answers with the order: an order that expired with nothing
\* executed is left without an answer to the poller.
Query ==
    /\ waiter.pc = "query"
    /\ UNCHANGED order
    /\ TakeAnswer
    /\ cached' = order
    /\ IF IsLive(order) THEN ReplyThen("receive")
       ELSE IF IsExpired(order) /\ ~HasExecutedQuantity(order) THEN Leave("error")
       ELSE StopThen(Result)
    /\ UNCHANGED <<cancelRequest, poller, open, timer, faults>>

\* QueryOrder fails: "Order was canceled or expired" is the answer for an
\* archived order, "Order does not exist" ends the wait too, after any other
\* error the waiter sleeps and goes on.
QueryFails ==
    /\ waiter.pc = "query"
    /\ \/ IsSettled(order) /\ ~HasExecutedQuantity(order) /\ StopThen("error")
          /\ UNCHANGED faults
       \/ RequestFails /\ StopThen("error")
       \/ RequestFails /\ ReplyThen("receive")
    /\ UNCHANGED <<order, held, cached, cancelRequest, poller, open, timer>>

\* CancelOrder succeeds on a live order; whatever it executed before counts.
Cancel ==
    /\ waiter.pc = "cancel"
    /\ IsLive(order)
    /\ order' = [order EXCEPT !.status = "CANCELED"]
    /\ TakeAnswer
    /\ StopThen(Result)
    /\ UNCHANGED <<cached, cancelRequest, poller, open, timer, faults>>

\* CancelOrder is refused: the order is settled already, or the request failed.
CancelRefused ==
    /\ waiter.pc = "cancel"
    /\ \/ IsSettled(order) /\ UNCHANGED faults
       \/ IsLive(order) /\ waiter.depth < MaxAttempts /\ RequestFails
    /\ waiter' = [waiter EXCEPT !.pc = "recover"]
    /\ UNCHANGED <<order, held, cached, cancelRequest, poller, open, timer>>

\* The order is queried again after a refused cancel.
Recover ==
    /\ waiter.pc = "recover"
    /\ UNCHANGED order
    /\ TakeAnswer
    /\ IF IsLive(order) THEN waiter.depth < MaxAttempts /\ Retry
       ELSE StopThen(Result)
    /\ UNCHANGED <<cached, cancelRequest, poller, open, timer, faults>>

RecoverFails ==
    /\ waiter.pc = "recover"
    /\ RequestFails
    /\ StopThen("error")
    /\ UNCHANGED <<order, held, cached, cancelRequest, poller, open, timer>>

\* The deferred calls of one waitExecution: both channels are closed and the
\* Redis copy is deleted; then the outer call, if any, returns the same result.
Return ==
    /\ waiter.pc = "return"
    /\ CloseChannels
    /\ DeleteBinanceOrder
    /\ waiter' = [waiter EXCEPT !.depth = @ - 1,
                                !.pc = IF waiter.depth = 1 THEN "returned" ELSE @]
    /\ UNCHANGED <<order, held, cancelRequest, poller, timer, faults>>

-----------------------------------------------------------------------------
(***************************************************************************)
(* The poller of the d-th call.                                            *)
(***************************************************************************)
At(d, stage) == poller[d] = [pc |-> "run", at |-> stage]

GoTo(d, stage) == poller' = [poller EXCEPT ![d] = [pc |-> "run", at |-> stage]]

Signal(d, place) == poller' = [poller EXCEPT ![d] = [pc |-> "send", at |-> place]]

Halt(d, pc) == poller' = [poller EXCEPT ![d] = Halted(pc)]

Top(d) ==
    /\ At(d, "top")
    /\ IF IsSettled(held) THEN Signal(d, "settledStatus") ELSE GoTo(d, "swap")
    /\ UNCHANGED timer

\* The loop over possible swap chains, entered for a SELL that is NEW: the next chain is
\* worth a try, or there is no further one.
Swap(d) ==
    /\ \/ At(d, "swap") /\ held.side = "SELL" /\ IsNew(held) /\ Signal(d, "swapStatus")
       \/ At(d, "nextSwap") /\ Signal(d, "swapStatus")
       \/ (At(d, "swap") \/ At(d, "nextSwap")) /\ GoTo(d, "risk")
    /\ UNCHANGED timer

\* LossSecurity.IsRiskyBuy
Risk(d) ==
    /\ At(d, "risk")
    /\ \/ held.side = "BUY" /\ IsNew(held) /\ Signal(d, "riskStatus")
       \/ GoTo(d, "user")
    /\ UNCHANGED timer

\* A BUY partly filled that is already worth selling
Profit(d) ==
    /\ At(d, "profit")
    /\ \/ held.side = "BUY" /\ IsPartiallyFilled(held) /\ Signal(d, "profitCancel")
       \/ GoTo(d, "extra")
    /\ UNCHANGED timer

\* A SELL to be given up because it is time for an extra BUY
Extra(d) ==
    /\ At(d, "extra")
    /\ \/ held.side = "SELL" /\ IsLive(held) /\ Signal(d, "extraCancel")
       \/ GoTo(d, "timer")
    /\ UNCHANGED timer

Timer(d) ==
    /\ At(d, "timer")
    /\ IF timer >= TimerLimit
       THEN Signal(d, "timerStatus")
       ELSE \E place \in {"manualCancel", "tick"} : Signal(d, place)
    /\ UNCHANGED timer

\* The order is still NEW when its time to live is over: a losing SELL or a BUY
\* the price ran away from is cancelled.
Ttl(d) ==
    /\ At(d, "ttl")
    /\ \/ IsNew(held) /\ Signal(d, "ttlCancel") /\ UNCHANGED timer
       \/ GoTo(d, "top") /\ timer' = timer + 1

\* The timer when the poller goes on: a status check on time restarts it.
\* Mutant: the timer is not restarted.
TimerRunsOn(place) == IF place = "tick" THEN timer + 1 ELSE timer
TimerAfter(place) ==
    CASE place = "timerStatus" -> 0
      [] place = "tick" -> timer + 1
      [] OTHER -> timer

\* The poller is answered with anything but "stop".  (A cancel is never.)
Resume(d) ==
    LET place == poller[d].at IN
    /\ CASE place = "settledStatus" -> GoTo(d, "top")
         [] place = "swapStatus" ->
                IF IsNew(held) THEN Signal(d, "swapCancel") ELSE GoTo(d, "nextSwap")
         [] place = "riskStatus" ->
                IF IsNew(held) THEN Signal(d, "riskCancel") ELSE GoTo(d, "user")
         [] place = "timerStatus" -> GoTo(d, "ttl")
         [] place = "tick" -> GoTo(d, "top")
    /\ timer' = TimerAfter(place)

\* The poller is answered with "stop".
Stop(d) ==
    /\ Halt(d, CASE poller[d].at = "swapCancel" -> "makeSwap"
                 [] poller[d].at = "riskCancel" -> "lockBuy"
                 [] OTHER -> "done")
    /\ UNCHANGED timer

\* A receive from the closed control channel yields "" at once.
ReceiveClosed(d) ==
    /\ poller[d].pc = "receive"
    /\ ~open[d]
    /\ Resume(d)

\* A send on the closed orderManageChannel panics, and the process with it.
SendClosed(d) ==
    /\ poller[d].pc = "send"
    /\ ~open[d]
    /\ Halt(d, "panicked")
    /\ UNCHANGED timer

\* MakeSwap or LockBuy, and the end of the goroutine
Finish(d) ==
    /\ poller[d].pc \in {"makeSwap", "lockBuy"}
    /\ Halt(d, "done")
    /\ UNCHANGED timer

\* HasCancelRequest deletes the request it answers with.
ConsumeCancelRequest == cancelRequest' = FALSE

\* The request is consumed whether the order can be cancelled for it or not.
User(d) ==
    /\ At(d, "user")
    /\ ConsumeCancelRequest
    /\ IF cancelRequest /\ IsNew(held)
       THEN Signal(d, "userCancel")
       ELSE GoTo(d, "profit")
    /\ UNCHANGED <<order, held, cached, waiter, open, timer, faults>>

Poll(d) ==
    /\ \/ Top(d) \/ Swap(d) \/ Risk(d) \/ Profit(d) \/ Extra(d) \/ Timer(d) \/ Ttl(d)
       \/ ReceiveClosed(d) \/ SendClosed(d) \/ Finish(d)
    /\ UNCHANGED <<order, held, cached, cancelRequest, waiter, open, faults>>

\* control <- "continue" or control <- "stop"
Reply(d) ==
    /\ waiter.pc = "reply"
    /\ waiter.depth = d
    /\ poller[d].pc = "receive"
    /\ IF waiter.then = "receive" THEN Resume(d) ELSE Stop(d)
    /\ waiter' = [waiter EXCEPT !.pc = waiter.then,
                                !.depth = IF waiter.then = "enter" THEN @ + 1 ELSE @]
    /\ UNCHANGED <<order, held, cached, cancelRequest, open, faults>>

-----------------------------------------------------------------------------
Panicked == \E d \in Attempts : poller[d].pc = "panicked"

Waiter ==
    /\ ~Panicked
    /\ \/ Find \/ Enter \/ Query \/ QueryFails \/ Cancel \/ CancelRefused
       \/ Recover \/ RecoverFails \/ Return
       \/ \E d \in Attempts : Receive(d) \/ Reply(d)

Poller(d) == ~Panicked /\ (Poll(d) \/ User(d))

\* The call has returned and its goroutines are gone.
Ended ==
    \/ Panicked
    \/ waiter.pc = "returned" /\ \A d \in Attempts : poller[d].pc \in {"off", "done"}

Terminated == Ended /\ UNCHANGED vars

Next ==
    \/ ~Panicked /\ (Exchange \/ SetCancelRequest)
    \/ Waiter
    \/ \E d \in Attempts : Poller(d)
    \/ Terminated

(***************************************************************************)
(* Both goroutines are scheduled: neither blocks for ever outside a        *)
(* channel operation.  Nothing is asked of the exchange.                   *)
(***************************************************************************)
Fairness == WF_vars(Waiter) /\ \A d \in Attempts : WF_vars(Poller(d))

Spec == Init /\ [][Next]_vars /\ Fairness

-----------------------------------------------------------------------------
(***************************************************************************)
(* Properties.                                                             *)
(***************************************************************************)
\* Type correctness; in particular, the timer stops at its limit and the nested
\* calls at their bound (waitExecution).
TypeOK ==
    /\ order \in Orders
    /\ held \in Orders
    /\ cached \in Orders \cup {NoOrder}
    /\ cancelRequest \in BOOLEAN
    /\ waiter \in WaiterStates
    /\ poller \in [Attempts -> PollerStates]
    /\ open \in [Attempts -> BOOLEAN]
    /\ timer \in 0..TimerLimit
    /\ faults \in 0..MaxFaults

\* Buy, BuyExtra and Sell write what the call hands back into the database as
\* final (order_executor.go:114, 237, 340): when tryLimitOrder returns without
\* an error, the order can no longer trade and the copy handed back is exact.
SuccessIsFinal ==
    waiter.pc = "returned" /\ waiter.result = "ok" =>
        IsSettled(order) /\ HasExecutedQuantity(order) /\ held = order

\* An error makes the caller forget the order: unless a request failed, nothing
\* was and nothing can be executed.
ErrorForgetsNothing ==
    waiter.pc = "returned" /\ waiter.result = "error" /\ faults = 0 =>
        IsSettled(order) /\ ~HasExecutedQuantity(order)

\* A nested call is alone: when it starts, the pollers of the calls around it
\* have been stopped, so two pollers never cancel the same order.
OnePollerPerOrder ==
    \A d \in Attempts :
        d < waiter.depth => poller[d].pc \in {"makeSwap", "lockBuy", "done"}

\* The Redis copy outlives the call only when the order was found settled, and
\* then it is the settled order: the next Buy or Sell cannot take up an order
\* this call gave up.
CacheEndsWithTheCall ==
    waiter.pc = "returned" =>
        cached = NoOrder \/ (waiter.result = "ok" /\ cached = order)

\* A settled order ends the call: the rendezvous never blocks both goroutines and
\* no round of the poller misses the status check for ever.
CallEnds == IsSettled(order) ~> (waiter.pc = "returned" \/ Panicked)

\* No goroutine outlives the call for good, except when the process dies.
PollersEnd == (waiter.pc = "returned") ~> Ended

\* Line 851 returns "Order is expired" to the caller as an ordinary error, and
\* TestSellQueryFail (src/tests/order_executor_test.go:592) takes an order "canceled
\* or expired" for one: the process must survive an order that expires.
ExpiryIsAnError == ~Panicked

\* "Can not sell position when SWAP is processing": the poller turns to MakeSwap
\* only when its SELL order has ended with nothing sold.
SwapExcludesSell ==
    \A d \in Attempts :
        poller[d].pc = "makeSwap" => IsSettled(order) /\ ~HasExecutedQuantity(order)

\* The two goroutines keep the promise of one call (refinement).  The outcome is
\* decided when the waiter starts to return.
Decided == waiter.pc \in {"return", "returned"}

Outcome ==
    INSTANCE OrderOutcome WITH
        outcome <- IF Decided THEN waiter.result ELSE "pending",
        reported <- IF Decided /\ waiter.result = "ok" THEN held.executed ELSE 0

KeepsThePromise == Outcome!OutcomeSpec
=============================================================================
