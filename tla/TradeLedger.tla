---------------------------- MODULE TradeLedger -----------------------------
(***************************************************************************)
(* The orders of one symbol on their way from the exchange into the        *)
(* database.  The maker's goroutine (MakerService.Make with Buy, BuyExtra  *)
(* and Sell of OrderExecutor) places limit orders, waits for them, saves   *)
(* them in table `orders` and keeps the opened position up to date, over   *)
(* three stores that no transaction spans: the exchange, the database and  *)
(* Redis, which caches the current exchange order of each side and the     *)
(* opened position.  Around it work                                        *)
(*   - the pollers of SELL orders, each of which may be left behind to     *)
(*     turn the position over to a swap (OrderExecutor.MakeSwap),          *)
(*   - HTTP handlers that edit a position (UpdateExtraChargeAction),       *)
(*   - everybody else who reads the opened position through its cache      *)
(*     (strategies, trade stack, price calculator, controllers),           *)
(*   - crashes of the process, and requests that fail.                     *)
(* Each request to a store is one step.  Prices, scores, budgets and       *)
(* balances are abstracted to choices: a condition on them may hold or not.*)
(* What waitExecution does with an order is the promise of OrderOutcome.   *)
(***************************************************************************)
EXTENDS ExchangeOrder, Integers, FiniteSets

CONSTANTS
    OrderIds,       \* orders the exchange may accept for the symbol
    PositionIds,    \* ids of the BUY rows that open a position
    None,           \* no order, no position, no cache entry
    MinQuantity,    \* TradeLimit.MinQuantity, in lots
    SwapEnabled,    \* OrderExecutor.SwapEnabled
    Pollers,        \* bound: pollers that are around at a time, the one of the
                    \* wait and those left behind in MakeSwap
    Clerks,         \* HTTP handlers of UpdateExtraChargeAction
    Readers,        \* other callers of GetOpenedOrderCached
    MaxCrashes,     \* bound: crashes of the process
    MaxFaults       \* bound: failing requests

ASSUME LedgerAssumption ==
    /\ None \notin OrderIds \cup PositionIds
    /\ "maker" \notin Pollers \cup Clerks \cup Readers
    /\ Pollers \cap (Clerks \cup Readers) = {}
    /\ IsFiniteSet(Pollers)
    /\ MinQuantity \in Nat \ {0}
    /\ SwapEnabled \in BOOLEAN
    /\ MaxCrashes \in Nat
    /\ MaxFaults \in Nat

VARIABLES
    orders,         \* the exchange: its order of each id, or None
    rows,           \* table `orders`: the executed_quantity saved for each
                    \* external_id, 0 for none
    position,       \* table `orders`: the row of each position
    bought,         \* ... what its own row and its extra BUY rows sum up to
    sold,           \* ... what its SELL rows sum up to
    swaps,          \* table `swap_action`: active actions of each position
    orderCache,     \* Redis: the exchange order of each side
    openedCache,    \* Redis: the opened position
    agent,          \* where each goroutine is, and the copies it works on
    job,            \* the order the maker is busy with
    crashes, faults

stores == <<orders, rows, position, bought, sold, swaps, orderCache, openedCache>>
vars == <<stores, agent, job, crashes, faults>>

Agents == {"maker"} \cup Pollers \cup Clerks \cup Readers

\* An order of `orig` lots, as the exchange knows it or as the bot last saw it
ExchangeOrders ==
    { o \in [side : Sides, status : Statuses, executed : Nat, orig : Nat] :
        WellFormed(o, o.orig) }

PositionRows == [status : {"none", "opened", "closed"}, exec : Nat, swap : BOOLEAN]

\* model.Order of a position: its row and the SoldQuantity the query adds
Copies == [id : PositionIds, status : {"opened", "closed"}, exec : Nat,
           swap : BOOLEAN, sold : Nat]

CopyOf(p) == [id |-> p, status |-> position[p].status, exec |-> position[p].exec,
              swap |-> position[p].swap, sold |-> sold[p]]

RowOf(copy) == [status |-> copy.status, exec |-> copy.exec, swap |-> copy.swap]

OpenedPositions == { p \in PositionIds : position[p].status = "opened" }

CachedOrders == [id : OrderIds, seen : ExchangeOrders]
CacheEntries == CachedOrders \cup {None}

ASSUME NoneAssumption == None \notin ExchangeOrders \cup Copies \cup CachedOrders

IdleAgent == [pc |-> "idle", copy |-> None, draft |-> None, then |-> "idle"]

NoJob == [op |-> "none", id |-> None, seen |-> None]

SideOf(op) == IF op = "Sell" THEN "SELL" ELSE "BUY"

SideOfJob == SideOf(job.op)

\* The position's whole-row UPDATE, to begin with its cache (OrderRepository.Update)
BeginUpdate(a, copy, then) ==
    agent' = [agent EXCEPT ![a].pc = "delete", ![a].draft = copy, ![a].then = then]

Continue(a, pc) == agent' = [agent EXCEPT ![a].pc = pc]

Finish(a) == agent' = [agent EXCEPT ![a] = IdleAgent]

RequestFails == faults < MaxFaults /\ faults' = faults + 1

\* An operation of the maker ends with an error.  After BuyExtra the maker tries
\* a swap with the position it had read (TrySwap).
Fail ==
    /\ job' = NoJob
    /\ \/ Finish("maker")
       \/ job.op = "BuyExtra" /\ SwapEnabled /\ Continue("maker", "makeSwap")

-----------------------------------------------------------------------------
Init ==
    /\ orders = [o \in OrderIds |-> None]
    /\ rows = [o \in OrderIds |-> 0]
    /\ position = [p \in PositionIds |->
                     [status |-> "none", exec |-> 0, swap |-> FALSE]]
    /\ bought = [p \in PositionIds |-> 0]
    /\ sold = [p \in PositionIds |-> 0]
    /\ swaps = [p \in PositionIds |-> 0]
    /\ orderCache = [side \in Sides |-> None]
    /\ openedCache = None
    /\ agent = [a \in Agents |-> IdleAgent]
    /\ job = NoJob
    /\ crashes = 0
    /\ faults = 0

\* The exchange works on a live order at any time, or cancels it for waitExecution.
Exchange(o) ==
    /\ orders[o] # None
    /\ \E executed \in orders[o].executed .. orders[o].orig, status \in Statuses :
        LET after == [orders[o] EXCEPT !.executed = executed, !.status = status] IN
        /\ Progress(orders[o], after)
        /\ WellFormed(after, after.orig)
        /\ orders' = [orders EXCEPT ![o] = after]
    /\ UNCHANGED <<rows, position, bought, sold, swaps, orderCache,
                   openedCache, agent, job, crashes, faults>>

-----------------------------------------------------------------------------
(***************************************************************************)
(* GetOpenedOrderCached: the cached copy, or else the row, which is cached.*)
(***************************************************************************)
Loaders == {"maker"} \cup Readers

\* What the caller does with the position (None if there is none)
Loaded(a, copy) ==
    agent' = [agent EXCEPT ![a] =
                IF a = "maker" THEN [IdleAgent EXCEPT !.pc = "decide", !.copy = copy]
                ELSE IdleAgent]

LoadCached(a) ==
    /\ agent[a].pc = "idle"
    /\ IF openedCache # None THEN Loaded(a, openedCache) ELSE Continue(a, "select")
    /\ UNCHANGED <<stores, job, crashes, faults>>

Select(a) ==
    /\ agent[a].pc = "select"
    /\ \/ \E p \in OpenedPositions :
            agent' = [agent EXCEPT ![a].pc = "fill", ![a].copy = CopyOf(p)]
       \/ OpenedPositions = {} /\ Loaded(a, None)
    /\ UNCHANGED <<stores, job, crashes, faults>>

\* Every error of the query is taken for "no opened position".
SelectFails(a) ==
    /\ agent[a].pc = "select"
    /\ RequestFails
    /\ Loaded(a, None)
    /\ UNCHANGED <<stores, job, crashes>>

Fill(a) ==
    /\ agent[a].pc = "fill"
    /\ openedCache' = agent[a].copy
    /\ Loaded(a, agent[a].copy)
    /\ UNCHANGED <<orders, rows, position, bought, sold, swaps, orderCache,
                   job, crashes, faults>>

-----------------------------------------------------------------------------
(***************************************************************************)
(* OrderRepository.Update: the cache entry goes first, the row follows.    *)
(***************************************************************************)
\* Mutant: the cached position stays.
KeepOpenedCache == UNCHANGED openedCache
DeleteOpenedOrderCache == openedCache' = None

DeleteCache(a) ==
    /\ agent[a].pc = "delete"
    /\ DeleteOpenedOrderCache
    /\ Continue(a, "write")
    /\ UNCHANGED <<orders, rows, position, bought, sold, swaps, orderCache,
                   job, crashes, faults>>

Write(a) ==
    /\ agent[a].pc = "write"
    /\ position' = [position EXCEPT ![agent[a].draft.id] = RowOf(agent[a].draft)]
    /\ IF agent[a].then = "idle"
       THEN Finish(a) /\ job' = IF a = "maker" THEN NoJob ELSE job
       ELSE Continue(a, agent[a].then) /\ UNCHANGED job
    /\ UNCHANGED <<orders, rows, bought, sold, swaps, orderCache,
                   openedCache, crashes, faults>>

\* A failed write ends the operation, except that recoverCommission only logs it.
WriteFails(a) ==
    /\ agent[a].pc = "write"
    /\ RequestFails
    /\ IF agent[a].then = "find" THEN Continue(a, "find") /\ UNCHANGED job
       ELSE IF a = "maker" THEN Fail
       ELSE Finish(a) /\ UNCHANGED job
    /\ UNCHANGED <<stores, crashes>>

-----------------------------------------------------------------------------
(***************************************************************************)
(* The maker.                                                              *)
(***************************************************************************)
Maker == agent["maker"]

\* GetActiveSwapAction of the position
\* Mutant: every position has an action.
HasSomeAction(copy) == TRUE
\* Mutant: the check for an action finds none.
HasNoAction(copy) == FALSE
HasActive(copy) == swaps[copy.id] > 0

InSwap(copy) == SwapEnabled /\ copy # None /\ (copy.swap \/ HasActive(copy))

\* A position is bought once; then it is bought more of, or sold.
\* Mutant: a position is bought although one is opened.
BuysAnyTime(copy) == {"Buy"} \cup (IF copy = None THEN {} ELSE {"Sell"})
Operations(copy) == IF copy = None THEN {"Buy"} ELSE {"BuyExtra", "Sell"}

\* Make asks for the swap first (ProcessSwap), where a failing query counts as no
\* swap.  Then the strategies decide: nothing is done, or the conditions of an
\* operation on prices, budget and balance hold.
Decide ==
    /\ Maker.pc = "decide"
    /\ \/ InSwap(Maker.copy) /\ Continue("maker", "swapping") /\ UNCHANGED <<job, faults>>
       \/ /\ \/ ~InSwap(Maker.copy) /\ UNCHANGED faults
             \/ SwapEnabled /\ Maker.copy # None /\ ~Maker.copy.swap /\ RequestFails
          /\ \/ Finish("maker") /\ UNCHANGED job
             \/ /\ \E op \in Operations(Maker.copy) :
                      job' = [NoJob EXCEPT !.op = op]
                /\ Continue("maker", IF job'.op = "Sell" THEN "quantity" ELSE "find")
    /\ UNCHANGED <<stores, crashes>>

\* CalculateSellQuantity takes the quantity of the cached order, or first rewrites
\* the row of a position without a commission from the maker's copy
\* (recoverCommission; its balance request may fail).
SellQuantity ==
    /\ Maker.pc = "quantity"
    /\ \/ Continue("maker", "find")
       \/ orderCache["SELL"] = None /\ BeginUpdate("maker", Maker.copy, "find")
    /\ UNCHANGED <<stores, job, crashes, faults>>

\* BuyExtra is refused (no budget, no balance, not yet its time).
RefuseExtra ==
    /\ Maker.pc = "find"
    /\ job.op = "BuyExtra"
    /\ Fail
    /\ UNCHANGED <<stores, crashes, faults>>

\* findBinanceOrder: the cached order of the side is taken up, ...
FindCached ==
    /\ Maker.pc = "find"
    /\ orderCache[SideOfJob] # None
    /\ job' = [job EXCEPT !.id = orderCache[SideOfJob].id,
                          !.seen = orderCache[SideOfJob].seen]
    /\ Continue("maker", "try")
    /\ UNCHANGED <<stores, crashes, faults>>

\* GetOpenedOrders, for the symbol and the side
\* Mutant: a partly filled order is overlooked.
NewOrders(side) ==
    { o \in OrderIds : orders[o] # None /\ orders[o].side = side /\ IsNew(orders[o]) }
LiveOrders(side) ==
    { o \in OrderIds : orders[o] # None /\ orders[o].side = side /\ IsLive(orders[o]) }

\* ... or else a live one, which is cached.
FindOpened ==
    /\ Maker.pc = "find"
    /\ orderCache[SideOfJob] = None
    /\ \E o \in LiveOrders(SideOfJob) :
        /\ job' = [job EXCEPT !.id = o, !.seen = orders[o]]
        /\ orderCache' = [orderCache EXCEPT ![SideOfJob] = [id |-> o, seen |-> orders[o]]]
    /\ Continue("maker", "try")
    /\ UNCHANGED <<orders, rows, position, bought, sold, swaps, openedCache,
                   crashes, faults>>

\* GetRemainingToSellQuantity
\* Mutant: what was sold already is not deducted.
ExecutedOf(copy) == copy.exec
RemainingToSell(copy) == copy.exec - copy.sold

\* What FormatQuantity makes of the quantity to order: never less than the
\* minimum, for a Sell at most what the copy says is not sold.
Quantities ==
    LET remaining == RemainingToSell(Maker.copy) IN
    IF job.op # "Sell" THEN MinQuantity .. Qty
    ELSE MinQuantity .. (IF remaining > MinQuantity THEN remaining ELSE MinQuantity)

\* findOrCreateOrder places a new order when none is found, and also when
\* GetOpenedOrders fails.  The answer may be filled or settled already.
Place ==
    /\ Maker.pc = "find"
    /\ orderCache[SideOfJob] = None
    /\ \/ LiveOrders(SideOfJob) = {} /\ UNCHANGED faults
       \/ RequestFails
    /\ \E o \in OrderIds, orig \in Quantities, status \in Statuses :
       \E executed \in 0..orig :
        LET new == [side |-> SideOfJob, status |-> status,
                    executed |-> executed, orig |-> orig] IN
        /\ orders[o] = None
        /\ WellFormed(new, orig)
        /\ orders' = [orders EXCEPT ![o] = new]
        /\ job' = [job EXCEPT !.id = o, !.seen = new]
    /\ Continue("maker", "placed")
    /\ UNCHANGED <<rows, position, bought, sold, swaps, orderCache,
                   openedCache, crashes>>

\* The operation is refused: by its price or quantity checks, or LimitOrder by
\* the exchange.
Refuse ==
    /\ Maker.pc = "find"
    /\ job.op # "BuyExtra"
    /\ Fail
    /\ UNCHANGED <<stores, crashes, faults>>

CacheOrder(seen) ==
    orderCache' = [orderCache EXCEPT ![SideOfJob] = [id |-> job.id, seen |-> seen]]

UncacheOrder == orderCache' = [orderCache EXCEPT ![SideOfJob] = None]

CachePlaced ==
    /\ Maker.pc = "placed"
    /\ CacheOrder(job.seen)
    /\ Continue("maker", "try")
    /\ UNCHANGED <<orders, rows, position, bought, sold, swaps, openedCache,
                   job, crashes, faults>>

\* An order found executed to the end is saved, one that ended without is dropped.
\* Mutant: whatever has executed something is saved.
FoundExecuted(seen) == HasExecutedQuantity(seen)
FoundDone(seen) == IsFilled(seen) \/ (IsCanceled(seen) /\ HasExecutedQuantity(seen))

\* Mutant: every settled order is dropped.
FoundEnded(seen) == IsSettled(seen)
FoundVoid(seen) == IsSettled(seen) /\ ~HasExecutedQuantity(seen)

\* tryLimitOrder: an order that was found settled is not waited for and stays
\* cached unless it executed nothing.
Try ==
    /\ Maker.pc = "try"
    /\ IF FoundDone(job.seen)
       THEN Continue("maker", "save") /\ UNCHANGED <<orderCache, job>>
       ELSE IF FoundVoid(job.seen)
       THEN UncacheOrder /\ Fail
       ELSE Continue("maker", "wait") /\ UNCHANGED <<orderCache, job>>
    /\ UNCHANGED <<orders, rows, position, bought, sold, swaps, openedCache,
                   crashes, faults>>

\* waitExecution asks for the order's status.
WaitQuery ==
    /\ Maker.pc = "wait"
    /\ job.seen # orders[job.id]
    /\ job' = [job EXCEPT !.seen = orders[job.id]]
    /\ CacheOrder(orders[job.id])
    /\ UNCHANGED <<orders, rows, position, bought, sold, swaps, openedCache,
                   agent, crashes, faults>>

-----------------------------------------------------------------------------
(***************************************************************************)
(* The end of waitExecution, as OrderOutcome promises it.  While a NEW     *)
(* SELL order is waited for, its poller reads the position to swap it.     *)
(* Answered "stop" to its cancel it goes on to MakeSwap, whatever the wait *)
(* came to, while the maker goes on, too: to the nested wait with a poller *)
(* of its own, or to later sales, whose pollers may be left behind beside  *)
(* it.                                                                     *)
(***************************************************************************)
\* The poller of the current wait, once it has read a position
Armed == { w \in Pollers : agent[w].pc = "armed" }

PollerReads(w) ==
    /\ SwapEnabled
    /\ Maker.pc = "wait"
    /\ job.op = "Sell"
    /\ IsNew(job.seen)
    /\ agent[w].pc \in {"idle", "armed"}
    /\ Armed \subseteq {w}
    /\ \E copy \in IF openedCache # None THEN {openedCache}
                   ELSE { CopyOf(p) : p \in OpenedPositions } :
        /\ openedCache' = copy
        /\ agent' = [agent EXCEPT ![w] = [IdleAgent EXCEPT !.pc = "armed", !.copy = copy]]
    /\ UNCHANGED <<orders, rows, position, bought, sold, swaps, orderCache,
                   job, crashes, faults>>

\* The wait ends for the maker, and for its poller, which may take the end of the
\* control channel for the answer to its cancel.
EndWait(makers) ==
    /\ UncacheOrder
    /\ \E maker \in makers, swapping \in SUBSET (IF IsNew(job.seen) THEN Armed ELSE {}) :
        agent' = [a \in Agents |->
                    IF a = "maker" THEN maker
                    ELSE IF a \in swapping THEN [agent[a] EXCEPT !.pc = "makeSwap"]
                    ELSE IF a \in Armed THEN IdleAgent ELSE agent[a]]
    /\ UNCHANGED <<orders, rows, position, bought, sold, swaps, openedCache, crashes>>

Failed ==
    {IdleAgent} \cup
    IF job.op = "BuyExtra" /\ SwapEnabled THEN {[Maker EXCEPT !.pc = "makeSwap"]} ELSE {}

\* A wait is worth its while when the order executed something.
\* Mutant: only a filled order counts.
OnlyFilled(o) == IsFilled(o)
Succeeded(o) == HasExecutedQuantity(o)

WaitOk ==
    /\ Maker.pc = "wait"
    /\ IsSettled(orders[job.id])
    /\ Succeeded(orders[job.id])
    /\ job' = [job EXCEPT !.seen = orders[job.id]]
    /\ EndWait({[Maker EXCEPT !.pc = "save"]})
    /\ UNCHANGED faults

WaitError ==
    /\ Maker.pc = "wait"
    /\ IsSettled(orders[job.id])
    /\ ~Succeeded(orders[job.id])
    /\ job' = NoJob
    /\ EndWait(Failed)
    /\ UNCHANGED faults

WaitGivesUp ==
    /\ Maker.pc = "wait"
    /\ RequestFails
    /\ job' = NoJob
    /\ EndWait(Failed)

\* The cancel fails while the order lives: the poller is told to stop, the wait
\* starts again.
WaitAgain ==
    /\ Maker.pc = "wait"
    /\ IsNew(job.seen)
    /\ IsLive(orders[job.id])
    /\ RequestFails
    /\ \E w \in Armed : Continue(w, "makeSwap")
    /\ job' = [job EXCEPT !.seen = orders[job.id]]
    /\ UNCHANGED <<stores, crashes>>

-----------------------------------------------------------------------------
(***************************************************************************)
(* The order goes into the database: Create, then what Buy, BuyExtra and   *)
(* Sell do next.  The unique key on external_id refuses an order a second  *)
(* time; it is then dropped from the cache.                                *)
(***************************************************************************)
Insert ==
    /\ Maker.pc = "save"
    /\ rows[job.id] = 0
    /\ rows' = [rows EXCEPT ![job.id] = job.seen.executed]

SaveBuy ==
    /\ Insert
    /\ job.op = "Buy"
    /\ \E p \in PositionIds :
        /\ position[p].status = "none"
        /\ position' = [position EXCEPT ![p] =
                [status |-> "opened", exec |-> job.seen.executed, swap |-> FALSE]]
        /\ bought' = [bought EXCEPT ![p] = job.seen.executed]
    /\ Continue("maker", "commission")
    /\ UNCHANGED <<orders, sold, swaps, orderCache, openedCache, job, crashes, faults>>

\* The position with what its extra order bought
\* Mutant: the extra order's quantity replaces the position's.
GrownTo(copy) == [copy EXCEPT !.exec = job.seen.executed]
\* Mutant: the position grows by what was ordered.
GrownByOrdered(copy) == [copy EXCEPT !.exec = @ + job.seen.orig]
Grown(copy) == [copy EXCEPT !.exec = @ + job.seen.executed]

\* The position grows by what its extra order bought.  (The row's update that
\* UpdateCommission tries with id 0 has no effect of its own.)
SaveBuyExtra ==
    /\ Insert
    /\ job.op = "BuyExtra"
    /\ bought' = [bought EXCEPT ![Maker.copy.id] = @ + job.seen.executed]
    /\ BeginUpdate("maker", Grown(Maker.copy), "cleanup")
    /\ UNCHANGED <<orders, position, sold, swaps, orderCache, openedCache, job,
                   crashes, faults>>

SaveSell ==
    /\ Insert
    /\ job.op = "Sell"
    /\ sold' = [sold EXCEPT ![Maker.copy.id] = @ + job.seen.executed]
    /\ Continue("maker", "close")
    /\ UNCHANGED <<orders, position, bought, swaps, orderCache, openedCache, job,
                   crashes, faults>>

SaveDuplicate ==
    /\ Maker.pc = "save"
    /\ rows[job.id] # 0
    /\ UncacheOrder
    /\ Fail
    /\ UNCHANGED <<orders, rows, position, bought, sold, swaps, openedCache,
                   crashes, faults>>

SaveFails ==
    /\ Maker.pc = "save"
    /\ RequestFails
    /\ Fail
    /\ UNCHANGED <<stores, crashes>>

\* UpdateCommission after Buy: its order has id 0, so that only the opened
\* position's cache is dropped, if the balance is known.
UpdateCommission ==
    /\ Maker.pc = "commission"
    /\ openedCache' \in {None, openedCache}
    /\ Continue("maker", "cleanup")
    /\ UNCHANGED <<orders, rows, position, bought, sold, swaps, orderCache, job,
                   crashes, faults>>

\* DeleteBinanceOrder at the end of Buy and BuyExtra
CleanUp ==
    /\ Maker.pc = "cleanup"
    /\ UncacheOrder
    /\ Finish("maker")
    /\ job' = NoJob
    /\ UNCHANGED <<orders, rows, position, bought, sold, swaps, openedCache,
                   crashes, faults>>

\* What is left of exec after total was sold and 0.15% of both paid is at most
\* the minimum.
IsSoldOut(exec, total) == 2000 * (exec - total) <= 2000 * MinQuantity + 3 * (exec + total)

\* Sell closes the position when its SELL rows have sold it out, and rewrites it
\* from the maker's copy in any case.
Close ==
    /\ Maker.pc = "close"
    /\ LET copy == Maker.copy IN
       BeginUpdate("maker",
                   IF IsSoldOut(copy.exec, sold[copy.id])
                   THEN [copy EXCEPT !.status = "closed"] ELSE copy,
                   "idle")
    /\ UNCHANGED <<stores, job, crashes, faults>>

\* The new row cannot be read back: Sell returns before the position is updated.
CloseFails ==
    /\ Maker.pc = "close"
    /\ RequestFails
    /\ Fail
    /\ UNCHANGED <<stores, crashes>>

-----------------------------------------------------------------------------
(***************************************************************************)
(* Swaps.  SwapExecutor.Execute works on the active action of a position;  *)
(* of its steps only the end is seen here.                                 *)
(***************************************************************************)
EndSwapMode ==
    BeginUpdate("maker", [Maker.copy EXCEPT !.swap = FALSE], "idle")

EndAction == swaps' = [swaps EXCEPT ![Maker.copy.id] = @ - 1]

ExecuteSwap ==
    /\ Maker.pc = "swapping"
    /\ \/ ~HasActive(Maker.copy) /\ EndSwapMode /\ UNCHANGED <<swaps, faults>>
       \/ HasActive(Maker.copy) /\ Finish("maker") /\ UNCHANGED <<swaps, faults>>
       \/ HasActive(Maker.copy) /\ EndAction /\ EndSwapMode /\ UNCHANGED faults
       \/ HasActive(Maker.copy) /\ EndAction /\ Finish("maker") /\ UNCHANGED faults
       \/ HasActive(Maker.copy) /\ RequestFails /\ EndSwapMode /\ UNCHANGED swaps
    /\ UNCHANGED <<orders, rows, position, bought, sold, orderCache, openedCache,
                   job, crashes>>

Swappers == {"maker"} \cup Pollers

\* MakeSwap looks for an active action of the position; it is given up when there
\* is one, when the balance is not known or no chain is worth it.
MakeSwap(a) ==
    /\ agent[a].pc = "makeSwap"
    /\ \/ Finish(a)
       \/ ~HasActive(agent[a].copy) /\ Continue(a, "createSwap")
    /\ UNCHANGED <<stores, job, crashes, faults>>

CreateSwap(a) ==
    /\ agent[a].pc = "createSwap"
    /\ swaps' = [swaps EXCEPT ![agent[a].copy.id] = @ + 1]
    /\ BeginUpdate(a, [agent[a].copy EXCEPT !.swap = TRUE], "idle")
    /\ UNCHANGED <<orders, rows, position, bought, sold, orderCache, openedCache,
                   job, crashes, faults>>

CreateSwapFails(a) ==
    /\ agent[a].pc = "createSwap"
    /\ RequestFails
    /\ Finish(a)
    /\ UNCHANGED <<stores, job, crashes>>

-----------------------------------------------------------------------------
(***************************************************************************)
(* UpdateExtraChargeAction: the handler reads the row and refuses a closed *)
(* position; an opened one it writes back with the new options.            *)
(***************************************************************************)
Edit(c) ==
    /\ agent[c].pc = "idle"
    /\ \E p \in OpenedPositions : BeginUpdate(c, CopyOf(p), "idle")
    /\ UNCHANGED <<stores, job, crashes, faults>>

(***************************************************************************)
(* The process dies and main starts it anew: the stores persist, and the   *)
(* live orders the exchange lists are cached, unless the request fails.    *)
(***************************************************************************)
Crash ==
    /\ crashes < MaxCrashes
    /\ crashes' = crashes + 1
    /\ agent' = [a \in Agents |->
                    IF a = "maker" THEN [IdleAgent EXCEPT !.pc = "boot"] ELSE IdleAgent]
    /\ job' = NoJob
    /\ UNCHANGED <<stores, faults>>

Boot ==
    /\ Maker.pc = "boot"
    /\ \/ /\ \E found \in [Sides -> OrderIds \cup {None}] :
                /\ \A side \in Sides :
                      found[side] \in IF LiveOrders(side) = {} THEN {None}
                                     ELSE LiveOrders(side)
                /\ orderCache' = [side \in Sides |->
                      IF found[side] = None THEN orderCache[side]
                      ELSE [id |-> found[side], seen |-> orders[found[side]]]]
          /\ UNCHANGED faults
       \/ RequestFails /\ UNCHANGED orderCache
    /\ Finish("maker")
    /\ UNCHANGED <<orders, rows, position, bought, sold, swaps, openedCache,
                   job, crashes>>

-----------------------------------------------------------------------------
MakerStep ==
    \/ LoadCached("maker") \/ Select("maker")
    \/ SelectFails("maker") \/ Fill("maker")
    \/ DeleteCache("maker") \/ Write("maker") \/ WriteFails("maker")
    \/ Decide \/ SellQuantity \/ RefuseExtra \/ FindCached \/ FindOpened
    \/ Place \/ Refuse \/ CachePlaced \/ Try
    \/ WaitQuery \/ WaitOk \/ WaitError \/ WaitGivesUp \/ WaitAgain
    \/ SaveBuy \/ SaveBuyExtra \/ SaveSell \/ SaveDuplicate \/ SaveFails
    \/ UpdateCommission \/ CleanUp \/ Close \/ CloseFails
    \/ ExecuteSwap \/ MakeSwap("maker") \/ CreateSwap("maker")
    \/ CreateSwapFails("maker") \/ Boot

PollerStep(w) ==
    \/ PollerReads(w) \/ MakeSwap(w) \/ CreateSwap(w) \/ CreateSwapFails(w)
    \/ DeleteCache(w) \/ Write(w) \/ WriteFails(w)

ReaderStep(r) ==
    \/ LoadCached(r) \/ Select(r) \/ SelectFails(r) \/ Fill(r)

ClerkStep(c) == Edit(c) \/ DeleteCache(c) \/ Write(c) \/ WriteFails(c)

Next ==
    \/ \E o \in OrderIds : Exchange(o)
    \/ MakerStep
    \/ \E w \in Pollers : PollerStep(w)
    \/ \E r \in Readers : ReaderStep(r)
    \/ \E c \in Clerks : ClerkStep(c)
    \/ Crash

\* The maker's goroutine is scheduled; nothing is asked of anybody else.
Spec == Init /\ [][Next]_vars /\ WF_vars(MakerStep)

-----------------------------------------------------------------------------
(***************************************************************************)
(* Properties.                                                             *)
(***************************************************************************)
AgentStates ==
    [pc : {"boot", "idle", "select", "fill", "delete", "write", "decide",
           "quantity", "find", "placed", "try", "wait", "save", "commission",
           "cleanup", "close", "swapping", "armed", "makeSwap", "createSwap"},
     copy : Copies \cup {None},
     draft : Copies \cup {None},
     then : {"idle", "find", "cleanup"}]

Jobs == [op : {"none", "Buy", "BuyExtra", "Sell"},
         id : OrderIds \cup {None},
         seen : ExchangeOrders \cup {None}]

\* Type correctness; in particular, no swap action is ended twice, so that none of the
\* counts falls below zero (ExecuteSwap).
TypeOK ==
    /\ orders \in [OrderIds -> ExchangeOrders \cup {None}]
    /\ rows \in [OrderIds -> Nat]
    /\ position \in [PositionIds -> PositionRows]
    /\ bought \in [PositionIds -> Nat]
    /\ sold \in [PositionIds -> Nat]
    /\ swaps \in [PositionIds -> Nat]
    /\ orderCache \in [Sides -> CacheEntries]
    /\ openedCache \in Copies \cup {None}
    /\ agent \in [Agents -> AgentStates]
    /\ job \in Jobs
    /\ crashes \in 0..MaxCrashes
    /\ faults \in 0..MaxFaults

\* What is saved of an order is what it executed in the end: the maker never
\* saves an order that can still trade, nor from a copy that is not final, be it
\* cached before a crash or answered by a wait (tryLimitOrder, Create).
RowsAreFinal ==
    \A o \in OrderIds :
        rows[o] > 0 => /\ orders[o] # None
                       /\ IsSettled(orders[o])
                       /\ rows[o] = orders[o].executed

\* Whole-row updates from stale copies may lose what an extra order bought, but
\* they never invent it: the position never has more than its BUY rows sum up to.
NeverOvercounted == \A p \in PositionIds : position[p].exec <= bought[p]

\* An order that executed something is saved, or the bot can still find it: it is
\* live, in the maker's hands or cached.
Forgotten(o) ==
    /\ orders[o] # None
    /\ IsSettled(orders[o])
    /\ HasExecutedQuantity(orders[o])
    /\ rows[o] = 0
    /\ job.id # o
    /\ orderCache[orders[o].side] = None \/ orderCache[orders[o].side].id # o

\* No step forgets an execution but a crash or a failed request, and each of them
\* forgets at most one: the Redis copy covers the wait (SetBinanceOrder in
\* findOrCreateOrder, DeleteBinanceOrder after the save).
LossesBounded ==
    Cardinality({ o \in OrderIds : Forgotten(o) }) <= crashes + faults

\* Unless a request failed, the bot never has two live orders on one side, also
\* when a crash separates the order from its Redis copy (findBinanceOrder, main).
OneLiveOrderPerSide ==
    faults = 0 =>
        \A side \in Sides :
            Cardinality({ o \in OrderIds : /\ orders[o] # None
                                           /\ orders[o].side = side
                                           /\ IsLive(orders[o]) }) <= 1

\* A symbol has one opened position: MakerService buys only when
\* GetOpenedOrderCached finds none.
OneOpenedPosition == Cardinality(OpenedPositions) <= 1

\* "Can not update closed order": a closed position is never opened again.
ClosedStaysClosed ==
    [][\A p \in PositionIds :
         position[p].status = "closed" => position'[p].status = "closed"]_vars

\* "User can have own asset which bot is not allowed to sell!": a position's SELL
\* orders never sum up to more than was bought for it.
SoldWithinBought == \A p \in PositionIds : sold[p] <= bought[p]

\* Between two operations the cached position is the row, sold quantity included,
\* and the row has all its orders bought.
CacheIsCurrent ==
    Maker.pc = "idle" =>
        /\ openedCache # None => openedCache = CopyOf(openedCache.id)
        /\ \A p \in PositionIds : position[p].exec = bought[p]

\* An order of the maker that executed something reaches the database.
ExecutedIsSaved ==
    \A o \in OrderIds :
        (/\ job.id = o
         /\ IsSettled(orders[o])
         /\ HasExecutedQuantity(orders[o])) ~> rows[o] > 0

\* The check for an active action and its insertion are two steps, so the maker and
\* every poller it left behind may each start a swap of the position.  But the
\* actions do not pile up: those that are active and those about to be created are
\* never more than the goroutines that can be between the two steps at a time,
\* however many came by before.
PendingSwaps(p) ==
    { a \in Swappers : agent[a].pc = "createSwap" /\ agent[a].copy.id = p }

SwapsBounded ==
    \A p \in PositionIds :
        swaps[p] + Cardinality(PendingSwaps(p)) <= Cardinality(Swappers)

\* "Swap has already exists": a position has at most one active swap action.
OneActiveSwap == \A p \in PositionIds : swaps[p] <= 1
=============================================================================
