# go-crypto-bot in TLA+

A verification project for the trading bot in `src/`: TLA+ modules of its core,
TLC configurations that check them, and TLAPS proofs. File names below are
relative to the repository; line numbers are those of the modelled commit.

- [The system](#the-system): components, state, interactions, what is hard
- [The modules](#the-modules): what each models and how it maps to the code
- [The runs](#the-runs): what each shows, bounds, fairness
- [Further configurations](#further-configurations)
- [Disagreements with the code](#disagreements-with-the-code)
- [The proofs](#the-proofs)
- [What is not modelled](#what-is-not-modelled)
- [The plan](#the-plan)

## The system

The bot trades symbols quoted in USDT on Binance. For each symbol a goroutine of
`main.go` calls `MakerService.Make` every half second; `Make` adds up the scores
of the strategies and then buys, buys more (an *extra charge*), sells or waits.
An operation is one limit order, and the goroutine stays with it, often for
hours, until the order has ended. A position that loses for long may be *swapped*
through a chain of three orders instead of being sold.

Three stores hold the state, and no transaction spans two of them:

| store | what it holds | written by |
|---|---|---|
| Binance | the limit orders | `LimitOrder`, `CancelOrder`, the market |
| MySQL | `orders` (BUY positions, extra BUY and SELL rows), `swap_action`, `swap_chain`, `trade_limit`, ... | `Create`, whole-row `Update`, the swap repository |
| Redis | the exchange order of each side, the opened position (60 minutes), manual orders, buy locks, prices, decisions, swap chains | everybody |

### Components

| component | state it keeps | operations | correct when |
|---|---|---|---|
| `OrderExecutor` (service/order_executor.go) | cancel requests, the trade lock, and whatever its goroutines hold on their stacks | `Buy` 178, `BuyExtra` 39, `Sell` 274, `tryLimitOrder` 450, `waitExecution` 482, `MakeSwap` 998, `TrySwap` 421, commissions 1050/1156, locks 1076, cancel requests 1229 | an order is placed once, waited for until it can trade no more, and booked once with what it executed; no goroutine stays behind |
| `MakerService` (service/maker_service.go) | none | `Make` 26, `UpdateSwapPairs` 290, `UpdateLimits` 374 | one position per symbol, bought before it is sold |
| `OrderRepository` (repository/order_repository.go) | MySQL `orders`; Redis copies | `GetOpenedOrderCached` 54, `Create` 142, `Update` 193, `Set/Get/DeleteBinanceOrder` 495, manual orders 531, buy lock 564 | the cached position is the row |
| `SwapExecutor` (service/swap_executor.go) | the `swap_action` it works on | `Execute` 27 with three legs, `TryRollbackSwapTwo` 594, `TryForceSwapThree` 704 | every leg is ordered once, the action ends, its position leaves the swap mode |
| `SwapRepository` | MySQL chains, pairs, actions | `CreateSwapAction` 628, `UpdateSwapAction` 692, `GetActiveSwapAction` 756 | at most one active action per position |
| `SwapManager`, `SwapChainBuilder`, `SwapUpdater`, the SBB, SBS and SSB finders, `SwapValidator` | none; tables `swap_pair` and `swap_chain`, Redis `swap-chain-<asset>` | update a pair's price, search the best chain of each kind, save it, validate its legs | a chain leads back to its asset and is offered only while it pays; one that pays is tried |
| `OrderController` and the other controllers | none | edit a position 152, manual order 315, settings | a request never undoes the maker's work, and is obeyed while it makes sense |
| `Binance` (client/binance_client.go) | one WebSocket, reply channel, wait mode | `socketRequest` 105, `QueryOrder` 145, `CancelOrder` 174, `GetOpenedOrders` 254, `LimitOrder` 460 | every request gets its own answer |
| trade lock (config/container.go 298) | map symbol -> locked | a goroutine copies lock messages into the map | an operation excludes another of its symbol |
| `TradeStack` | none | who may buy with the balance at hand | the budget is not promised twice |
| `ExchangeRepository` | prices, k-lines, decisions in memory and Redis | add, expire, read | no decision outlives its prices |
| `PriceCalculator`, `Formatter`, `LossSecurity`, `model.Order` | none | prices, quantities, thresholds, budgets | rounding never passes a limit |
| strategies, ML, charts, frames, health | various | scores and presentation | |

### How they interact, and what is hard

- `waitExecution` is **two goroutines** on one order: a poller that finds reasons
  to look at the order or to cancel it, and the maker's goroutine that talks to
  the exchange. They meet on two unbuffered channels that are closed when the
  call returns; a refused cancel starts the call again inside itself.
- The maker's **copies are old**: a position is read before a wait of hours and
  written back, the whole row, after it. HTTP handlers and the poller of a SELL
  order write the same row. Many readers share the position's cache.
- **A crash** may fall between any two requests; the process is started again
  and finds orders through Redis and `GetOpenedOrders`.
- **Requests fail**, and errors are often taken for "there is none".
- The poller of a SELL order may **turn to a swap** when it is told to stop.
- **One socket carries every request.** Goroutines that wait for an answer take
  the next message, whoever it is for, and offer it to the others on the channel
  they read from.
- **Users** post manual orders and requests to cancel through the HTTP server while
  the maker decides, waits and books; what a handler has checked may have changed
  when the maker obeys.
- **Prices move** between the search for a swap, its validation and its three
  legs; chains, prices and the cached chain expire at different ages.

`PROJECT.json` lists these hazards one by one, with the lines where they bite
and the properties that catch them.

## The modules

| module | models |
|---|---|
| `ExchangeOrder` | an order as the exchange reports it (model/binance_order.go), and how it may go on |
| `OrderOutcome` | what `tryLimitOrder` promises its callers: an abstract specification |
| `WaitExecution` | `tryLimitOrder` and `waitExecution`, both goroutines, in full |
| `WaitExecutionProofs` | its inductive invariant, its theorems, the refinement |
| `TradeLedger` | everything around: from decision to booked order, over the three stores, with crashes and other actors; it uses the promise of `OrderOutcome` for the wait |
| `MCTradeLedger` | instances of `TradeLedger` for TLC (symmetry) |
| `TradeLedgerProofs`, `TradeLedgerOrderProofs`, `TradeLedgerPositionProofs` | its invariants and theorems, in three layers: what every goroutine holds, the orders, the positions |
| `SwapExecution` | `SwapExecutor.Execute`: three legs, rollback, forced third leg, with crashes and failures |
| `SwapExecutionProofs` | its inductive invariant and theorems |
| `SwapSearch` | the price table, the search for chains, the validation and `TrySwap` |
| `MCSwapSearch` | an instance with one chain of each kind |
| `SwapSearchProofs` | its inductive invariant and theorems |
| `UserRequests` | manual orders, requests to cancel and the trade lock beside the maker |
| `UserRequestsProofs` | its inductive invariant and theorems |
| `SocketClient` | `client.Binance`: the connection, its reader and writers, the waiting goroutines, every request method |
| `MCSocketClient` | instances that say who calls what |
| `SocketClientProofs` | its invariants and theorems |

`TradeLedger`, `SwapExecution` and `WaitExecution` share the orders of
`ExchangeOrder`. `TradeLedger` composes the rest by promises: the wait is what
`OrderOutcome` allows, a swap is an action that ends one way or another, a manual
order is one of the reasons of `Decide`. `UserRequests` opens up the last of these,
`SwapSearch` and `SwapExecution` the one before.

### ExchangeOrder

An order is a record of side, status and executed quantity in lots. `WellFormed`
ties status to quantity (NEW: nothing, FILLED: all, PARTIALLY_FILLED: between).
A live order may `Progress`: it executes more, or is cancelled, or expires; a
settled one stays. This is the exchange's part of the contract, outside `src/`.
EXPIRED and EXPIRED_IN_MATCH are one status because `IsExpired` tells nobody
which.

### WaitExecution

| TLA+ | code |
|---|---|
| `order` | the order at the exchange |
| `held` | the variable `binanceOrder` both goroutines share by pointer |
| `cached` | Redis `binance-order-<symbol>-<side>` |
| `cancelRequest` | `CancelRequestMap[symbol]` |
| `waiter` | program counter, nesting depth and result of the maker's goroutine |
| `poller[d]`, `open[d]` | the goroutine and the channels of the d-th nested call |
| `timer` | the poller's `timer`, in rounds of 30 |

The poller's round is a sequence of stages, in the code's order: settled order
(`Top`), swap, risk, cancel request (`User`), profit, extra charge, timer or
manual order or tick (`Timer`), time to live (`Ttl`). At each stage the state it
reads from the order is kept, the condition on prices, budgets or clocks is a
choice. A signal is a rendezvous (`Receive`), so is an answer (`Reply`). `Resume`
says where the poller goes on after "continue" and what it does about the order
it now sees; `Stop` what it does after "stop". A receive from the closed channel
yields "" at once (`ReceiveClosed`), a send on it panics (`SendClosed`), which
ends the process (`Panicked`). `Query`, `Cancel` and `Recover` are the requests
of the waiter with each of their outcomes; `Return` is the deferred calls of one
nesting level. Since every access to `binanceOrder` is ordered by a rendezvous
there is no data race to model.

Not kept: `seconds`, the ttl, because every comparison with it may go either way
(a condition on clocks); the sleeps; the log lines. `kline.Close` at line 672
would fault when no price was ever stored; Make has checked for one before.

### TradeLedger

| TLA+ | code |
|---|---|
| `orders` | the exchange |
| `rows` | `orders.external_id` and its executed quantity; the unique key `order_external_id_symbol` (migrations/migration_10.sql:13) is the guard of `Insert` |
| `position`, `bought`, `sold` | a BUY row; the sums of its own and its extra BUY rows, and of its SELL rows |
| `swaps` | active rows of `swap_action` for each position |
| `orderCache`, `openedCache` | Redis: the exchange order of each side, the opened position with its sold quantity |
| `agent` | for the maker, its pollers (of the current wait and of those before), handlers and readers: where they are and the copies they hold |
| `job` | the operation the maker is busy with, its order and the last answer about it |

Each request to a store is a step of its own, in the code's order, and a crash
may fall between any two. `OrderRepository.Update` is two steps, `DeleteCache`
and `Write`, shared by all who call it. `Decide` is `Make` with the scores left
open. `Place` is `LimitOrder` with an answer that may be filled already.
`WaitQuery`, `WaitOk`, `WaitError`, `WaitGivesUp` and `WaitAgain` are what
`WaitExecution` shows the caller: settled with the executed quantity, or an
error, which only a failed request makes unfounded. `PollerReads` and `PollerStep`
keep the one effect the poller has on other stores, the swap it may start: the poller
of a NEW SELL order holds a position ("armed"), and when the wait ends or begins again
it may go on to `MakeSwap` while the next wait has a poller of its own. The set
`Pollers` says how many of them there may be at once; the code sets no limit. `Edit` is `UpdateExtraChargeAction`; a reader is any other caller of
`GetOpenedOrderCached`. `ExecuteSwap` shows of a swap's execution only how it ends.

Quantities are lots of the exchange's step size, 0.15% fees are kept exact by
scaling (`IsSoldOut`). Prices, budgets and balances are choices.

### SwapExecution

| TLA+ | code |
|---|---|
| `orders`, `free` | the swap's orders at the exchange and the account's free balances of the chain's three assets, numbered 0, 1, 2 |
| `row` | the `swap_action` row: status and the external id of each leg |
| `position` | `orders.swap` of the position: in swap mode |
| `exec` | `Execute`: where it is, its copy of the action, the last answer about each leg's order (`held`), the balance it read, its attempts |

One lot of each asset trades for one lot of the next, so that a quantity can be
followed around the cycle; the three chain types differ only in which side each
order is on, and each moves the assets the same way. `PlaceLeg`, `LegRefused`,
`ResumeLeg`, `Watch`, `Judge` and `LegDone` are the common body of
`ExecuteSwapOne`, `Two` and `Three`, with the differences between them in the guards
(a refused or dead first leg cancels the action, a dead later leg forgets its id, the
third may be called nearly filled). `PlaceLeg` may order less than it should where the
code ignores an error: a balance that is not known counts as 0 and the minimum is
ordered, a swap pair that is not found has no step and what is not whole is cut off. `Save` is every `UpdateSwapAction`, a step of its
own whose error is ignored. `CancelOne`, `Consider`, `CancelLeg`, `ReadBalance`,
`TryRollback`, `TryForce` and `SaveOrPanic` are what happens to a leg that stays NEW:
the balance is read before the cancel in the rollback and after it in the forced leg,
as in the code. Whether either is worth it (100.75% of StartQuantity, 650 and 786) is
the price's choice, also for a quantity that the balance has cut. `Crash` may fall
anywhere; `Begin` starts from the row again.

Choices: prices, percentages, waits and `IsNearlyFilled`. Any request may fail while
`faults` is below its bound; a failed balance counts as 0.

### SwapSearch

Prices and amounts are logarithms in ticks: a sale adds its price, a purchase takes it
off, a fee takes off a constant. The comparisons of the code, all between products, become
comparisons of sums, and stay exact; the percent of a chain is rounded to its last digit
(`ToFixed`, formatter.go:62). Times are ages; only the order of the limits (20,
30, 60 seconds) counts.

`UpdateSwapPairs` is what the master bot does at start, `UpdateSwapPair` the price
stream's goroutine, which starts a search when a chain is cached. `Find`,
`ReadChain`, `UpdateSwapTransition` (three times, for a row that was found), `SaveRow` or
`LoseRow`, and `SaveSwapChainCache` are one goroutine's search, kind by kind. The
statements of `UpdateSwapChain` go to a pool of 64 connections one at a time, START
TRANSACTION and COMMIT to whichever is free, so that each is a step of its own, between
any two of which another search, the trader or a failure may come: the transitions of
two searches mix, and the percent may be that of neither. The unique hash makes a second
insert fail. `ChainsOf` translates the three
finders with their queries, a finder's queries being one step. `TrySwap`,
`InvalidateSwapChainCache`, `NextRow`, `ValidateSwap` (one leg at a time) and `MakeSwap`
are the trader. `IsBuy` and `IsSell` are as in the code, wrong field included.

### UserRequests

| TLA+ | code |
|---|---|
| `position`, `order`, `copy` | the price of the opened position, the maker's order and the status of its Redis copy |
| `manual` | Redis `manual-order-<symbol>` |
| `cancelRequest` | `CancelRequestMap[symbol]` |
| `locked`, `lockMsg` | `Lock[symbol]` of container.go, and the message the lock's goroutine has received and not yet written |
| `poster`, `editor` | `PostManualOrderAction` and `UpdateExtraChargeAction` between their requests |
| `maker` | `Make`, `Buy`, `BuyExtra`, `Sell` and the wait, with the manual order and position it has read |

The two goroutines of the wait are one process here (`WaitExecution` shows what they
do to each other): a turn goes from "poll" (cancel request) over "own" (its own
reasons) to "last" (manual order, or the status query of the timer). `Create`,
`DeleteManualOrder` and `Update` book an executed order in the code's order. The lock is
a channel without a buffer: `Send` is received at once, `SetLock` writes the map
later. The cache of the opened position is left to `TradeLedger`; the trade limit is
enabled and there is no swap.

### SocketClient

| TLA+ | code |
|---|---|
| `call[c]` | the goroutine that called a method of `Binance` |
| `waiter[c]` | the goroutine `socketRequest` started for it |
| `reader`, `writing`, `writers` | the goroutines `Connect` starts; each reconnection adds a writer |
| `recvq`, `sendq` | the goroutines blocked on `b.Channel`, first come first served, as Go's runtime does |
| `inflight`, `wire`, `alive` | the network |
| `waitMode`, `connected` | fields of `Binance` |
| `history` | the k-lines kept in Redis for a minute |

Every method that sends a request is an action (`QueryOrder`, `LimitOrder`, ...); they
share `Request`. A hand-over on the unbuffered channel is one step of the second to
arrive. `BeginWait` and `EndWait` are the minute's pause after a refusal for weight,
after which the goroutine sends its *own* request again. `Drop` loses what is under
way; `ReadFails` and `Connect` are the reconnection. The call's id stands for its
request and answer; contents and signatures are left out.

## The runs

Each run ends within five minutes on two workers. Deadlock is checked except in the runs
of `SocketClient`, where finished calls and goroutines blocked for ever leave nothing to
do; in the others only an ended call or swap (`Terminated`) may stay as it is.

| run | shows |
|---|---|
| `WaitExecution` | two lots, two failing requests, two nested calls: types; a success is settled and exact (`SuccessIsFinal`); an error forgets nothing unless a request failed (`ErrorForgetsNothing`); nested pollers exclude each other (`OnePollerPerOrder`); the Redis copy ends with the call (`CacheEndsWithTheCall`); a settled order ends the call (`CallEnds`); no goroutine outlives it (`PollersEnd`); the call refines `OrderOutcome` (`KeepsThePromise`) |
| `LedgerAlone` | the maker alone, four orders, two positions: one opened position, never sold more than bought, cache and rows agree between operations, a closed position stays closed |
| `LedgerFaults` | two orders, swaps, a reader of the cache, a crash at any step and one failing request: rows are final; each crash or failure forgets at most one execution; no two live orders on one side unless a request failed; no action ends twice, and there are no more active ones than goroutines that may prepare one, the maker and two pollers |
| `LedgerConcurrent` | maker, poller left behind and handler at once: a position never has more than was bought for it (`NeverOvercounted`), and every execution of an order in the maker's hands reaches the database (`ExecutedIsSaved`, liveness) |
| `SwapSafe` | a swap of two lots, one cancelled order, five failing requests, a crash anywhere, two attempts: legs in order, one live order and each leg traded once but for what a crash or failure forgets, swap mode covers the action, a success without faults is complete but for a rollback that was cut, an ended action rests, and a swap whose orders settle ends unless a filled leg was forgotten |
| `SwapSearch` | two searching goroutines that write the same rows statement by statement, moving and expiring prices, the trader: every saved chain is a cycle of three trades whose percent is the threshold at least (`ChainsAreCycles`); the greatest percent covers the current one (`MaxCoversPercent`); a swap is made of a row that says the required percent and, where the price did not move, within the book (`SwapKeepsMargins`); a chain that stays worth a swap is tried again and again (`WorthIsTried`) |
| `UserRequests` | a manual order and two requests to cancel at any step of the maker: no sale below what the position must bring, one cancel per request, a manual sale is placed unless it loses its sense |
| `SocketAnswers` | two calls of any methods, one refusal, one error, one lost connection: no answer lost or doubled between the goroutines, queues and wait mode consistent, the wait mode ends, a call is answered unless the answers crossed |
| `LedgerReader`, `SocketCrossed`, `SwapStalePrice`, `ManualExtra` | the four disagreements below; each checks one property, and TLC shows how it is violated |

**Bounds.** `Qty` = 2 lots is the least with a partly executed order. Two nested
calls show an inner call next to a stopped outer one; a third adds nothing new,
as the proofs confirm for every depth. `TimerLimit` = 1 poll makes both branches
of the timer happen. Two failures allow a failed cancel followed by a failed
query. Four orders are a BUY, an extra BUY and two SELLs, so that a grown position is
sold in two parts; two orders are enough to lose one between two requests. Two positions
let a second one be opened after the first. One crash and one failure are enough for
every pair of requests to be torn apart; the properties count them, so that more of them
allow more losses. Two pollers let one that was left behind meet the poller of a
later wait and the maker's own swap, which gives three active actions.

`SwapSafe`: one lot of the other assets besides pays for a part of a leg that is ordered
again, which makes double orders possible, and no more, so that a balance can be short,
cut a rollback and refuse a forgotten leg; five failures are what it takes to forget a
live order; two attempts are one that fails and one that succeeds; one
cancel is either an order that dies or a leg given up, and the proofs cover any number.
`SocketAnswers`: with two calls answers cross in every order; a third call adds longer
detours only. `SwapSearch`: two ticks take a price and a chain past their first limit and
the cached chain past its time to live; rows left by an earlier run start at age 1, so
that an old price is searched with once more. Time stops after `MaxTicks`; the liveness
is about what is fresh then. `UserRequests`: with four prices a sale may be
above, at and below both minimums, at margins of 1 and 2; one post meets every step of the
maker, two requests follow each other.

**Fairness.** `WaitExecution` asks weak fairness of each goroutine: the Go
scheduler runs a goroutine that can run, and the sleeps end. A waiter that sent a
request gets an answer or an error sooner or later; that the WebSocket client may
lose it is `SocketClient`'s subject. `TradeLedger` asks weak fairness of the maker's
goroutine, `SwapExecution` of `Execute`; nothing is asked of the exchange there: an order
may stay live for ever, and a crash need not happen. `SocketClient` asks it of every goroutine and of
an exchange that answers what reaches it. `SwapSearch` asks it of the goroutine of
`main` that searches in a loop and of the trader, not of the price stream. `UserRequests`
asks weak fairness of the maker and of the lock's goroutine, and strong fairness of
`CheckManualOrder`: a turn of the poller leaves it out only for the timer's query,
every thousandth turn (order_executor.go 662-786). That `Make` is called again and again
rests on price streams that bring decisions.

## Further configurations

These are kept beside the runs and are checked with `tlc -config <name>.cfg <module>`.
In each TLC finds the property violated; it is one the code or its texts suggest.

| configuration | module | property | what happens |
|---|---|---|---|
| `WaitExpiry` | `WaitExecution` | `ExpiryIsAnError` | an expired order is to be an ordinary error (tests/order_executor_test.go:592). Line 851 returns without answering the poller; it reads "" from the closed channel, finds the order expired and signals on the closed channel, which ends the process |
| `WaitSwap` | `WaitExecution` | `SwapExcludesSell` | after a refused cancel the poller is told "stop" whatever the order's status (904), takes it for leave to call `MakeSwap` (586), and a filled SELL order is swapped |
| `LedgerClerk` | `MCTradeLedger` | `ClosedStaysClosed` | the handler reads an opened row, `Sell` closes it, the handler writes the whole row back (order_controller.go:207) |
| `LedgerTwoSwaps` | `MCTradeLedger` | `OneActiveSwap` | check and creation of an action are two requests (order_executor.go:1005); the maker and a poller left behind both pass the check |
| `LedgerMinimum` | `MCTradeLedger` | `SoldWithinBought` | a BUY order executed one lot and expired; two lots are the least quantity of the symbol, so `FormatQuantity` raises the sale to two (formatter.go:29), and the bot sells what it did not buy: "User can have own asset which bot is not allowed to sell!" (order_executor.go:991) |
| `SwapSpends` | `SwapExecution` | `OwnAssetsUntouched` | a leg placed again, or rolled back, offers all that the leg before earned, not what is left of it, and spends what the account held of the asset (swap_executor.go:264, 640) |
| `SwapNearly` | `SwapExecution` | `SuccessIsSettled` | a nearly filled third leg ends the swap with success and its order live: "check it later" (582) has no code |
| `SwapCancels` | `SwapExecution` | `CanceledTradedNothing` | a first leg that executed a part is cancelled, or found cancelled, and the whole action ends as if nothing had been traded (224) |
| `SocketLost` | `MCSocketClient` | `HealthyAnswers` | a call whose request or answer went with the old connection waits for ever (binance_client.go:162) |
| `SocketTwice` | `MCSocketClient` | `RetriesTheRefused` | the goroutine that takes a refusal for weight sends its own request again, which the exchange may have accepted: an order is placed twice (112) |
| `SocketKLines` | `MCSocketClient` | `CachedHistoryHasItsLength` | the empty list of a failed request is kept for a minute; "Wrong length" is logged but never compared (362) |

## Disagreements with the code

The first four are runs that TLC refutes, quoted in `PROJECT.json`:

1. **A position is sold twice** (`LedgerReader`). A reader caches a position
   it read before the sale was booked, after `Update` dropped the cache.
2. **Answers cross** (`SocketCrossed`). Two goroutines receive each other's answers
   and both offer them on the channel they should receive from; the client is blocked
   and reported healthy until another call comes.
3. **A swap is made at a worse price** (`SwapStalePrice`). `IsBuy` and `IsSell` compare
   the chain's type with "BUY" and "SELL", so that the validator never looks at a price.
4. **A manual purchase becomes an extra one** (`ManualExtra`). It is accepted without a
   position, the maker buys meanwhile, and the next extra charge is bought at the user's
   price.

The [further configurations](#further-configurations) show eleven more. Others were seen
while modelling and have no configuration of their own:

- A failed query for the opened position counts as "none" (maker_service.go:69), and a
  second position is bought: `OneOpenedPosition` holds in `LedgerAlone`, not with the
  failures of `LedgerFaults`.
- A request to cancel stays in the map when no order waits and cancels the next one; made
  on a partly filled order it is dropped (order_executor.go 1229-1241).
- A manual sale whose position is gone keeps the maker from buying for up to a day, and a
  manual purchase keeps it from selling (maker_service.go 94-102).
- `UpdateSwapPair` takes the last of a list of k-lines that may be empty
  (swap_updater.go:20) and panics.
- A swap's leg may be forgotten for good (swap_executor.go 319, 464): the leg is
  filled, the save of its id fails, and the next leg's order fails before another save; the
  next Execute orders the leg again with a balance that is no longer there and is
  refused for ever, with the position in swap mode. `SettledSwapEnds` names and excepts
  it (`LegForgotten`); two failing requests reach it.
- A rollback reads the balance while leg two still locks it (621, 627): what it sells may
  be a part of what leg one earned, if the price has fallen enough for the part to pay.
- The row of a chain may say a percent that its transitions do not bring: two searches
  write them statement by statement (swap_repository.go 531-567).
- The minute's pause of two refused requests ends with the first (binance_client.go:124).

What still holds with those actors is in the passing runs: with a handler and a poller
left behind a position is never overcounted, there are no more active swap actions than
goroutines on their way to one, and no answer is lost between goroutines even when answers cross.

## The proofs

Each of the six state machines has theorems, for every value of its constants that its
named assumption allows; the runs show the same properties on small instances. The
assumptions are typing (quantities and bounds are numbers, `None` is no order and no
position), with two more: the symbols of `SwapSearch` are pairs of different assets
(`SearchAssumption`), and the calls of `SocketClient` are finitely many
(`SocketAssumption`). No proof uses fairness. None of the stated invariants is inductive;
each proof says what has to be carried along.

Where a component has many actions and several invariants, its proof first abstracts a
step: a lemma sorts the actions into a few kinds, each a formula about the variables the
invariants speak of (`OrderStep`, `PositionStep`, `AloneStep` of `TradeLedger`, `LegStep`
of `SwapExecution`, `Step` of `SocketClient`); each invariant is then proved once per
kind instead of once per action.

### WaitExecution

Proved in `WaitExecutionProofs` (`QtyAssumption`, `BoundsAssumption`):

- `TypeCorrect`, `SuccessCorrect`, `ErrorCorrect`, `PollerAlone`, `CacheCorrect`:
  the five safety invariants of the run `WaitExecution`;
- `KeepsThePromiseSafely`: the initial states and steps of `WaitExecution` are
  initial states and steps (or stutters) of `OrderOutcome`, under the refinement
  mapping that decides the outcome when the waiter starts to return.

The argument is one inductive invariant, `IInv`. The stated properties speak of
the call's end; to carry them there `IInv` adds
that the shared copy is the order now or earlier (`CopyIsOld`), that a result is
chosen exactly on the way out and is final when it is chosen (`ResultIsFinal`),
that calls not yet made have no poller (`NoneBeforeItsCall`) and only one poller
is in its loop (`OneActive`), that a poller waiting for the answer to a cancel is
answered "stop" and nothing else (`CancelIsAnswered`: the CASE of `Resume` has no
branch for it), and where the timer may be at its limit (`TimerInRange`). There
is one lemma per action of the waiter; the poller's actions share `PollInv` and
`PollerMovesInv`. `StepKeeps` then shows the refinement: the exchange's step and
the bot's cancel are `Exchange`, a step that decides is `Conclude` or `GiveUp`, a
failed request is `Fault`, all others are stutters.

### TradeLedger

For any orders, positions, handlers and readers and any number of crashes and failures
(`QtyAssumption`, `LedgerAssumption`):

- `LedgerTypeOK`, in `TradeLedgerProofs`. `Control` adds what a goroutine holds at each
  point: a copy where it uses one (`AgentsHold`), an order where it works on one
  (`JobFits`), and orders the exchange knows (`OrdersExist`).
- `LedgerFollowed`, `LedgerRowsAreFinal`, `LedgerOneLiveOrder`, `LedgerLossesBounded`, in
  `TradeLedgerOrderProofs`. `Followed` is the point where crashes and the exchange's
  moves meet: the maker's answer about an order and the cached one are the order, or what
  it was while live, so a settled copy is final. The two counting invariants hold because
  a live order without an owner, or an executed order without a row, is made only
  by a step that counts a crash or a failure, one each.
- `LedgerNeverOvercounted` and `LedgerSwapsBounded`, in `TradeLedgerPositionProofs`. Any
  number of goroutines write whole rows from old copies. A copy's quantity comes from a
  copy somebody had or from a row (`CopiesFromStock`), and what was bought for a position
  never shrinks, so every copy and every row is backed (`CopiesBacked`). A goroutine goes on
  to create an action only after it found none, so that those between the check and the
  creation, the maker and any number of pollers, bound the actions there can be.

For the maker alone, without swaps, handlers and readers (the hypothesis `Undisturbed`,
which the run `LedgerAlone` instantiates; the runs and configurations with other actors
show that each of these fails with them):

- `LedgerClosedStaysClosed`, with any number of crashes and failing requests: what the
  maker or the cache takes for opened is opened, and a row is replaced only while it is
  (`KeepsOpened`);
- `LedgerOneOpenedPosition`, with any number of crashes, while no request fails: a
  purchase is under way only when there is no position (`BuysTheFirst`); a crash
  before it is saved leaves an order that the next start finds;
- `LedgerCacheIsCurrent` and `LedgerSoldWithinBought`, with neither crashes nor failures,
  as those properties say: cache and copies are the rows but for a few steps of `Update`
  (`KeepsCurrent`), the orders that left the maker's hands are settled and booked
  (`OthersDone`), and an order to sell is no greater than what remains of its position
  (`WithinRemaining`). The last needs `MinQuantity` = 1, that is, a least quantity of one
  step: the quantity of an order is raised to the minimum, so that otherwise a rest below
  it is sold with lots that were never bought. `LedgerMinimum` shows it.

### SwapExecution

Proved in `SwapExecutionProofs` for every quantity, spare balance, number of attempts,
cancels, failures and crashes (`QtyAssumption`, `SwapBoundsAssumption`):

- `SwapTypeCorrect`: types, and that no order is queried or cancelled under a nil id;
- `LegsInOrderCorrect`: no leg is ordered before the one before it was filled;
- `SwapModeCorrect`: an active action keeps its position in swap mode unless a request
  failed;
- `EndedActionCorrect`: an ended action is never written again and orders nothing;
- `LegTradedOnceCorrect`: a leg is filled again only once for each crash or failure;
- `OneLiveOrderCorrect`: one more live order takes a crash or five failed requests;
- `SuccessIsCompleteCorrect`: if nothing failed, no order died partly executed and no sale
  back was cut by the balance, a success has sold all that each leg earned and left the
  two other assets as they were.

For the first four, `Control` says where Execute may be with which leg and
action: it works on a leg's order only with an id (`HasOrder`), the ways out of a leg belong to that leg
(`LegOfPlace`), a leg is left for the next only with a copy that is filled
(`DoneIsFilled`), an action ends on the way out (`EndIsTheEnd`) and before its position
leaves the swap mode (`ModeFollowsAction`). `OrderFacts` relates it to the exchange: ids
name orders of their legs (`IdsNameLegs`), a copy that says FILLED is right
(`CopyIsRight`), the legs behind were filled (`LegsBehind`), and so was the leg before
every order's (`InOrder`). What carries these over the exchange's steps is `Keeps`: orders
stay where they are, for the leg they are for, and a filled one stays filled. There is a
lemma per action; `GotoKeeps`, `SavesKeeps` and `LeaveKeeps` hold what they share.

The next two count. `LegInv` adds that an order Execute takes for dead is dead
(`DeadIsDead`), that the copy is ahead of the row in the current leg and nowhere after it
(`Chain`), and that every filled order but the remembered one, and every live one, is
paid for (`TradedOnce`, `FewLost`). The bound of five says which requests must fail before
an order is forgotten: every save of the third leg, of the action's end, and of the position.

The last one keeps accounts. `Books` says of an execution in which nothing failed: every
order that is not dead is named by the action, for its leg and the whole quantity
(`AllNamed`), and each of the three balances is what those orders took from it and brought
to it (`Balanced`). An order that works, one that is placed and one that dies at once each
change one way from asset to asset, and the balances follow (`WorksAccounted`,
`PlacesAccounted`, `TriesAccounted`, from `Shifted`). The balances in turn show that the
next leg can be ordered with the whole quantity (`LegIsWhole`). A success is written only
when its three legs, or the first leg and the order that sold back, have brought something
(`Complete`); once settled they have brought all. A cut rollback is left out by the
property, because the balance it reads is short of what leg two has locked. A forced leg
needs no such exception: its balance is read after the cancel, and covers what leg two
brought (`Covers`, kept by every step in `StepCovers`; `ForcedWhole`).

### SwapSearch

`SwapSearchProofs` shows, for any symbols, prices, fee, thresholds and number of
searching goroutines: `SearchChainsAreCycles`, `SearchMaxCoversPercent`,
`SearchSwapKeepsMargins`. A finder's chain goes from a goroutine to the table, from
there to a list in Redis and from there to the trader, while others write the same rows.
`SearchInvariant` follows it: what is true of the legs when they are found (`Sound`: a
cycle of three different symbols, each leg within the book it has seen) is true of every
record that carries them, and stays true when the legs of two searches are exchanged one
by one in a row (`Exchanged`), because its hash names the type and the symbols. That the percent is the one of the legs
is neither claimed nor true.

### UserRequests

`UserRequestsProofs` proves, for every set of prices, both margins and any number of
manual orders and requests (`RequestsAssumption`):

- `SalesCorrect`: an order to sell brings its minimum over the position's price of now,
  although the user's price was checked on another position perhaps;
- `CancelsCorrect`: no request cancels two orders.

The argument: nobody but the maker opens, closes or moves a position
(`ReadIsCurrent`), so the minimum it checks before a sale still holds when the order is
placed and while it waits (`SalesBring`); and the maker takes every request out of the
map before it acts on it (`RequestsCounted`).

### SocketClient

`SocketClientProofs` shows, for any finite set of calls, their methods and any number of
refusals, errors and lost connections:

- `ClientTypeCorrect`: the channel's two queues hold exactly the blocked goroutines, each
  once, and are never both occupied. `Typed` adds what each goroutine has in hand where
  it is (`GoroutinesTyped`, `CallsTyped`) and what the network carries (`NetworkTyped`);
- `ClientAnswersConserved`: an answer is taken by its caller, lost with a connection, or in
  exactly one place. Every step moves at most one answer, and the balance of the places is
  kept;
- `ClientSleepingIsWaiting`: refusals are counted, and every goroutine between "limited" and
  the end of its sleep has one (`RefusalsCounted`), so with one refusal nobody else can end
  the wait mode;
- `ClientForgottenForAReason`: what is left of a call that waits is with its goroutine
  (`Asking`), a writer (`Requested`), the network (`OnTheWire`) or a goroutine
  (`InHands`), and a step only passes it on.

### Only model-checked

Every invariant and every safety action property that a passing run checks is stated by a
theorem. What is left to TLC:

- liveness: `CallEnds`, `PollersEnd`, the fairness part of `KeepsThePromise`,
  `ExecutedIsSaved`, `SettledSwapEnds`, `WorthIsTried`, `ManualSaleIsPlaced`,
  `WaitModeEnds`, `AnsweredUnlessCrossed`. The prover has no rule for ENABLED, which weak
  fairness needs.

## What is not modelled

- Price arithmetic, strategies and their scores, `TradeStack`'s budgets, the correction
  of `LossSecurity`, machine learning, charts, frames, health: numerical code and
  presentation that changes no order by itself. What they decide is a choice in the
  models.
- Settings (trade limits, bot, exchange and their handlers, `UpdateLimits`): single
  statements on tables the maker only reads.
- The stores of `ExchangeRepository` apart from the swap pairs: candles, depths,
  decisions, predictions. Their races change scores.
- What a transaction left open on a connection of the pool does to the statements that
  happen to use it (swap_repository.go 487-567): rows locked, or not seen by others until
  a COMMIT arrives there. `SwapSearch` shows each statement at once. The legs of a new
  chain are inserted before its row names them and are shown with it.
- Two writers that write to one WebSocket at the same time after a reconnection
  (binance_client.go 94-97): the library may panic on what it detects; a message is
  written in one step here.
- The price stream client (websocket_client.go): it forwards messages.
- That Go aborts the process when it detects a concurrent access to the map of cancel
  requests.

## The plan

Done: `ExchangeOrder`, `OrderOutcome`, `WaitExecution`, `TradeLedger`, `SwapExecution`,
`SwapSearch`, `UserRequests`, `SocketClient`, and proofs about the six state machines.
Left, in this order:

1. Pure modules on scaled integers, each with a reference definition: `Formatter`, the
   extra-charge budget (model/order.go 81-111), the allocation of `TradeStack`, the
   expiry of decisions.
2. Composition: `WaitExecution` with `TradeLedger` in place of the promise.
