----------------------------- MODULE SwapSearch -----------------------------
(***************************************************************************)
(* The search for swaps of one asset: the stream of prices into table      *)
(* `swap_pair` (SwapUpdater), the goroutines that look for the best cycle  *)
(* of three trades (SwapManager with its finders SSB, SBB and SBS) and     *)
(* save it as a row of `swap_chain`, and the trader that checks the fresh  *)
(* rows (SwapValidator) and makes the swap (TrySwap, MakeSwap).            *)
(* Prices and amounts are logarithms in units of a tick: a sale adds its   *)
(* price to the amount, a purchase takes it off, a fee takes off a         *)
(* constant, and the profit of a cycle is what is left of an amount of 0.  *)
(* A price is a multiple of the tick on the exchange, and so is one moved  *)
(* by some ticks: FormatPrice leaves it as it is.  Times are ages, in a    *)
(* unit that only keeps the order of the limits the code compares with.    *)
(* A percent is such a logarithm too, rounded to a multiple of Cent.       *)
(* UpdateSwapChain sends its statements to a pool of connections one by    *)
(* one: START TRANSACTION and COMMIT reach whichever is free and hold      *)
(* nothing together, so each statement is a step and is seen at once.      *)
(***************************************************************************)
EXTENDS Integers, FiniteSets, Sequences

CONSTANTS
    Asset,          \* the base asset of the position
    Traded,         \* symbols <<base, quote>> trading on the exchange
    Limits,         \* ... those of the enabled trade limits
    Known,          \* symbols whose rows an earlier run has left, with a price of a while ago
    Supported,      \* supportedQuoteAssets
    QuotesOf,       \* what the order book of each symbol may show
    Streams,        \* goroutines the price stream may have started
    Fee,            \* 0.002 of each trade
    Cent,           \* 0.01 percent, the last digit of a chain's percent
    Threshold,      \* a chain is saved from 0.10 percent on
    MinPercent,     \* SwapValidator.SwapMinPercent
    Tolerance,      \* 0.1 percent of a price
    PriceValidSeconds, ChainValid, CacheValid, CheckValid,  \* 30, 20, 30 and 60 s
    None,
    Lapses,         \* units of time that may pass at once
    MaxTicks,       \* bound: how often time passes
    MaxUpdates      \* bound: price updates

Kinds == <<"SBB", "SBS", "SSB">>    \* in the order of CalculateSwapOptions

ASSUME SearchAssumption ==
    /\ Limits \subseteq Traded /\ Known \subseteq Traded
    /\ QuotesOf \in [Traded -> SUBSET [buy : Int, sell : Int, up : BOOLEAN, down : BOOLEAN]]
    /\ \A s \in Traded : s[1] # s[2]
    /\ Fee \in Int /\ Cent \in Nat \ {0} /\ Threshold \in Int /\ MinPercent \in Int
    /\ Lapses \subseteq Nat
    /\ ChainValid < CacheValid /\ PriceValidSeconds < CheckValid

VARIABLES
    pairs,          \* swap_pair: [quote, age] of each symbol, quote None before the
                    \* first price; None: no row
    chains,         \* swap_chain with its transitions: the row of each hash
    cache,          \* Redis: the age of swap-chain-<asset>, or None
    searcher,       \* where each searching goroutine is
    trader,         \* where TrySwap is
    made,           \* the chain of the swap action, or None
    ticks, updates

vars == <<pairs, chains, cache, searcher, trader, made, ticks, updates>>

Loop == "loop"      \* the goroutine of main that searches all the time
Searchers == {Loop} \cup Streams

Base(s) == s[1]
Quote(s) == s[2]

At(pc, kind) == [pc |-> pc, kind |-> kind, chain |-> None, row |-> None, leg |-> 1]
Resting == At("idle", 1)
Untried == [pc |-> "idle", rows |-> {}, row |-> None, leg |-> 1, read |-> << >>]

Init ==
    /\ \E quote \in [Known -> UNION { QuotesOf[s] : s \in Known }] :
         /\ \A s \in Known : quote[s] \in QuotesOf[s]
         /\ pairs = [s \in Traded |-> IF s \in Known THEN [quote |-> quote[s], age |-> 1] ELSE None]
    /\ chains = << >>
    /\ cache = None
    /\ searcher = [g \in Searchers |-> At("boot", 1)]
    /\ trader = Untried
    /\ made = None
    /\ ticks = 0 /\ updates = 0

-----------------------------------------------------------------------------
(***************************************************************************)
(* The table of prices                                                     *)
(***************************************************************************)
\* The pairs an enabled limit's base asset has with other supported quote assets.
Wanted ==
    { s \in Traded : /\ Quote(s) \in Supported
                     /\ \E l \in Limits : Base(s) = Base(l) /\ Quote(s) # Quote(l) }

NewPair == [quote |-> None, age |-> 0]

\* At the start of the master bot; a failed request for the symbols leaves none.
UpdateSwapPairs ==
    /\ searcher[Loop].pc = "boot"
    /\ \E wanted \in {Wanted, {}} :
         pairs' = [s \in Traded |-> IF s \in wanted /\ pairs[s] = None THEN NewPair ELSE pairs[s]]
    /\ searcher' = [g \in Searchers |-> Resting]
    /\ UNCHANGED <<chains, cache, trader, made, ticks, updates>>

\* The stream's goroutine stores the depth and writes the pair's row; when a chain
\* is cached it starts a search.
UpdateSwapPair(s) ==
    /\ searcher[Loop].pc # "boot"
    /\ pairs[s] # None /\ updates < MaxUpdates
    /\ \E q \in QuotesOf[s] : pairs' = [pairs EXCEPT ![s] = [quote |-> q, age |-> 0]]
    /\ \/ cache = None /\ UNCHANGED searcher
       \/ cache # None /\ Base(s) # Asset /\ UNCHANGED searcher
       \/ /\ cache # None /\ Base(s) = Asset
          /\ \/ \E g \in Streams :
                  /\ searcher[g].pc = "idle"
                  /\ searcher' = [searcher EXCEPT ![g].pc = "find"]
             \/ /\ \A g \in Streams : searcher[g].pc # "idle"
                /\ UNCHANGED searcher
    /\ updates' = updates + 1
    /\ UNCHANGED <<chains, cache, trader, made, ticks>>

\* Some time passes; the cached chain goes with its time to live.
Older(record, n) == [record EXCEPT !.age = IF @ > CheckValid THEN @ ELSE @ + n]
Tick ==
    /\ ticks < MaxTicks
    /\ \E n \in Lapses :
         /\ pairs' = [s \in Traded |-> IF pairs[s] = None THEN None ELSE Older(pairs[s], n)]
         /\ chains' = [h \in DOMAIN chains |-> Older(chains[h], n)]
         /\ searcher' = [g \in Searchers |->
                           IF searcher[g].row = None THEN searcher[g]
                           ELSE [searcher[g] EXCEPT !.row = Older(@, n)]]
         /\ cache' = IF cache = None \/ cache + n >= CacheValid THEN None ELSE cache + n
    /\ ticks' = ticks + 1
    /\ UNCHANGED <<trader, made, updates>>

-----------------------------------------------------------------------------
(***************************************************************************)
(* The finders                                                             *)
(***************************************************************************)
Priced(s) == pairs[s] # None /\ pairs[s].quote # None
IsPriceExpired(s) == pairs[s].age > PriceValidSeconds
Options == { s \in Traded : Priced(s) /\ ~IsPriceExpired(s) }

GetSwapPairsByBaseAsset(a) == { s \in Options : Base(s) = a }
GetSwapPairsByQuoteAsset(a) == { s \in Options : Quote(s) = a }

Rising(s) == pairs[s].quote.up      \* IsBullMarket or IsGainer
Falling(s) == pairs[s].quote.down   \* IsBearMarket or IsLooser

\* A transition: a leg offered some ticks from the book's price
Sell(kind, s, margin) ==
    [type |-> kind, symbol |-> s, operation |-> "SELL", price |-> pairs[s].quote.sell - margin,
     seen |-> pairs[s].quote]
Buy(kind, s, margin) ==
    [type |-> kind, symbol |-> s, operation |-> "BUY", price |-> pairs[s].quote.buy + margin,
     seen |-> pairs[s].quote]

Traverse(amount, leg) ==
    (IF leg.operation = "SELL" THEN amount + leg.price ELSE amount - leg.price) - Fee

\* Formatter.ToFixed and Round: to the nearest multiple of Cent, half of one away from 0.
ToFixed(x) ==
    IF x >= 0 THEN Cent * ((2 * x + Cent) \div (2 * Cent))
              ELSE -(Cent * ((2 * (-x) + Cent) \div (2 * Cent)))

ProfitOf(legs) == ToFixed(Traverse(Traverse(Traverse(0, legs[1]), legs[2]), legs[3]))

\* Mutant: the last purchase is in any pair of the asset that falls.
SSBChainsAnyPair(asset) ==
    { <<Sell("SSB", t[1], 2), Sell("SSB", t[2], 2), Buy("SSB", t[3], 10)>> : t \in
          { t \in GetSwapPairsByBaseAsset(asset) \X Options \X GetSwapPairsByBaseAsset(asset) :
              /\ Base(t[2]) = Quote(t[1]) /\ Rising(t[2]) /\ Falling(t[3]) } }

SSBChains(asset) ==
    { <<Sell("SSB", t[1], 2), Sell("SSB", t[2], 2), Buy("SSB", t[3], 10)>> : t \in
          { t \in GetSwapPairsByBaseAsset(asset) \X Options \X GetSwapPairsByBaseAsset(asset) :
              /\ Base(t[2]) = Quote(t[1]) /\ Rising(t[2])
              /\ Quote(t[3]) = Quote(t[2]) /\ Falling(t[3]) } }

SBBChains(asset) ==
    { <<Sell("SBB", t[1], 2), Buy("SBB", t[2], 2), Buy("SBB", t[3], 10)>> : t \in
          { t \in GetSwapPairsByBaseAsset(asset) \X Options \X GetSwapPairsByBaseAsset(asset) :
              /\ Quote(t[2]) = Quote(t[1])
              /\ Base(t[2]) # asset /\ Falling(t[2])
              /\ Quote(t[3]) = Base(t[2]) /\ Falling(t[3]) } }

SBSChains(asset) ==
    { <<Sell("SBS", t[1], 2), Buy("SBS", t[2], 2), Sell("SBS", t[3], 10)>> : t \in
          { t \in GetSwapPairsByBaseAsset(asset) \X Options \X GetSwapPairsByQuoteAsset(asset) :
              /\ Quote(t[2]) = Quote(t[1])
              /\ Base(t[2]) # asset /\ Falling(t[2])
              /\ Base(t[3]) = Base(t[2]) /\ Rising(t[3]) } }

ChainsOf(kind) ==
    CASE kind = "SBB" -> SBBChains(Asset)
      [] kind = "SBS" -> SBSChains(Asset)
      [] kind = "SSB" -> SSBChains(Asset)

\* The first of the chains with the greatest profit, in the order of the table.  A
\* finder's queries are one step: they only read, and take each price as it is.
BestChains(kind) ==
    LET all == ChainsOf(kind) IN { c \in all : \A d \in all : ProfitOf(d) <= ProfitOf(c) }

\* The title, and so the hash, names the assets the chain goes through.
HashOf(legs) == <<legs[1].type, legs[1].symbol, legs[2].symbol, legs[3].symbol>>

-----------------------------------------------------------------------------
(***************************************************************************)
(* SwapManager                                                             *)
(***************************************************************************)
NextKind(g) ==
    IF searcher[g].kind = Len(Kinds)
      THEN searcher' = [searcher EXCEPT ![g] = Resting]
      ELSE searcher' = [searcher EXCEPT ![g] = At("find", searcher[g].kind + 1)]

CalculateSwapOptions ==
    /\ searcher[Loop].pc = "idle"
    /\ searcher' = [searcher EXCEPT ![Loop].pc = "find"]
    /\ UNCHANGED <<pairs, chains, cache, trader, made, ticks, updates>>

Find(g) ==
    LET worth == { c \in BestChains(Kinds[searcher[g].kind]) : ProfitOf(c) >= Threshold } IN
    /\ searcher[g].pc = "find"
    /\ \/ worth = {} /\ NextKind(g)
       \/ \E c \in worth :
            searcher' = [searcher EXCEPT ![g].pc = "read", ![g].chain = c]
    /\ UNCHANGED <<pairs, chains, cache, trader, made, ticks, updates>>

Greater(a, b) == IF a > b THEN a ELSE b

\* Mutant: the greatest percent is only set when the chain is created.
BuildEntityKeepsMax(chain, found) ==
    [legs |-> chain, percent |-> ProfitOf(chain), age |-> 0, id |-> IF found = None THEN 0 ELSE 1,
     max |-> IF found = None THEN ProfitOf(chain) ELSE found.max]

\* SwapChainBuilder.BuildEntity, on the row GetSwapChain found or on none; id 0 makes
\* UpdateSwapChain create the row.
BuildEntity(chain, found) ==
    [legs |-> chain, percent |-> ProfitOf(chain), age |-> 0, id |-> IF found = None THEN 0 ELSE 1,
     max |-> IF found = None THEN ProfitOf(chain) ELSE Greater(found.max, ProfitOf(chain))]

GetSwapChain(h) == IF h \in DOMAIN chains THEN chains[h] ELSE None

ReadChain(g) ==
    /\ searcher[g].pc = "read"
    /\ LET found == GetSwapChain(HashOf(searcher[g].chain)) IN
         searcher' = [searcher EXCEPT
                        ![g].pc = IF found = None THEN "row" ELSE "transition",
                        ![g].row = BuildEntity(searcher[g].chain, found)]
    /\ UNCHANGED <<pairs, chains, cache, trader, made, ticks, updates>>

\* One of the three updates of a row that was found; the error of a failed one is
\* only logged.
UpdateSwapTransition(g) ==
    LET row == searcher[g].row
        i == searcher[g].leg IN
    /\ searcher[g].pc = "transition"
    /\ \/ chains' = [chains EXCEPT ![HashOf(row.legs)].legs[i] = row.legs[i]]
       \/ UNCHANGED chains
    /\ searcher' = [searcher EXCEPT ![g].pc = IF i = 3 THEN "row" ELSE "transition",
                                    ![g].leg = IF i = 3 THEN 1 ELSE i + 1]
    /\ UNCHANGED <<pairs, cache, trader, made, ticks, updates>>

Written(g) == searcher' = [searcher EXCEPT ![g] = At("cache", searcher[g].kind)]

\* The row itself: an UPDATE leaves the transitions as they are by now.  Those of a new
\* row are its own, inserted before it and seen with it.  The hash is unique: a row
\* created meanwhile stays as it is.
SaveRow(g) ==
    LET row == searcher[g].row
        h == HashOf(row.legs) IN
    /\ searcher[g].pc = "row"
    /\ \/ /\ row.id = 0 /\ h \notin DOMAIN chains
          /\ chains' = [k \in DOMAIN chains \cup {h} |->
                          IF k = h THEN [row EXCEPT !.id = 1] ELSE chains[k]]
       \/ /\ row.id = 0 /\ h \in DOMAIN chains
          /\ UNCHANGED chains
       \/ /\ row.id = 1
          /\ chains' = [chains EXCEPT ![h] = [row EXCEPT !.legs = chains[h].legs]]
    /\ Written(g)
    /\ UNCHANGED <<pairs, cache, trader, made, ticks, updates>>

\* The statement of the row fails, or one of the INSERTs it takes its ids from.
LoseRow(g) ==
    /\ searcher[g].pc = "row"
    /\ Written(g)
    /\ UNCHANGED <<pairs, chains, cache, trader, made, ticks, updates>>

\* Mutant: the search does not tell the trader.
SaveSwapChainCacheSilent(g) ==
    /\ searcher[g].pc = "cache"
    /\ NextKind(g)
    /\ UNCHANGED <<pairs, cache, chains, trader, made, ticks, updates>>

SaveSwapChainCache(g) ==
    /\ searcher[g].pc = "cache"
    /\ cache' = 0
    /\ NextKind(g)
    /\ UNCHANGED <<pairs, chains, trader, made, ticks, updates>>
-----------------------------------------------------------------------------
(***************************************************************************)
(* TrySwap                                                                 *)
(***************************************************************************)
IsBuy(leg) == leg.type = "BUY"
IsSell(leg) == leg.type = "SELL"

TooHigh(leg, quote) == quote.buy >= leg.price + Tolerance
TooLow(leg, quote) == quote.sell <= leg.price - Tolerance

\* GetSwapChains: of the rows of the last 20 seconds, what the trader looks at
FreshRows ==
    { [legs |-> chains[h].legs, percent |-> chains[h].percent] :
        h \in { k \in DOMAIN chains : chains[k].age < ChainValid } }

TrySwap ==
    /\ trader.pc = "idle" /\ made = None
    /\ cache # None
    /\ trader' = [Untried EXCEPT !.pc = IF FreshRows = {} THEN "invalidate" ELSE "next",
                                !.rows = FreshRows]
    /\ UNCHANGED <<pairs, chains, cache, searcher, made, ticks, updates>>

InvalidateSwapChainCache ==
    /\ trader.pc = "invalidate"
    /\ cache' = None
    /\ trader' = Untried
    /\ UNCHANGED <<pairs, chains, searcher, made, ticks, updates>>

\* Mutant: Validate takes a chain of any percent.
NextRowAnyPercent ==
    /\ trader.pc = "next"
    /\ \/ trader.rows = {} /\ trader' = Untried
       \/ \E r \in trader.rows :
            /\ \A q \in trader.rows : q.percent <= r.percent
            /\ trader' = [Untried EXCEPT !.pc = "validate", !.rows = trader.rows \ {r}, !.row = r]
    /\ UNCHANGED <<pairs, chains, cache, searcher, made, ticks, updates>>

\* The next row of the list, the most profitable first
NextRow ==
    /\ trader.pc = "next"
    /\ \/ trader.rows = {} /\ trader' = Untried
       \/ \E r \in trader.rows :
            /\ \A q \in trader.rows : q.percent <= r.percent
            /\ \/ /\ r.percent < MinPercent
                  /\ trader' = [Untried EXCEPT !.pc = "next", !.rows = trader.rows \ {r}]
               \/ /\ r.percent >= MinPercent
                  /\ trader' = [Untried EXCEPT !.pc = "validate", !.rows = trader.rows \ {r}, !.row = r]
    /\ UNCHANGED <<pairs, chains, cache, searcher, made, ticks, updates>>

\* validateSwap reads the pair of one leg; its notional or its history may refuse it
\* whatever the price.
ValidLeg(leg) ==
    /\ Priced(leg.symbol)
    /\ pairs[leg.symbol].age <= CheckValid
    /\ ~(IsBuy(leg) /\ TooHigh(leg, pairs[leg.symbol].quote))
    /\ ~(IsSell(leg) /\ TooLow(leg, pairs[leg.symbol].quote))

ValidateSwap ==
    LET leg == trader.row.legs[trader.leg] IN
    /\ trader.pc = "validate"
    /\ \/ trader' = [Untried EXCEPT !.pc = "next", !.rows = trader.rows]
       \/ /\ ValidLeg(leg)
          /\ trader' = [trader EXCEPT !.pc = IF trader.leg = 3 THEN "make" ELSE "validate",
                                     !.leg = IF trader.leg = 3 THEN 3 ELSE @ + 1,
                                     !.read = Append(@, pairs[leg.symbol].quote)]
    /\ UNCHANGED <<pairs, chains, cache, searcher, made, ticks, updates>>

\* Creates the action unless the position has one; TrySwap goes on with the list.
MakeSwap ==
    /\ trader.pc = "make"
    /\ made' = IF made = None THEN [row |-> trader.row, read |-> trader.read] ELSE made
    /\ trader' = [Untried EXCEPT !.pc = "next", !.rows = trader.rows]
    /\ UNCHANGED <<pairs, chains, cache, searcher, ticks, updates>>

-----------------------------------------------------------------------------
SearcherStep(g) ==
    \/ Find(g) \/ ReadChain(g) \/ UpdateSwapTransition(g) \/ SaveRow(g) \/ LoseRow(g)
    \/ SaveSwapChainCache(g)

TraderStep == TrySwap \/ InvalidateSwapChainCache \/ NextRow \/ ValidateSwap \/ MakeSwap

Next ==
    \/ UpdateSwapPairs
    \/ \E s \in Traded : UpdateSwapPair(s)
    \/ Tick
    \/ CalculateSwapOptions \/ \E g \in Searchers : SearcherStep(g)
    \/ TraderStep

\* The goroutine of main never stops searching, and the trader comes to the position
\* again and again; nothing is asked of the stream.  The database does not fail the
\* statement of the row for ever.
Fairness ==
    /\ WF_vars(UpdateSwapPairs)
    /\ WF_vars(CalculateSwapOptions \/ SearcherStep(Loop))
    /\ SF_vars(SaveRow(Loop))
    /\ WF_vars(TraderStep)

Spec == Init /\ [][Next]_vars /\ Fairness

-----------------------------------------------------------------------------
(***************************************************************************)
(* Properties                                                              *)
(***************************************************************************)
\* What the executor holds after a leg: it sells the base or buys it.  None when it
\* does not hold what the leg gives away.
AfterLeg(held, leg) ==
    CASE leg.operation = "SELL" /\ held = Base(leg.symbol) -> Quote(leg.symbol)
      [] leg.operation = "BUY" /\ held = Quote(leg.symbol) -> Base(leg.symbol)
      [] OTHER -> None

IsCycle(legs) == AfterLeg(AfterLeg(AfterLeg(Asset, legs[1]), legs[2]), legs[3]) = Asset

\* Every saved chain leads from the asset back to it, through other assets, and is worth
\* the threshold by its percent, also while two searches and their failed statements
\* mix the transitions of the row: the three finders agree on what is sold and what is
\* bought, and the hash on whose transitions are exchanged.  (That the percent is the one
\* of the legs is not so.)
ChainsAreCycles ==
    \A h \in DOMAIN chains :
        LET row == chains[h] IN
        /\ IsCycle(row.legs)
        /\ Cardinality({ row.legs[i].symbol : i \in 1..3 }) = 3
        /\ Threshold <= row.percent

\* The greatest percent ever is at least the current one, whichever of two searches
\* wrote last (UpdateSwapChain reads and writes the row in two requests).
MaxCoversPercent == \A h \in DOMAIN chains : chains[h].percent <= chains[h].max

\* A swap is made from a row that says at least SwapMinPercent, and, of each leg whose
\* price did not move since it was found, at a price the book is better than: the rows of
\* a list that TrySwap read before are checked one by one, and the legs of one may be of
\* several searches.
SwapKeepsMargins ==
    made # None =>
        /\ MinPercent <= made.row.percent
        /\ \A i \in 1..3 :
             LET leg == made.row.legs[i] IN
             made.read[i] = leg.seen =>
                 IF leg.operation = "SELL" THEN made.read[i].sell > leg.price
                                           ELSE made.read[i].buy < leg.price

\* A chain that is worth a swap and stays so is tried, again and again until a swap is
\* made of some chain: neither the unlocked cache, which the trader may drop just after
\* a search has set it, nor the expiry of rows and prices keeps it from the trader.
WorthASwap ==
    \E kind \in {"SBB", "SBS", "SSB"} : \E c \in ChainsOf(kind) : ProfitOf(c) >= MinPercent
WorthIsTried == <>[]WorthASwap => []<>(trader.pc = "validate" \/ made # None)

\* "price is too high", "price is too low" (SwapValidator 105, 109): no swap is made
\* when the price read for a leg is worse than its own by the tolerance.
SwapPriceHolds ==
    made # None =>
        \A i \in 1..3 :
            LET leg == made.row.legs[i] IN
            IF leg.operation = "SELL" THEN ~TooLow(leg, made.read[i])
                                      ELSE ~TooHigh(leg, made.read[i])
=============================================================================
