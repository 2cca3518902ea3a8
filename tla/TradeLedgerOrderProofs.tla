---------------------- MODULE TradeLedgerOrderProofs ------------------------
(***************************************************************************)
(* Proofs about the orders of TradeLedger: their rows are final, there is  *)
(* one live order on each side, and few are forgotten, for every number of *)
(* orders, crashes and failing requests.                                   *)
(***************************************************************************)
EXTENDS TradeLedgerProofs

-----------------------------------------------------------------------------
(***************************************************************************)
(* Rows are final.  The copies of an order follow it: each is the order,   *)
(* or what it was while it was live, so that a settled copy is final.      *)
(***************************************************************************)

\* The order is saved, and the maker still has to clean up or to close.
IsSaved(s) ==
    \/ s.pc \in {"commission", "cleanup", "close"}
    \/ s.pc \in {"delete", "write"} /\ s.then = "cleanup"

JobFollowed ==
    /\ Maker.pc \in Busy => /\ orders[job.id].side = SideOfJob
                            /\ Follows(job.seen, orders[job.id])
    /\ Maker.pc = "save" => IsSettled(job.seen) /\ HasExecutedQuantity(job.seen)
    /\ IsSaved(Maker) => job.id # None
    /\ Maker.pc \notin Busy /\ job.id # None => rows[job.id] > 0

CacheFollowed ==
    \A side \in Sides : orderCache[side] # None =>
        /\ orders[orderCache[side].id].side = side
        /\ Follows(orderCache[side].seen, orders[orderCache[side].id])

\* The cache of the job's side holds no other order.
JobIsCached ==
    job.id # None => orderCache[SideOfJob] = None \/ orderCache[SideOfJob].id = job.id

OrdersHaveQuantity == \A o \in OrderIds : orders[o] # None => orders[o].orig > 0

Followed ==
    JobFollowed /\ CacheFollowed /\ JobIsCached /\ OrdersHaveQuantity /\ RowsAreFinal

-----------------------------------------------------------------------------
(***************************************************************************)
(* What a step may do to the orders, their rows, their cache and the job.  *)
(***************************************************************************)
\* Nothing.
OrdersQuiet ==
    /\ UNCHANGED <<orders, rows, orderCache, job>>
    /\ Maker'.pc = Maker.pc \/ (Maker.pc \notin Busy /\ Maker'.pc \notin Busy)
    /\ IsSaved(Maker)' => IsSaved(Maker)

\* The maker gives its order up, or has none; only a crash or a failing request
\* takes an order out of its hands.
JobLeft ==
    /\ UNCHANGED <<orders, rows, orderCache>>
    /\ job'.id = None
    /\ Maker'.pc \notin Busy /\ ~IsSaved(Maker)'
    /\ Maker.pc \in Busy => crashes' + faults' = crashes + faults + 1

\* The order is given up and leaves the cache.
JobDropped ==
    /\ UNCHANGED <<orders, rows>>
    /\ UncacheOrder
    /\ job' = NoJob
    /\ Maker'.pc \notin Busy /\ ~IsSaved(Maker)'
    /\ \/ Maker.pc = "try" /\ FoundVoid(job.seen)
       \/ Maker.pc = "wait" /\ IsSettled(orders[job.id]) /\ ~HasExecutedQuantity(orders[job.id])
       \/ Maker.pc = "wait" /\ crashes' + faults' = crashes + faults + 1
       \/ Maker.pc = "save" /\ rows[job.id] # 0
       \/ Maker.pc = "cleanup"

\* tryLimitOrder goes on with the order as it was found.
JobTried ==
    /\ UNCHANGED <<orders, rows, orderCache, job>>
    /\ Maker.pc = "try" /\ Maker'.pc \in {"wait", "save"}
    /\ Maker'.pc = "save" => FoundDone(job.seen)

\* The exchange tells the order's state.
JobSeen ==
    /\ UNCHANGED <<orders, rows>>
    /\ Maker.pc = "wait" /\ Maker'.pc \in {"wait", "save"}
    /\ job' = [job EXCEPT !.seen = orders[job.id]]
    /\ Maker'.pc = "save" => IsSettled(orders[job.id]) /\ HasExecutedQuantity(orders[job.id])
    /\ CacheOrder(orders[job.id]) \/ UncacheOrder \/ UNCHANGED orderCache

JobSaved ==
    /\ Insert
    /\ UNCHANGED <<orders, orderCache, job>>
    /\ Maker'.pc \notin Busy

OrderStep ==
    \/ OrdersQuiet \/ JobLeft \/ JobDropped \/ JobTried \/ JobSeen \/ JobSaved
    \/ FindCached \/ FindOpened \/ Place \/ CachePlaced \/ Boot
    \/ \E o \in OrderIds : Exchange(o)

\* Crashes and faults are only counted up.
LEMMA CountsGrow ==
    ASSUME Typed, [Next]_vars
    PROVE  crashes' >= crashes /\ faults' >= faults
<1>1. crashes \in Int /\ faults \in Int
    BY LedgerAssumption, TypedParts DEF CountsTyped
<1>2. UNCHANGED <<crashes, faults>> \/ RequestFails \/ Crash
      => RequestFails \/ (crashes' >= crashes /\ faults' >= faults)
    BY <1>1 DEF Crash
<1>3. crashes' = crashes \/ crashes' = crashes + 1
    BY DEF Next, vars, Exchange, MakerStep, PollerStep, ReaderStep, ClerkStep, Crash,
       LoadCached, Select, SelectFails, Fill, DeleteCache, Write, WriteFails,
       Decide, SellQuantity, RefuseExtra, FindCached, FindOpened, Place, Refuse,
       CachePlaced, Try, WaitQuery, WaitOk, WaitError, WaitGivesUp, WaitAgain, EndWait,
       SaveBuy, SaveBuyExtra, SaveSell, SaveDuplicate, SaveFails, UpdateCommission,
       CleanUp, Close, CloseFails, ExecuteSwap, MakeSwap, CreateSwap, CreateSwapFails,
       Boot, PollerReads, Edit
<1>4. faults' = faults \/ RequestFails
    BY DEF Next, vars, Exchange, MakerStep, PollerStep, ReaderStep, ClerkStep, Crash,
       LoadCached, Select, SelectFails, Fill, DeleteCache, Write, WriteFails,
       Decide, SellQuantity, RefuseExtra, FindCached, FindOpened, Place, Refuse,
       CachePlaced, Try, WaitQuery, WaitOk, WaitError, WaitGivesUp, WaitAgain, EndWait,
       SaveBuy, SaveBuyExtra, SaveSell, SaveDuplicate, SaveFails, UpdateCommission,
       CleanUp, Close, CloseFails, ExecuteSwap, MakeSwap, CreateSwap, CreateSwapFails,
       Boot, PollerReads, Edit
<1>5. QED
    BY <1>1, <1>3, <1>4 DEF RequestFails

\* A step of another goroutine leaves the orders to the maker.
LEMMA OthersAreQuiet ==
    ASSUME Typed, NEW a \in Agents, a # "maker",
           \/ LoadCached(a) \/ Select(a) \/ SelectFails(a) \/ Fill(a)
           \/ DeleteCache(a) \/ Write(a) \/ WriteFails(a) \/ Edit(a)
           \/ MakeSwap(a) \/ CreateSwap(a) \/ CreateSwapFails(a)
    PROVE  OrdersQuiet
<1>1. AgentsTyped /\ "maker" \in Agents
    BY TypedParts, MakerIsAgent
<1>2. agent'["maker"] = agent["maker"]
    BY <1>1 DEF AgentsTyped, LoadCached, Select, SelectFails, Fill, DeleteCache,
       Write, WriteFails, Edit, MakeSwap, CreateSwap, CreateSwapFails,
       Continue, Loaded, Finish, BeginUpdate
<1>3. UNCHANGED <<orders, rows, orderCache, job>>
    BY DEF stores, LoadCached, Select, SelectFails, Fill, DeleteCache,
       Write, WriteFails, Edit, MakeSwap, CreateSwap, CreateSwapFails
<1>4. QED
    BY <1>2, <1>3 DEF OrdersQuiet, Maker, IsSaved

\* While it reads the position, rewrites its row or starts a swap, the maker works
\* on no order, or is done with it.
LEMMA MakerOrdersQuiet ==
    ASSUME Typed,
           \/ LoadCached("maker") \/ Select("maker")
           \/ SelectFails("maker") \/ Fill("maker") \/ DeleteCache("maker")
           \/ SellQuantity \/ UpdateCommission \/ Close \/ ExecuteSwap
           \/ MakeSwap("maker") \/ CreateSwap("maker") \/ CreateSwapFails("maker")
    PROVE  OrdersQuiet
<1>1. AgentsTyped /\ "maker" \in Agents /\ agent["maker"] \in AgentStates
    BY TypedParts, MakerIsAgent DEF AgentsTyped
<1>2. UNCHANGED <<orders, rows, orderCache, job>>
    BY DEF stores, LoadCached, Select, SelectFails, Fill, DeleteCache,
       SellQuantity, UpdateCommission, Close, ExecuteSwap, MakeSwap, CreateSwap,
       CreateSwapFails
<1>3. CASE LoadCached("maker") \/ Select("maker")
           \/ SelectFails("maker") \/ Fill("maker")
  <2>1. /\ Maker.pc \in {"idle", "select", "fill"}
        /\ Maker'.pc \in {"select", "fill", "decide"}
    <3>1. Maker.pc \in {"idle", "select", "fill"}
        BY <1>3 DEF Maker, LoadCached, Select, SelectFails, Fill
    <3>2. ASSUME NEW copy, Loaded("maker", copy) PROVE Maker'.pc = "decide"
      <4>1. [IdleAgent EXCEPT !.pc = "decide", !.copy = copy].pc = "decide"
          BY DEF IdleAgent
      <4>2. QED
          BY <1>1, <3>2, <4>1 DEF Loaded, Maker, AgentsTyped
    <3>3. ASSUME NEW pc, Continue("maker", pc) PROVE Maker'.pc = pc
        BY <1>1, <3>3, ContinuedAt DEF Maker
    <3>4. ASSUME NEW copy,
                 agent' = [agent EXCEPT !["maker"].pc = "fill", !["maker"].copy = copy]
          PROVE  Maker'.pc = "fill"
        BY <1>1, <3>4 DEF AgentStates, AgentsTyped, Maker
    <3>5. QED
        BY <1>3, <3>1, <3>2, <3>3, <3>4 DEF LoadCached, Select, SelectFails, Fill
  <2>2. QED
      BY <1>2, <2>1 DEF OrdersQuiet, IsSaved, Busy
<1>4. CASE DeleteCache("maker")
  <2>1. Maker.pc = "delete" /\ Maker'.pc = "write" /\ Maker'.then = Maker.then
      BY <1>1, <1>4, ContinuedAt DEF Maker, DeleteCache
  <2>2. QED
      BY <1>2, <2>1 DEF OrdersQuiet, IsSaved, Busy
<1>5. CASE SellQuantity
  <2>1. /\ Maker.pc = "quantity"
        /\ Maker'.pc = "find" \/ (Maker'.pc = "delete" /\ Maker'.then = "find")
      BY <1>1, <1>5 DEF Maker, AgentStates, AgentsTyped, SellQuantity, Continue, BeginUpdate
  <2>2. QED
      BY <1>2, <2>1 DEF OrdersQuiet, IsSaved, Busy
<1>6. CASE UpdateCommission
  <2>1. Maker.pc = "commission" /\ Maker'.pc = "cleanup"
      BY <1>1, <1>6, ContinuedAt DEF Maker, UpdateCommission
  <2>2. QED
      BY <1>2, <2>1 DEF OrdersQuiet, IsSaved, Busy
<1>7. CASE Close \/ ExecuteSwap \/ MakeSwap("maker") \/ CreateSwap("maker")
           \/ CreateSwapFails("maker")
  <2>1. /\ Maker.pc \in {"close", "swapping", "makeSwap", "createSwap"}
        /\ Maker'.pc \in {"idle", "createSwap"} \/ (Maker'.pc = "delete" /\ Maker'.then = "idle")
    <3>1. /\ Maker.pc \in {"close", "swapping", "makeSwap", "createSwap"}
          /\ \/ Finish("maker")
             \/ Continue("maker", "createSwap")
             \/ EndSwapMode
             \/ \E copy : BeginUpdate("maker", copy, "idle")
        BY <1>7 DEF Maker, Close, ExecuteSwap, MakeSwap, CreateSwap, CreateSwapFails
    <3>2. CASE Finish("maker")
        BY <1>1, <3>1, <3>2, Finished DEF Maker, IdleAgent
    <3>3. CASE Continue("maker", "createSwap")
        BY <1>1, <3>1, <3>3, ContinuedAt DEF Maker
    <3>4. ASSUME NEW copy, BeginUpdate("maker", copy, "idle")
          PROVE  Maker'.pc = "delete" /\ Maker'.then = "idle"
        BY <1>1, <3>4 DEF Maker, AgentStates, AgentsTyped, BeginUpdate
    <3>5. CASE EndSwapMode
        BY <3>1, <3>4, <3>5 DEF EndSwapMode
    <3>6. QED
        BY <3>1, <3>2, <3>3, <3>4, <3>5
  <2>2. QED
      BY <1>2, <2>1 DEF OrdersQuiet, IsSaved, Busy
<1>8. QED
    BY <1>3, <1>4, <1>5, <1>6, <1>7

\* Where an operation of the maker that ended with an error leaves it.
LEMMA FailLeavesJob ==
    ASSUME Typed, Fail
    PROVE  job' = NoJob /\ job'.id = None /\ Maker'.pc \notin Busy /\ ~IsSaved(Maker)'
BY FailTyped DEF NoJob, Busy, IsSaved

LEMMA MakerLeavesJob ==
    ASSUME Typed,
           RefuseExtra \/ Refuse \/ SaveFails \/ CloseFails \/ WriteFails("maker")
           \/ Write("maker") \/ Decide
    PROVE  OrdersQuiet \/ JobLeft
<1>1. AgentsTyped /\ "maker" \in Agents /\ Maker \in AgentStates
    BY TypedParts, MakerIsAgent DEF AgentsTyped, Maker
<1>2. UNCHANGED <<orders, rows, orderCache>>
    BY DEF stores, RefuseExtra, Refuse, SaveFails, CloseFails, WriteFails, Write, Decide
<1>3. CASE RefuseExtra \/ Refuse \/ CloseFails
    BY <1>2, <1>3, FailLeavesJob DEF JobLeft, Busy, RefuseExtra, Refuse, CloseFails
<1>4. CASE SaveFails
  <2>1. crashes' + faults' = crashes + faults + 1
      BY <1>4, FaultCounted, LedgerAssumption, TypedParts DEF SaveFails, CountsTyped
  <2>2. QED
      BY <1>2, <1>4, <2>1, FailLeavesJob DEF JobLeft, SaveFails
<1>5. CASE Write("maker")
  <2>1. CASE agent["maker"].then = "idle"
    <3>1. Maker'.pc = "idle" /\ job' = NoJob /\ Maker.pc = "write"
        BY <1>1, <1>5, <2>1, Finished, IdleState DEF Write, Maker
    <3>2. QED
        BY <1>2, <3>1 DEF JobLeft, Busy, IsSaved, NoJob
  <2>2. CASE agent["maker"].then # "idle"
    <3>1. /\ Maker'.pc = Maker.then /\ Maker.pc = "write" /\ job' = job
          /\ Maker.then \in {"find", "cleanup"}
        BY <1>1, <1>5, <2>2, StateFields, ContinuedAt DEF Write, Maker
    <3>2. QED
        BY <1>2, <3>1 DEF OrdersQuiet, Busy, IsSaved
  <2>3. QED
      BY <2>1, <2>2
<1>6. CASE WriteFails("maker")
  <2>1. CASE agent["maker"].then = "find"
    <3>1. Maker'.pc = "find" /\ Maker.pc = "write" /\ job' = job
        BY <1>1, <1>6, <2>1, ContinuedAt DEF WriteFails, Maker
    <3>2. QED
        BY <1>2, <3>1 DEF OrdersQuiet, Busy, IsSaved
  <2>2. CASE agent["maker"].then # "find"
      BY <1>2, <1>6, <2>2, FailLeavesJob DEF JobLeft, Busy, WriteFails, Maker
  <2>3. QED
      BY <2>1, <2>2
<1>7. CASE Decide
  <2>1. job = NoJob /\ job.id = None
      BY <1>7, TypedParts DEF Decide, JobFits, Free, NoJob
  <2>2. job'.id = None
      BY <1>7, <2>1 DEF Decide, NoJob
  <2>3. /\ Maker.pc = "decide"
        /\ Maker'.pc \in {"idle", "swapping", "quantity", "find"}
    <3>1. Finish("maker") => Maker'.pc = "idle"
        BY <1>1, Finished, IdleState DEF Maker
    <3>2. ASSUME NEW pc, Continue("maker", pc) PROVE Maker'.pc = pc
        BY <1>1, <3>2, ContinuedAt DEF Maker
    <3>3. QED
        BY <1>7, <3>1, <3>2 DEF Decide
  <2>4. QED
      BY <1>2, <2>2, <2>3 DEF JobLeft, Busy, IsSaved
<1>8. QED
    BY <1>3, <1>4, <1>5, <1>6, <1>7

\* The steps on the maker's order.
LEMMA MakerOrderSteps ==
    ASSUME Typed,
           \/ Try \/ WaitQuery \/ WaitOk \/ WaitError \/ WaitGivesUp \/ WaitAgain
           \/ SaveBuy \/ SaveBuyExtra \/ SaveSell \/ SaveDuplicate \/ CleanUp
    PROVE  JobDropped \/ JobTried \/ JobSeen \/ JobSaved
<1>1. AgentsTyped /\ "maker" \in Agents /\ Maker \in AgentStates
    BY TypedParts, MakerIsAgent DEF AgentsTyped, Maker
<1>2. CASE Try
  <2>1. CASE UncacheOrder /\ Fail /\ FoundVoid(job.seen)
      BY <1>2, <2>1, FailLeavesJob DEF Try, JobDropped
  <2>2. ASSUME NEW pc \in {"save", "wait"}, Continue("maker", pc),
               UNCHANGED <<orderCache, job>>, pc = "save" => FoundDone(job.seen)
        PROVE  JobTried
    <3>1. Maker'.pc = pc
        BY <2>2, MakerContinued DEF Pcs, HasCopy
    <3>2. QED
        BY <1>2, <2>2, <3>1 DEF Try, JobTried
  <2>3. QED
      BY <1>2, <2>1, <2>2 DEF Try
<1>3. CASE WaitQuery
    BY <1>3 DEF WaitQuery, JobSeen, Maker
<1>4. CASE WaitOk
  <2>1. [Maker EXCEPT !.pc = "save"] \in AgentStates
        /\ [Maker EXCEPT !.pc = "save"].pc = "save"
      BY <1>1 DEF AgentStates
  <2> DEFINE s == [Maker EXCEPT !.pc = "save"]
  <2>4. EndWait({s}) /\ HoldsWhatItUses(s)
      BY <1>4, <2>1 DEF WaitOk, HoldsWhatItUses, HasCopy
  <2>5. s \in AgentStates /\ s.pc = "save"
      BY <2>1
  <2> HIDE DEF s
  <2>2. Maker'.pc = "save"
      BY <1>1, <2>4, <2>5, EndWaitMoves
  <2>3. QED
      BY <1>4, <2>2 DEF WaitOk, EndWait, Succeeded, JobSeen
<1>5. CASE WaitError \/ WaitGivesUp
  <2>1. Failed \in SUBSET AgentStates /\ \A s \in Failed : HoldsWhatItUses(s)
      BY FailedStates
  <2>2. Maker' \in Failed
      BY <1>1, <1>5, <2>1, EndWaitMoves DEF WaitError, WaitGivesUp
  <2>3. Maker'.pc \notin Busy /\ ~IsSaved(Maker)'
      BY <2>2, FailedStates DEF Busy, IsSaved
  <2>4. WaitGivesUp => crashes' + faults' = crashes + faults + 1
      BY FaultCounted, LedgerAssumption, TypedParts DEF WaitGivesUp, EndWait, CountsTyped
  <2>5. QED
      BY <1>5, <2>3, <2>4 DEF WaitError, WaitGivesUp, EndWait, Succeeded, JobDropped
<1>6. CASE WaitAgain
  <2>1. Maker' = Maker
    <3>1. PICK w \in Armed : Continue(w, "makeSwap")
        BY <1>6 DEF WaitAgain
    <3>2. QED
        BY <1>1, <3>1, MakerIsAgent DEF Armed, Continue, AgentsTyped, Maker
  <2>2. QED
      BY <1>6, <2>1 DEF WaitAgain, stores, JobSeen
<1>7. CASE SaveBuy \/ SaveSell
  <2>1. Maker'.pc \in {"commission", "close"}
      BY <1>1, <1>7, ContinuedAt DEF SaveBuy, SaveSell, Maker
  <2>2. QED
      BY <1>7, <2>1 DEF SaveBuy, SaveSell, JobSaved, Busy
<1>8. CASE SaveBuyExtra
  <2>1. Maker'.pc = "delete"
      BY <1>1, <1>8 DEF SaveBuyExtra, BeginUpdate, Maker, AgentsTyped
  <2>2. QED
      BY <1>8, <2>1 DEF SaveBuyExtra, JobSaved, Busy
<1>9. CASE SaveDuplicate
    BY <1>9, FailLeavesJob DEF SaveDuplicate, JobDropped
<1>10. CASE CleanUp
    BY <1>10, MakerFinished, IdleState DEF CleanUp, JobDropped, Busy, IsSaved
<1>11. QED
    BY <1>2, <1>3, <1>4, <1>5, <1>6, <1>7, <1>8, <1>9, <1>10

\* Every step is one of these.
LEMMA OrderSteps ==
    ASSUME Typed, [Next]_vars
    PROVE  OrderStep
<1>1. CASE UNCHANGED vars
    BY <1>1 DEF vars, stores, OrderStep, OrdersQuiet, Maker, IsSaved
<1>2. CASE MakerStep
    BY <1>2, MakerOrdersQuiet, MakerLeavesJob, MakerOrderSteps DEF MakerStep, OrderStep
<1>3. ASSUME NEW w \in Pollers, PollerStep(w) PROVE OrderStep
  <2>1. CASE PollerReads(w)
    <3>1. Maker' = Maker
        BY <2>1, MakerIsAgent, TypedParts DEF PollerReads, Maker, AgentsTyped
    <3>2. QED
        BY <2>1, <3>1 DEF PollerReads, OrderStep, OrdersQuiet, IsSaved
  <2>2. QED
      BY <1>3, <2>1, MakerIsAgent, OthersAreQuiet DEF PollerStep, OrderStep
<1>4. ASSUME NEW r \in Readers, ReaderStep(r) PROVE OrderStep
    BY <1>4, MakerIsAgent, OthersAreQuiet DEF ReaderStep, OrderStep
<1>5. ASSUME NEW c \in Clerks, ClerkStep(c) PROVE OrderStep
    BY <1>5, MakerIsAgent, OthersAreQuiet DEF ClerkStep, OrderStep
<1>6. CASE Crash
  <2>1. job'.id = None /\ Maker'.pc \notin Busy /\ ~IsSaved(Maker)'
      BY <1>6, Crashed DEF NoJob, Busy, IsSaved
  <2>2. crashes' + faults' = crashes + faults + 1
      BY <1>6, LedgerAssumption, TypedParts DEF Crash, CountsTyped
  <2>3. QED
      BY <1>6, <2>1, <2>2 DEF Crash, stores, OrderStep, JobLeft
<1>7. QED
    BY <1>1, <1>2, <1>3, <1>4, <1>5, <1>6 DEF Next, OrderStep

\* A settled order is not live; what follows a settled order is that order.
LEMMA SettledIsFinal ==
    /\ \A o : IsSettled(o) => ~IsLive(o)
    /\ \A o, p : IsSettled(o) /\ Follows(o, p) => p = o
BY DEF IsSettled, IsLive, Follows, Progress

\* A copy keeps following the order when the exchange works on it.
LEMMA FollowsOn ==
    ASSUME NEW o \in ExchangeOrders, NEW p \in ExchangeOrders, NEW q \in ExchangeOrders,
           Follows(o, p), Progress(p, q)
    PROVE  Follows(o, q)
BY OrderFields DEF Follows, Progress

\* A copy that was taken up as done, and is final, has executed something.
LEMMA DoneHasExecuted ==
    ASSUME NEW o \in ExchangeOrders, o.orig > 0, FoundDone(o)
    PROVE  IsSettled(o) /\ HasExecutedQuantity(o)
BY DEF FoundDone, IsSettled, IsFilled, IsCanceled, HasExecutedQuantity, ExchangeOrders,
       WellFormed

\* The copies go on following their orders, step by step.
LEMMA FollowedQuiet ==
    ASSUME Typed, Followed, OrdersQuiet
    PROVE  Followed'
<1>1. JobFollowed'
    BY DEF Followed, JobFollowed, OrdersQuiet, SideOfJob, Busy
<1>2. CacheFollowed' /\ JobIsCached' /\ OrdersHaveQuantity' /\ RowsAreFinal'
    BY DEF Followed, CacheFollowed, JobIsCached, OrdersHaveQuantity, RowsAreFinal,
       OrdersQuiet, SideOfJob
<1>3. QED
    BY <1>1, <1>2 DEF Followed

LEMMA FollowedLeft ==
    ASSUME Typed, Followed, JobLeft
    PROVE  Followed'
<1>1. JobFollowed' /\ JobIsCached'
    BY DEF JobFollowed, JobIsCached, JobLeft, Busy
<1>2. CacheFollowed' /\ OrdersHaveQuantity' /\ RowsAreFinal'
    BY DEF Followed, CacheFollowed, OrdersHaveQuantity, RowsAreFinal, JobLeft
<1>3. QED
    BY <1>1, <1>2 DEF Followed

LEMMA FollowedDropped ==
    ASSUME Typed, Followed, JobDropped
    PROVE  Followed'
<1>1. job'.id = None
    BY DEF JobDropped, NoJob
<1>2. JobFollowed' /\ JobIsCached'
    BY <1>1 DEF JobFollowed, JobIsCached, JobDropped, Busy
<1>3. \A side \in Sides : orderCache'[side] \in {orderCache[side], None}
    BY Uncached, TypedParts DEF JobDropped, OrdersTyped
<1>4. CacheFollowed'
    BY <1>3 DEF Followed, CacheFollowed, JobDropped
<1>5. OrdersHaveQuantity' /\ RowsAreFinal'
    BY DEF Followed, OrdersHaveQuantity, RowsAreFinal, JobDropped
<1>6. QED
    BY <1>2, <1>4, <1>5 DEF Followed

LEMMA FollowedTried ==
    ASSUME Typed, Followed, JobTried
    PROVE  Followed'
<1>1. /\ job.id \in OrderIds /\ job.seen \in ExchangeOrders
      /\ orders[job.id] # None /\ orders[job.id] \in ExchangeOrders
    BY BusyWithOrder DEF JobTried, Busy
<1>2. Follows(job.seen, orders[job.id])
    BY DEF Followed, JobFollowed, JobTried, Busy
<1>3. FoundDone(job.seen) => job.seen = orders[job.id]
    BY <1>2, SettledIsFinal DEF FoundDone, IsSettled, IsFilled, IsCanceled
<1>4. FoundDone(job.seen) => IsSettled(job.seen) /\ HasExecutedQuantity(job.seen)
    BY <1>1, <1>3, DoneHasExecuted DEF Followed, OrdersHaveQuantity
<1>5. JobFollowed'
    BY <1>4 DEF Followed, JobFollowed, JobTried, SideOfJob, Busy, IsSaved
<1>6. CacheFollowed' /\ JobIsCached' /\ OrdersHaveQuantity' /\ RowsAreFinal'
    BY DEF Followed, CacheFollowed, JobIsCached, OrdersHaveQuantity, RowsAreFinal,
       JobTried, SideOfJob
<1>7. QED
    BY <1>5, <1>6 DEF Followed

LEMMA FollowedSeen ==
    ASSUME Typed, Followed, JobSeen
    PROVE  Followed'
<1> DEFINE now == orders[job.id]
<1>1. /\ job \in Jobs /\ job.id \in OrderIds /\ now # None /\ now \in ExchangeOrders
    BY BusyWithOrder DEF JobSeen, Busy
<1>2. now.side = SideOfJob
    BY DEF Followed, JobFollowed, JobSeen, Busy
<1>3. /\ job'.id = job.id /\ job'.op = job.op /\ job'.seen = now
      /\ orders' = orders /\ rows' = rows /\ orders'[job'.id] = now
    BY <1>1 DEF JobSeen, Jobs
<1>4. SideOfJob' = SideOfJob
    BY <1>3 DEF SideOfJob
<1>5. Maker'.pc \in {"wait", "save"} /\ (Maker'.pc = "save" => IsSettled(now) /\ HasExecutedQuantity(now))
    BY DEF JobSeen
<1>6. JobFollowed'
    BY <1>2, <1>3, <1>4, <1>5 DEF JobFollowed, Follows, Busy, IsSaved
<1>7. \A side \in Sides :
          \/ orderCache'[side] \in {orderCache[side], None}
          \/ side = SideOfJob /\ orderCache'[side] = [id |-> job.id, seen |-> now]
    BY <1>1, Cached, Uncached, TypedParts DEF JobSeen, OrdersTyped
<1>8. CacheFollowed'
    BY <1>2, <1>3, <1>7 DEF Followed, CacheFollowed, Follows
<1>9. JobIsCached'
    BY <1>3, <1>4, <1>7, SideOfJobIsSide DEF Followed, JobIsCached
<1>10. OrdersHaveQuantity' /\ RowsAreFinal'
    BY <1>3 DEF Followed, OrdersHaveQuantity, RowsAreFinal
<1>11. QED
    BY <1>6, <1>8, <1>9, <1>10 DEF Followed

LEMMA FollowedSaved ==
    ASSUME Typed, Followed, JobSaved
    PROVE  Followed'
<1>1. /\ job.id \in OrderIds /\ job.id # None /\ job.seen \in ExchangeOrders
      /\ orders[job.id] # None
    BY BusyWithOrder DEF JobSaved, Insert, Busy
<1>2. /\ IsSettled(job.seen) /\ HasExecutedQuantity(job.seen)
      /\ Follows(job.seen, orders[job.id])
    BY DEF Followed, JobFollowed, JobSaved, Insert, Busy
<1>3. job.seen = orders[job.id] /\ job.seen.executed > 0
    BY <1>2, SettledIsFinal DEF HasExecutedQuantity
<1>4. /\ rows'[job.id] = job.seen.executed
      /\ \A o \in OrderIds : o # job.id => rows'[o] = rows[o]
    BY <1>1, TypedParts DEF JobSaved, Insert, OrdersTyped
<1>5. JobFollowed'
    BY <1>1, <1>3, <1>4 DEF JobSaved, JobFollowed, Busy
<1>6. RowsAreFinal'
    BY <1>1, <1>2, <1>3, <1>4 DEF Followed, RowsAreFinal, JobSaved
<1>7. CacheFollowed' /\ JobIsCached' /\ OrdersHaveQuantity'
    BY DEF Followed, CacheFollowed, JobIsCached, OrdersHaveQuantity, JobSaved, SideOfJob
<1>8. QED
    BY <1>5, <1>6, <1>7 DEF Followed

LEMMA FollowedFindCached ==
    ASSUME Typed, Followed, FindCached
    PROVE  Followed'
<1> DEFINE e == orderCache[SideOfJob]
<1>1. e \in CacheEntries /\ e # None
    BY SideOfJobIsSide, TypedParts DEF FindCached, OrdersTyped
<1>2. /\ job' = [job EXCEPT !.id = e.id, !.seen = e.seen]
      /\ UNCHANGED <<orders, rows, orderCache>>
    BY DEF FindCached, stores
<1>3. orders[e.id].side = SideOfJob /\ Follows(e.seen, orders[e.id])
    BY <1>1, SideOfJobIsSide DEF Followed, CacheFollowed
<1>4. e = orderCache[SideOfJob]
    OBVIOUS
<1> HIDE DEF e
<1>5. job'.id = e.id /\ job'.seen = e.seen /\ job'.op = job.op
    BY <1>2, TypedParts DEF OrdersTyped, Jobs
<1>6. Maker'.pc = "try" /\ SideOfJob' = SideOfJob
    BY <1>5, MakerContinued DEF FindCached, Pcs, HasCopy, SideOfJob
<1>7. JobFollowed'
    BY <1>2, <1>3, <1>5, <1>6 DEF JobFollowed, Busy, IsSaved
<1>8. JobIsCached'
    BY <1>2, <1>4, <1>5, <1>6 DEF JobIsCached
<1>9. CacheFollowed' /\ OrdersHaveQuantity' /\ RowsAreFinal'
    BY <1>2 DEF Followed, CacheFollowed, OrdersHaveQuantity, RowsAreFinal
<1>10. QED
    BY <1>7, <1>8, <1>9 DEF Followed

LEMMA FollowedFindOpened ==
    ASSUME Typed, Followed, FindOpened
    PROVE  Followed'
<1>1. PICK o \in LiveOrders(SideOfJob) :
        /\ job' = [job EXCEPT !.id = o, !.seen = orders[o]]
        /\ orderCache' = [orderCache EXCEPT ![SideOfJob] = [id |-> o, seen |-> orders[o]]]
    BY DEF FindOpened
<1>2. o \in OrderIds /\ orders[o] # None /\ orders[o].side = SideOfJob
    BY DEF LiveOrders
<1>3. job'.id = o /\ job'.seen = orders[o] /\ job'.op = job.op
    BY <1>1, TypedParts DEF OrdersTyped, Jobs
<1>4. Maker'.pc = "try" /\ SideOfJob' = SideOfJob
    BY <1>3, MakerContinued DEF FindOpened, Pcs, HasCopy, SideOfJob
<1>5. orders' = orders /\ rows' = rows
    BY DEF FindOpened
<1>6. /\ orderCache'[SideOfJob] = [id |-> o, seen |-> orders[o]]
      /\ \A side \in Sides : side # SideOfJob => orderCache'[side] = orderCache[side]
    BY <1>1, SideOfJobIsSide, TypedParts DEF OrdersTyped
<1>7. JobFollowed'
    BY <1>2, <1>3, <1>4, <1>5 DEF JobFollowed, Busy, IsSaved, Follows
<1>8. JobIsCached'
    BY <1>3, <1>4, <1>6 DEF JobIsCached
<1>9. CacheFollowed'
    BY <1>2, <1>5, <1>6 DEF Followed, CacheFollowed, Follows
<1>10. OrdersHaveQuantity' /\ RowsAreFinal'
    BY <1>5 DEF Followed, OrdersHaveQuantity, RowsAreFinal
<1>11. QED
    BY <1>7, <1>8, <1>9, <1>10 DEF Followed

\* The order that is placed is new, of the job's side and of some quantity.
LEMMA Placed ==
    ASSUME Typed, Place
    PROVE  \E o \in OrderIds, new \in ExchangeOrders :
              /\ orders[o] = None /\ o # None
              /\ new.side = SideOfJob /\ new.orig > 0 /\ new.orig \in Quantities
              /\ orders'[o] = new
              /\ \A x \in OrderIds : x # o => orders'[x] = orders[x]
              /\ job'.id = o /\ job'.seen = new /\ job'.op = job.op
              /\ Maker'.pc = "placed" /\ SideOfJob' = SideOfJob
              /\ UNCHANGED <<rows, orderCache>>
<1>1. PICK o \in OrderIds, orig \in Quantities, status \in Statuses :
          \E executed \in 0..orig :
            LET new == [side |-> SideOfJob, status |-> status,
                        executed |-> executed, orig |-> orig] IN
            /\ orders[o] = None
            /\ WellFormed(new, orig)
            /\ orders' = [orders EXCEPT ![o] = new]
            /\ job' = [job EXCEPT !.id = o, !.seen = new]
    BY DEF Place
<1>2. PICK executed \in 0..orig :
        LET new == [side |-> SideOfJob, status |-> status,
                    executed |-> executed, orig |-> orig] IN
        /\ orders[o] = None
        /\ WellFormed(new, orig)
        /\ orders' = [orders EXCEPT ![o] = new]
        /\ job' = [job EXCEPT !.id = o, !.seen = new]
    BY <1>1
<1> DEFINE new == [side |-> SideOfJob, status |-> status,
                   executed |-> executed, orig |-> orig]
<1>3. orig \in Nat
    BY QuantitiesAreNat DEF Place
<1>4. orig > 0
  <2>1. orig >= MinQuantity
      BY <1>3, LedgerAssumption, QtyAssumption DEF Quantities
  <2>2. QED
      BY <1>3, <2>1, LedgerAssumption
<1>5. /\ new \in ExchangeOrders /\ new.side = SideOfJob
      /\ new.orig > 0 /\ new.orig \in Quantities
    BY <1>2, <1>3, <1>4, SideOfJobIsSide DEF ExchangeOrders
<1>6. /\ orders[o] = None /\ orders' = [orders EXCEPT ![o] = new]
      /\ job' = [job EXCEPT !.id = o, !.seen = new]
    BY <1>2
<1> HIDE DEF new
<1>7. job'.id = o /\ job'.seen = new /\ job'.op = job.op
    BY <1>6, TypedParts DEF OrdersTyped, Jobs
<1>8. Maker'.pc = "placed" /\ SideOfJob' = SideOfJob
    BY <1>7, MakerContinued DEF Place, Pcs, HasCopy, SideOfJob
<1>9. orders'[o] = new /\ \A x \in OrderIds : x # o => orders'[x] = orders[x]
    BY <1>6, TypedParts DEF OrdersTyped
<1>10. UNCHANGED <<rows, orderCache>> /\ o # None
    BY LedgerAssumption DEF Place
<1>11. QED
    BY <1>5, <1>6, <1>7, <1>8, <1>9, <1>10

LEMMA FollowedPlace ==
    ASSUME Typed, Followed, Place
    PROVE  Followed'
<1>1. PICK o \in OrderIds, new \in ExchangeOrders :
              /\ orders[o] = None /\ o # None
              /\ new.side = SideOfJob /\ new.orig > 0 /\ new.orig \in Quantities
              /\ orders'[o] = new
              /\ \A x \in OrderIds : x # o => orders'[x] = orders[x]
              /\ job'.id = o /\ job'.seen = new /\ job'.op = job.op
              /\ Maker'.pc = "placed" /\ SideOfJob' = SideOfJob
              /\ UNCHANGED <<rows, orderCache>>
    BY Placed
<1>2. JobFollowed'
    BY <1>1 DEF JobFollowed, Busy, IsSaved, Follows
<1>3. orderCache[SideOfJob] = None
    BY DEF Place
<1>4. JobIsCached'
    BY <1>1, <1>3 DEF JobIsCached
<1>5. CacheFollowed'
  <2>1. ASSUME NEW side \in Sides, orderCache[side] # None
        PROVE  /\ orders'[orderCache[side].id].side = side
               /\ Follows(orderCache[side].seen, orders'[orderCache[side].id])
    <3>1. orderCache[side].id \in OrderIds /\ orders[orderCache[side].id] # None
        BY <2>1, EntryFields, TypedParts DEF OrdersTyped, OrdersExist
    <3>2. orders'[orderCache[side].id] = orders[orderCache[side].id]
        BY <1>1, <3>1
    <3>3. QED
        BY <2>1, <3>2 DEF Followed, CacheFollowed
  <2>2. QED
      BY <1>1, <2>1 DEF CacheFollowed
<1>6. OrdersHaveQuantity'
    BY <1>1 DEF Followed, OrdersHaveQuantity
<1>7. RowsAreFinal'
    BY <1>1 DEF Followed, RowsAreFinal
<1>8. QED
    BY <1>2, <1>4, <1>5, <1>6, <1>7 DEF Followed

LEMMA FollowedCachePlaced ==
    ASSUME Typed, Followed, CachePlaced
    PROVE  Followed'
<1>1. /\ job.id \in OrderIds /\ job.seen \in ExchangeOrders
      /\ orders[job.id].side = SideOfJob /\ Follows(job.seen, orders[job.id])
    BY BusyWithOrder DEF CachePlaced, Followed, JobFollowed, Busy
<1>2. /\ orderCache'[SideOfJob] = [id |-> job.id, seen |-> job.seen]
      /\ \A side \in Sides : side # SideOfJob => orderCache'[side] = orderCache[side]
    BY <1>1, Cached, TypedParts DEF CachePlaced, OrdersTyped
<1>3. UNCHANGED <<orders, rows, job>> /\ Maker'.pc = "try" /\ SideOfJob' = SideOfJob
    BY MakerContinued DEF CachePlaced, Pcs, HasCopy, SideOfJob
<1>4. JobFollowed'
    BY <1>1, <1>3 DEF JobFollowed, Busy, IsSaved
<1>5. JobIsCached' /\ CacheFollowed'
    BY <1>1, <1>2, <1>3 DEF Followed, JobIsCached, CacheFollowed
<1>6. OrdersHaveQuantity' /\ RowsAreFinal'
    BY <1>3 DEF Followed, OrdersHaveQuantity, RowsAreFinal
<1>7. QED
    BY <1>4, <1>5, <1>6 DEF Followed

LEMMA FollowedBoot ==
    ASSUME Typed, Followed, Boot
    PROVE  Followed'
<1>1. job = NoJob /\ job.id = None /\ UNCHANGED <<orders, rows, job>>
    BY TypedParts DEF Boot, JobFits, Free, NoJob
<1>2. Maker' = IdleAgent
    BY <1>1, MakerFinished DEF Boot
<1>3. JobFollowed' /\ JobIsCached'
    BY <1>1, <1>2, IdleState DEF JobFollowed, JobIsCached, Busy, IsSaved
<1>4. CacheFollowed'
    BY <1>1, Booted DEF Followed, CacheFollowed, LiveOrders, Follows
<1>5. OrdersHaveQuantity' /\ RowsAreFinal'
    BY <1>1 DEF Followed, OrdersHaveQuantity, RowsAreFinal
<1>6. QED
    BY <1>3, <1>4, <1>5 DEF Followed

LEMMA FollowedExchange ==
    ASSUME Typed, Followed, NEW o \in OrderIds, Exchange(o)
    PROVE  Followed'
<1>1. /\ orders[o] # None /\ orders[o] \in ExchangeOrders /\ orders'[o] \in ExchangeOrders
      /\ Progress(orders[o], orders'[o]) /\ orders'[o].orig = orders[o].orig
      /\ \A x \in OrderIds : x # o => orders'[x] = orders[x]
    BY Exchanged, TypedParts DEF OrdersTyped
<1>2. UNCHANGED <<rows, orderCache, job>> /\ Maker' = Maker /\ SideOfJob' = SideOfJob
    BY DEF Exchange, Maker, SideOfJob
<1>3. IsLive(orders[o]) /\ orders'[o].side = orders[o].side
    BY <1>1 DEF Progress
<1>4. ASSUME NEW seen \in ExchangeOrders, Follows(seen, orders[o])
      PROVE  Follows(seen, orders'[o])
    BY <1>1, <1>4, FollowsOn
<1>5. JobFollowed'
  <2>1. ASSUME Maker.pc \in Busy
        PROVE  /\ orders'[job.id].side = SideOfJob
               /\ Follows(job.seen, orders'[job.id])
    <3>1. job.id \in OrderIds /\ job.seen \in ExchangeOrders
        BY <2>1, BusyWithOrder
    <3>2. orders[job.id].side = SideOfJob /\ Follows(job.seen, orders[job.id])
        BY <2>1 DEF Followed, JobFollowed
    <3>3. QED
        BY <1>1, <1>3, <1>4, <3>1, <3>2
  <2>2. QED
      BY <1>2, <2>1 DEF Followed, JobFollowed, IsSaved
<1>6. CacheFollowed'
  <2>1. ASSUME NEW side \in Sides, orderCache[side] # None
        PROVE  /\ orders'[orderCache[side].id].side = side
               /\ Follows(orderCache[side].seen, orders'[orderCache[side].id])
    <3>1. orderCache[side].id \in OrderIds /\ orderCache[side].seen \in ExchangeOrders
        BY <2>1, EntryFields, TypedParts DEF OrdersTyped
    <3>2. /\ orders[orderCache[side].id].side = side
          /\ Follows(orderCache[side].seen, orders[orderCache[side].id])
        BY <2>1 DEF Followed, CacheFollowed
    <3>3. QED
        BY <1>1, <1>3, <1>4, <3>1, <3>2
  <2>2. QED
      BY <1>2, <2>1 DEF CacheFollowed
<1>7. JobIsCached'
    BY <1>2 DEF Followed, JobIsCached
<1>8. OrdersHaveQuantity'
    BY <1>1 DEF Followed, OrdersHaveQuantity
<1>9. RowsAreFinal'
    BY <1>1, <1>2, <1>3, SettledIsFinal DEF Followed, RowsAreFinal
<1>10. QED
    BY <1>5, <1>6, <1>7, <1>8, <1>9 DEF Followed

LEMMA FollowedInit == Init => Followed
<1> SUFFICES ASSUME Init PROVE Followed
    OBVIOUS
<1>1. Maker = IdleAgent /\ job.id = None
    BY MakerIsAgent DEF Init, Maker, NoJob
<1>2. JobFollowed /\ JobIsCached
    BY <1>1, IdleState DEF JobFollowed, JobIsCached, Busy, IsSaved
<1>3. CacheFollowed /\ OrdersHaveQuantity /\ RowsAreFinal
    BY DEF Init, CacheFollowed, OrdersHaveQuantity, RowsAreFinal
<1>4. QED
    BY <1>2, <1>3 DEF Followed

LEMMA FollowedStep ==
    ASSUME Typed, Followed, [Next]_vars
    PROVE  Followed'
BY OrderSteps, FollowedQuiet, FollowedLeft, FollowedDropped, FollowedTried, FollowedSeen,
   FollowedSaved, FollowedFindCached, FollowedFindOpened, FollowedPlace,
   FollowedCachePlaced, FollowedBoot, FollowedExchange
DEF OrderStep

\* The maker's and the cache's copies follow their orders.
THEOREM LedgerFollowed == Spec => []Followed
<1>1. Init => Followed
    BY FollowedInit
<1>2. Typed /\ Followed /\ [Next]_vars => Followed'
    BY FollowedStep
<1>3. QED
    BY <1>1, <1>2, LedgerTyped, PTL DEF Spec

\* Whatever is saved of an order is what it executed in the end, whatever was cached
\* before a crash or answered by a wait (RowsAreFinal).
THEOREM LedgerRowsAreFinal == Spec => []RowsAreFinal
<1>1. Followed => RowsAreFinal
    BY DEF Followed
<1>2. QED
    BY <1>1, LedgerFollowed, PTL

-----------------------------------------------------------------------------
(***************************************************************************)
(* Cardinalities.                                                          *)
(***************************************************************************)

\* A set whose elements are all the same has at most one.
LEMMA AtMostOne ==
    ASSUME NEW S, \A x, y \in S : x = y
    PROVE  IsFiniteSet(S) /\ Cardinality(S) <= 1
<1>1. CASE S = {}
    BY <1>1, FS_EmptySet
<1>2. ASSUME NEW x \in S PROVE IsFiniteSet(S) /\ Cardinality(S) <= 1
  <2>1. S = {x}
      OBVIOUS
  <2>2. IsFiniteSet({x}) /\ Cardinality({x}) = 1
      BY FS_Singleton
  <2>3. QED
      BY <2>1, <2>2
<1>3. QED
    BY <1>1, <1>2

\* A part of a set of at most n elements.
LEMMA NoMore ==
    ASSUME NEW A, NEW B \in SUBSET A, NEW n \in Nat, IsFiniteSet(A), Cardinality(A) <= n
    PROVE  IsFiniteSet(B) /\ Cardinality(B) <= n
<1>1. IsFiniteSet(B) /\ Cardinality(B) <= Cardinality(A)
    BY FS_Subset
<1>2. Cardinality(A) \in Nat /\ Cardinality(B) \in Nat
    BY <1>1, FS_CardinalityType
<1>3. QED
    BY <1>1, <1>2

\* One element more.
LEMMA OneMore ==
    ASSUME NEW A, NEW x, NEW B \in SUBSET (A \cup {x}), NEW n \in Nat,
           IsFiniteSet(A), Cardinality(A) <= n
    PROVE  IsFiniteSet(B) /\ Cardinality(B) <= n + 1
<1>1. /\ IsFiniteSet(A \cup {x})
      /\ Cardinality(A \cup {x}) = Cardinality(A) \/ Cardinality(A \cup {x}) = Cardinality(A) + 1
    BY FS_AddElement
<1>2. Cardinality(A) \in Nat
    BY FS_CardinalityType
<1>3. Cardinality(A \cup {x}) <= n + 1
    BY <1>1, <1>2
<1>4. QED
    BY <1>1, <1>3, NoMore

\* One element for another.
LEMMA OneForAnother ==
    ASSUME NEW A, NEW f \in A, NEW x, NEW B \in SUBSET ((A \ {f}) \cup {x}), NEW n \in Nat,
           IsFiniteSet(A), Cardinality(A) <= n
    PROVE  IsFiniteSet(B) /\ Cardinality(B) <= n
<1>1. IsFiniteSet(A \ {f}) /\ Cardinality(A \ {f}) = Cardinality(A) - 1
    BY FS_RemoveElement
<1>2. Cardinality(A) \in Nat /\ Cardinality(A \ {f}) \in Nat
    BY <1>1, FS_CardinalityType
<1>3. n - 1 \in Nat /\ Cardinality(A \ {f}) <= n - 1
    BY <1>1, <1>2
<1>4. IsFiniteSet(B) /\ Cardinality(B) <= (n - 1) + 1
    BY <1>1, <1>3, OneMore
<1>5. QED
    BY <1>4

-----------------------------------------------------------------------------
(***************************************************************************)
(* One live order on each side.                                            *)
(***************************************************************************)
OneLive ==
    faults = 0 => \A side \in Sides : \A o, p \in LiveOrders(side) : o = p

\* The orders change at the exchange's steps, and when one is placed.
LEMMA OrdersChange ==
    ASSUME Typed, [Next]_vars
    PROVE  orders' = orders \/ Place \/ \E o \in OrderIds : Exchange(o)
BY OrderSteps DEF OrderStep, OrdersQuiet, JobLeft, JobDropped, JobTried, JobSeen, JobSaved,
   FindCached, FindOpened, CachePlaced, Boot, stores

LEMMA OneLiveStep ==
    ASSUME Typed, OneLive, [Next]_vars
    PROVE  OneLive'
<1> SUFFICES ASSUME faults' = 0, NEW side \in Sides,
                    NEW o \in LiveOrders(side)', NEW p \in LiveOrders(side)'
             PROVE  o = p
    BY DEF OneLive
<1>1. faults = 0
    BY CountsGrow, LedgerAssumption, TypedParts DEF CountsTyped
<1>2. CASE orders' = orders
    BY <1>1, <1>2 DEF OneLive, LiveOrders
<1>3. CASE Place
  <2>1. LiveOrders(SideOfJob) = {}
      BY <1>1, <1>3 DEF Place, RequestFails
  <2>2. PICK n \in OrderIds, new \in ExchangeOrders :
              /\ orders[n] = None
              /\ new.side = SideOfJob
              /\ orders'[n] = new
              /\ \A x \in OrderIds : x # n => orders'[x] = orders[x]
      BY <1>3, Placed
  <2>3. CASE side = SideOfJob
    <3>1. \A x \in OrderIds : x # n => x \notin LiveOrders(side)'
        BY <2>1, <2>2, <2>3 DEF LiveOrders
    <3>2. QED
        BY <3>1 DEF LiveOrders
  <2>4. CASE side # SideOfJob
      BY <1>1, <2>2, <2>4 DEF OneLive, LiveOrders
  <2>5. QED
      BY <2>3, <2>4
<1>4. ASSUME NEW n \in OrderIds, Exchange(n) PROVE o = p
  <2>1. /\ orders[n] # None /\ Progress(orders[n], orders'[n])
        /\ \A x \in OrderIds : x # n => orders'[x] = orders[x]
      BY <1>4, Exchanged, TypedParts
  <2>2. LiveOrders(side)' \subseteq LiveOrders(side)
      BY <2>1 DEF LiveOrders, Progress
  <2>3. QED
      BY <1>1, <2>2 DEF OneLive
<1>5. QED
    BY <1>2, <1>3, <1>4, OrdersChange

\* Unless a request failed, the bot never has two live orders on one side, also when
\* a crash separates the order from its Redis copy (findBinanceOrder, main).
THEOREM LedgerOneLiveOrder == Spec => []OneLiveOrderPerSide
<1>1. Init => OneLive
    BY DEF Init, OneLive, LiveOrders
<1>2. Typed /\ OneLive /\ [Next]_vars => OneLive'
    BY OneLiveStep
<1>3. OneLive => OneLiveOrderPerSide
  <2>1. ASSUME OneLive, faults = 0, NEW side \in Sides
        PROVE  Cardinality(LiveOrders(side)) <= 1
      BY <2>1, AtMostOne DEF OneLive
  <2>2. QED
      BY <2>1 DEF OneLiveOrderPerSide, LiveOrders
<1>4. QED
    BY <1>1, <1>2, <1>3, LedgerTyped, PTL DEF Spec

-----------------------------------------------------------------------------
(***************************************************************************)
(* Losses.  An order that nobody can find any more is either forgotten or  *)
(* still trades: abandoned orders count both, so that the exchange's work  *)
(* on an order adds none.                                                  *)
(***************************************************************************)
IsAbandoned(o, cache) ==
    /\ orders[o] # None
    /\ IsLive(orders[o]) \/ HasExecutedQuantity(orders[o])
    /\ rows[o] = 0
    /\ job.id # o
    /\ cache[orders[o].side] = None \/ cache[orders[o].side].id # o

Abandoned(cache) == { o \in OrderIds : IsAbandoned(o, cache) }

FewAbandoned ==
    /\ IsFiniteSet(Abandoned(orderCache))
    /\ Cardinality(Abandoned(orderCache)) <= crashes + faults

\* Forgotten orders are abandoned ones.
LEMMA ForgottenIsAbandoned ==
    FewAbandoned /\ Typed => LossesBounded
<1> SUFFICES ASSUME FewAbandoned, Typed PROVE LossesBounded
    OBVIOUS
<1>1. { o \in OrderIds : Forgotten(o) } \in SUBSET Abandoned(orderCache)
    BY DEF Forgotten, Abandoned, IsAbandoned
<1>2. crashes + faults \in Nat
    BY LedgerAssumption, TypedParts DEF CountsTyped
<1>3. QED
    BY <1>1, <1>2, NoMore DEF FewAbandoned, LossesBounded

\* A step that abandons no order, or one more for a crash or a failing request.
LEMMA FewStay ==
    ASSUME Typed, FewAbandoned, [Next]_vars,
           Abandoned(orderCache)' \subseteq Abandoned(orderCache)
    PROVE  FewAbandoned'
<1>1. crashes + faults \in Nat /\ crashes' + faults' \in Nat
      /\ crashes + faults <= crashes' + faults'
    BY CountsGrow, LedgerAssumption, TypedStep, TypedParts, TypedPartsNext DEF CountsTyped
<1>2. IsFiniteSet(Abandoned(orderCache)') /\
          Cardinality(Abandoned(orderCache)') <= crashes + faults
    BY <1>1, NoMore DEF FewAbandoned
<1>3. Cardinality(Abandoned(orderCache)') \in Nat
    BY <1>2, FS_CardinalityType
<1>4. QED
    BY <1>1, <1>2, <1>3 DEF FewAbandoned

LEMMA FewAndOne ==
    ASSUME Typed, FewAbandoned, crashes' + faults' = crashes + faults + 1, NEW x,
           Abandoned(orderCache)' \subseteq Abandoned(orderCache) \cup {x}
    PROVE  FewAbandoned'
<1>1. crashes + faults \in Nat
    BY LedgerAssumption, TypedParts DEF CountsTyped
<1>2. QED
    BY <1>1, OneMore DEF FewAbandoned

\* Where the maker leaves its order, only the order it was busy with is abandoned,
\* and only by a crash or a failing request.
LEMMA LossesLeft ==
    ASSUME Typed, Followed, FewAbandoned, [Next]_vars, JobLeft \/ JobDropped
    PROVE  FewAbandoned'
<1>1. /\ orders' = orders /\ rows' = rows
      /\ job'.id = None
    BY DEF JobLeft, JobDropped, NoJob
<1>2. job.id \in OrderIds \cup {None}
    BY TypedParts DEF OrdersTyped, Jobs
<1>3. Abandoned(orderCache)' \subseteq Abandoned(orderCache) \cup {job.id}
  <2>1. ASSUME NEW o \in OrderIds, IsAbandoned(o, orderCache)', o # job.id
        PROVE  IsAbandoned(o, orderCache)
    <3>1. orders[o].side \in Sides
        BY <1>1, <2>1, OrderFields, TypedParts DEF IsAbandoned, OrdersTyped
    <3>2. \/ orderCache'[orders[o].side] = orderCache[orders[o].side]
          \/ orderCache[orders[o].side] = None
          \/ orderCache[orders[o].side].id = job.id
      <4>1. CASE JobLeft
          BY <4>1 DEF JobLeft
      <4>2. CASE JobDropped
        <5>1. job.id # None
            BY <4>2, BusyWithOrder DEF JobDropped, Followed, JobFollowed, IsSaved, Busy
        <5>2. QED
            BY <3>1, <4>2, <5>1, Uncached, TypedParts
            DEF JobDropped, OrdersTyped, Followed, JobIsCached
      <4>3. QED
          BY <4>1, <4>2
    <3>3. QED
        BY <1>1, <2>1, <3>2 DEF IsAbandoned
  <2>2. QED
      BY <2>1 DEF Abandoned
<1>4. CASE crashes' + faults' = crashes + faults + 1
    BY <1>3, <1>4, FewAndOne
<1>5. CASE crashes' + faults' # crashes + faults + 1
  <2>1. ASSUME NEW o \in OrderIds, o = job.id PROVE ~IsAbandoned(o, orderCache)'
    <3> USE <2>1
    <3>1. CASE Maker.pc \notin Busy
        BY <1>1, <3>1, LedgerAssumption DEF Followed, JobFollowed, IsAbandoned
    <3>2. CASE Maker.pc \in Busy /\ JobDropped
      <4>1. Follows(job.seen, orders[job.id])
          BY <3>2 DEF Followed, JobFollowed
      <4>2. \/ IsSettled(orders[job.id]) /\ ~HasExecutedQuantity(orders[job.id])
            \/ rows[job.id] # 0
          BY <1>5, <3>2, <4>1, SettledIsFinal DEF JobDropped, FoundVoid, Busy
      <4>3. QED
          BY <1>1, <4>2, SettledIsFinal DEF IsAbandoned
    <3>3. QED
        BY <1>5, <3>1, <3>2 DEF JobLeft
  <2>2. Abandoned(orderCache)' \subseteq Abandoned(orderCache)
      BY <1>2, <1>3, <2>1, LedgerAssumption DEF Abandoned
  <2>3. QED
      BY <2>2, FewStay
<1>6. QED
    BY <1>4, <1>5

\* Work on the order in the maker's hands, the exchange's work and a new order abandon
\* none.
LEMMA LossesKept ==
    ASSUME Typed, Followed, FewAbandoned, [Next]_vars,
           \/ OrdersQuiet \/ JobTried \/ JobSeen \/ JobSaved \/ FindCached \/ FindOpened
           \/ Place \/ CachePlaced \/ \E o \in OrderIds : Exchange(o)
    PROVE  FewAbandoned'
<1> SUFFICES ASSUME NEW o \in OrderIds, IsAbandoned(o, orderCache)'
             PROVE  IsAbandoned(o, orderCache)
    BY FewStay DEF Abandoned
<1>1. OrdersTyped
    BY TypedParts
<1>2. CASE OrdersQuiet \/ JobTried
    BY <1>2 DEF OrdersQuiet, JobTried, IsAbandoned
<1>3. CASE JobSeen \/ CachePlaced
  <2>1. /\ job.id \in OrderIds /\ job.id # None
        /\ orders[job.id] \in ExchangeOrders /\ job.seen \in ExchangeOrders /\ job \in Jobs
      BY <1>3, BusyWithOrder DEF JobSeen, CachePlaced, Busy
  <2>2. orders' = orders /\ rows' = rows /\ job'.id = job.id
      BY <1>3, <2>1 DEF JobSeen, CachePlaced, Jobs
  <2>3. \A side \in Sides :
            \/ orderCache'[side] = orderCache[side]
            \/ orderCache[side] = None \/ orderCache[side].id = job.id
      BY <1>1, <1>3, <2>1, Cached, Uncached
      DEF JobSeen, CachePlaced, OrdersTyped, Followed, JobIsCached
  <2>4. orders[o].side \in Sides
      BY <1>1, <2>2, OrderFields DEF IsAbandoned, OrdersTyped
  <2>5. QED
      BY <2>2, <2>3, <2>4 DEF IsAbandoned
<1>4. CASE JobSaved
    BY <1>1, <1>4, BusyWithOrder DEF JobSaved, Insert, Busy, IsAbandoned, OrdersTyped
<1>5. CASE FindCached
  <2>1. job.id = None /\ UNCHANGED <<orders, rows, orderCache>>
      BY <1>5, TypedParts DEF FindCached, JobFits, IsLooking, Looking, stores
  <2>2. QED
      BY <2>1, LedgerAssumption DEF IsAbandoned
<1>6. CASE FindOpened
  <2>1. job.id = None /\ UNCHANGED <<orders, rows>> /\ orderCache[SideOfJob] = None
      BY <1>6, TypedParts DEF FindOpened, JobFits, IsLooking, Looking
  <2>2. \A side \in Sides : orderCache'[side] = orderCache[side] \/ orderCache[side] = None
      BY <1>1, <1>6, <2>1 DEF FindOpened, OrdersTyped
  <2>3. orders[o].side \in Sides
      BY <1>1, <2>1, OrderFields DEF IsAbandoned, OrdersTyped
  <2>4. QED
      BY <2>1, <2>2, <2>3, LedgerAssumption DEF IsAbandoned
<1>7. CASE Place
  <2>1. job.id = None
      BY <1>7, TypedParts DEF Place, JobFits, IsLooking, Looking
  <2>2. PICK n \in OrderIds, new \in ExchangeOrders :
              /\ \A x \in OrderIds : x # n => orders'[x] = orders[x]
              /\ job'.id = n
              /\ UNCHANGED <<rows, orderCache>>
      BY <1>7, Placed
  <2>3. QED
      BY <2>1, <2>2, LedgerAssumption DEF IsAbandoned
<1>8. ASSUME NEW n \in OrderIds, Exchange(n) PROVE IsAbandoned(o, orderCache)
  <2>1. /\ orders[n] # None /\ Progress(orders[n], orders'[n])
        /\ \A x \in OrderIds : x # n => orders'[x] = orders[x]
      BY <1>1, <1>8, Exchanged
  <2>2. QED
      BY <1>8, <2>1 DEF Exchange, IsAbandoned, Progress
<1>9. QED
    BY <1>2, <1>3, <1>4, <1>5, <1>6, <1>7, <1>8

\* On one side the start takes up a live order that was abandoned, or cached, and may
\* abandon the one that was cached.
LEMMA OneSideCached ==
    ASSUME Typed, job.id = None, NEW side \in Sides,
           NEW c \in [Sides -> CacheEntries], NEW d \in [Sides -> CacheEntries],
           \A other \in Sides : other # side => d[other] = c[other],
           Followed,
           \/ d[side] = c[side]
           \/ \E f \in LiveOrders(side) : d[side] # None /\ d[side].id = f,
           NEW n \in Nat, IsFiniteSet(Abandoned(c)), Cardinality(Abandoned(c)) <= n
    PROVE  IsFiniteSet(Abandoned(d)) /\ Cardinality(Abandoned(d)) <= n
<1>1. OrdersTyped
    BY TypedParts
<1>2. CASE d[side] = c[side]
  <2>1. d = c
      BY <1>2
  <2>2. QED
      BY <2>1
<1>3. ASSUME NEW f \in LiveOrders(side), d[side] # None, d[side].id = f
      PROVE  IsFiniteSet(Abandoned(d)) /\ Cardinality(Abandoned(d)) <= n
  <2>1. f \in OrderIds /\ orders[f] # None /\ orders[f].side = side /\ IsLive(orders[f])
      BY DEF LiveOrders
  <2>2. rows[f] = 0
      BY <1>1, <2>1, SettledIsFinal DEF Followed, RowsAreFinal, OrdersTyped
  <2>3. CASE c[side] # None /\ c[side].id = f
    <3>1. Abandoned(d) \in SUBSET Abandoned(c)
        BY <1>1, <1>3, <2>3, OrderFields DEF Abandoned, IsAbandoned, OrdersTyped
    <3>2. QED
        BY <3>1, NoMore
  <2>4. CASE ~(c[side] # None /\ c[side].id = f)
    <3>1. f \in Abandoned(c)
        BY <2>1, <2>2, <2>4, LedgerAssumption DEF Abandoned, IsAbandoned
    <3>2. Abandoned(d) \in SUBSET ((Abandoned(c) \ {f}) \cup {c[side].id})
      <4>1. ASSUME NEW o \in OrderIds, IsAbandoned(o, d), o # c[side].id
            PROVE  IsAbandoned(o, c) /\ o # f
        <5>1. orders[o].side \in Sides
            BY <1>1, <4>1, OrderFields DEF IsAbandoned, OrdersTyped
        <5>2. CASE orders[o].side = side
            BY <1>3, <4>1, <5>2 DEF IsAbandoned
        <5>3. CASE orders[o].side # side
            BY <2>1, <4>1, <5>1, <5>3 DEF IsAbandoned
        <5>4. QED
            BY <5>2, <5>3
      <4>2. QED
          BY <4>1 DEF Abandoned
    <3> DEFINE A == Abandoned(c)
               B == Abandoned(d)
               x == c[side].id
    <3>3. f \in A /\ B \in SUBSET ((A \ {f}) \cup {x}) /\ IsFiniteSet(A) /\ Cardinality(A) <= n
        BY <3>1, <3>2
    <3> HIDE DEF A, B, x
    <3>4. IsFiniteSet(B) /\ Cardinality(B) <= n
        BY <3>3, OneForAnother
    <3>5. QED
        BY <3>4 DEF B
  <2>5. QED
      BY <2>3, <2>4
<1>4. QED
    BY <1>2, <1>3

LEMMA LossesBoot ==
    ASSUME Typed, Followed, FewAbandoned, [Next]_vars, Boot
    PROVE  FewAbandoned'
<1>1. job.id = None /\ UNCHANGED <<orders, rows, job>>
    BY TypedParts DEF Boot, JobFits, Free, NoJob
<1>2. /\ orderCache \in [Sides -> CacheEntries] /\ orderCache' \in [Sides -> CacheEntries]
      /\ crashes + faults \in Nat
    BY Booted, LedgerAssumption, TypedParts DEF OrdersTyped, CountsTyped
<1> DEFINE mid == [orderCache EXCEPT !["BUY"] = orderCache'["BUY"]]
<1>3. /\ mid \in [Sides -> CacheEntries]
      /\ mid["BUY"] = orderCache'["BUY"] /\ mid["SELL"] = orderCache["SELL"]
    BY <1>2 DEF Sides
<1> HIDE DEF mid
<1>4. \A side \in Sides :
          \/ orderCache'[side] = orderCache[side]
          \/ \E f \in LiveOrders(side) : orderCache'[side] # None /\ orderCache'[side].id = f
    BY Booted
<1>5. IsFiniteSet(Abandoned(mid)) /\ Cardinality(Abandoned(mid)) <= crashes + faults
    BY <1>1, <1>2, <1>3, <1>4, OneSideCached DEF FewAbandoned, Sides
<1>6. IsFiniteSet(Abandoned(orderCache')) /\
          Cardinality(Abandoned(orderCache')) <= crashes + faults
    BY <1>1, <1>2, <1>3, <1>4, <1>5, OneSideCached DEF Sides
<1>7. Abandoned(orderCache)' = Abandoned(orderCache')
    BY <1>1 DEF Abandoned, IsAbandoned
<1>8. crashes' + faults' \in Nat /\ crashes + faults <= crashes' + faults'
    BY CountsGrow, LedgerAssumption, TypedStep, TypedParts, TypedPartsNext DEF CountsTyped
<1>9. Cardinality(Abandoned(orderCache')) \in Nat
    BY <1>6, FS_CardinalityType
<1>10. QED
    BY <1>2, <1>6, <1>7, <1>8, <1>9 DEF FewAbandoned

LEMMA LossesStep ==
    ASSUME Typed, Followed, FewAbandoned, [Next]_vars
    PROVE  FewAbandoned'
BY OrderSteps, LossesLeft, LossesKept, LossesBoot DEF OrderStep

\* No step forgets an execution but a crash or a failed request, and each of them
\* forgets at most one order (LossesBounded), for every number of them.
THEOREM LedgerLossesBounded == Spec => []LossesBounded
<1>1. Init => FewAbandoned
  <2>1. Init => Abandoned(orderCache) = {} /\ crashes = 0 /\ faults = 0
      BY DEF Init, Abandoned, IsAbandoned
  <2>2. QED
      BY <2>1, FS_EmptySet DEF FewAbandoned
<1>2. Typed /\ Followed /\ FewAbandoned /\ [Next]_vars => FewAbandoned'
    BY LossesStep
<1>3. Typed /\ FewAbandoned => LossesBounded
    BY ForgottenIsAbandoned
<1>4. QED
    BY <1>1, <1>2, <1>3, LedgerTyped, LedgerFollowed, PTL DEF Spec
=============================================================================
