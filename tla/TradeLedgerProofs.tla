------------------------- MODULE TradeLedgerProofs -------------------------
(***************************************************************************)
(* Proofs about TradeLedger, for every set of orders, positions, pollers,  *)
(* handlers and readers, every quantity and every number of crashes and failures.   *)
(* The invariants come in layers: the first says where each goroutine is   *)
(* and what it then holds; each of the others rests on those before it.    *)
(***************************************************************************)
EXTENDS TradeLedger, FiniteSetTheorems, TLAPS

-----------------------------------------------------------------------------
(***************************************************************************)
(* What a goroutine holds at each point.                                   *)
(***************************************************************************)

\* The maker has no operation under way, looks for an order, or is busy with one.
Free == {"boot", "idle", "select", "fill", "decide", "swapping", "armed",
         "makeSwap", "createSwap"}
Looking == {"find", "quantity"}
Busy == {"placed", "try", "wait", "save"}

HasCopy == {"fill", "close", "quantity", "swapping", "armed", "makeSwap", "createSwap"}

\* What is read, turned over or written is there.
HoldsWhatItUses(s) ==
    /\ s.pc \in HasCopy => s.copy # None
    /\ s.pc \in {"delete", "write"} => s.draft # None

AgentsHold == \A a \in Agents : HoldsWhatItUses(agent[a])

IsLooking(s) == s.pc \in Looking \/ (s.pc \in {"delete", "write"} /\ s.then = "find")

\* The job fits the maker's place.
JobFits(s, j) ==
    /\ s.pc \in Free => j = NoJob
    /\ IsLooking(s) => j.id = None
    /\ s.pc \in Busy => j.id # None /\ j.seen # None
    /\ j.op \in {"BuyExtra", "Sell"} => s.copy # None

\* The exchange knows the orders that are worked on or cached.
OrdersExist ==
    /\ Maker.pc \in Busy => orders[job.id] # None
    /\ \A side \in Sides : orderCache[side] # None => orders[orderCache[side].id] # None

Control == AgentsHold /\ JobFits(Maker, job) /\ OrdersExist

Typed == TypeOK /\ Control

AgentsTyped == agent \in [Agents -> AgentStates] /\ AgentsHold

-----------------------------------------------------------------------------
(***************************************************************************)
(* What the operators on goroutines do.                                    *)
(***************************************************************************)
Pcs == {"boot", "idle", "select", "fill", "delete", "write", "decide",
        "quantity", "find", "placed", "try", "wait", "save", "commission",
        "cleanup", "close", "swapping", "armed", "makeSwap", "createSwap"}

\* The state of a goroutine and its fields.
LEMMA StateFields ==
    ASSUME NEW s \in AgentStates
    PROVE  /\ s.pc \in Pcs
           /\ s.copy \in Copies \cup {None}
           /\ s.draft \in Copies \cup {None}
           /\ s.then \in {"idle", "find", "cleanup"}
BY DEF AgentStates, Pcs

\* The maker and the pollers are goroutines of their own.
LEMMA MakerIsAgent ==
    /\ "maker" \in Agents
    /\ \A a \in Pollers \cup Clerks \cup Readers : a \in Agents /\ a # "maker"
    /\ \A a \in Clerks \cup Readers : a \notin Pollers
BY LedgerAssumption DEF Agents

\* The idle goroutine holds nothing.
LEMMA IdleState ==
    /\ IdleAgent \in AgentStates
    /\ IdleAgent.pc = "idle" /\ IdleAgent.copy = None /\ IdleAgent.draft = None
    /\ IdleAgent.then = "idle"
    /\ HoldsWhatItUses(IdleAgent)
BY DEF IdleAgent, AgentStates, HoldsWhatItUses, HasCopy

\* One goroutine takes a new state, the others keep theirs.
LEMMA Moved ==
    ASSUME AgentsTyped, NEW a \in Agents, NEW s \in AgentStates,
           HoldsWhatItUses(s), agent' = [agent EXCEPT ![a] = s]
    PROVE  /\ AgentsTyped'
           /\ agent'[a] = s
           /\ \A b \in Agents : b # a => agent'[b] = agent[b]
BY DEF AgentsTyped, AgentsHold

\* Continue changes where the goroutine is, and nothing else.
LEMMA Continued ==
    ASSUME AgentsTyped, NEW a \in Agents, NEW pc \in Pcs,
           pc \in HasCopy => agent[a].copy # None,
           pc \in {"delete", "write"} => agent[a].draft # None,
           Continue(a, pc)
    PROVE  /\ AgentsTyped'
           /\ agent'[a].pc = pc
           /\ agent'[a].copy = agent[a].copy
           /\ agent'[a].draft = agent[a].draft
           /\ agent'[a].then = agent[a].then
           /\ \A b \in Agents : b # a => agent'[b] = agent[b]
<1> DEFINE s == [agent[a] EXCEPT !.pc = pc]
<1>1. agent[a] \in AgentStates
    BY DEF AgentsTyped
<1>2. /\ s \in AgentStates
      /\ s.pc = pc /\ s.copy = agent[a].copy /\ s.draft = agent[a].draft
      /\ s.then = agent[a].then
    BY <1>1 DEF AgentStates, Pcs
<1>3. HoldsWhatItUses(s)
    BY <1>2 DEF HoldsWhatItUses
<1>4. agent' = [agent EXCEPT ![a] = s]
    BY DEF Continue
<1>5. QED
    BY <1>2, <1>3, <1>4, Moved

\* The same for the place alone, wherever it is.
LEMMA ContinuedAt ==
    ASSUME AgentsTyped, NEW a \in Agents, NEW pc, Continue(a, pc)
    PROVE  agent'[a].pc = pc /\ agent'[a].then = agent[a].then
<1>1. agent[a] \in AgentStates
    BY DEF AgentsTyped
<1>2. [agent[a] EXCEPT !.pc = pc].pc = pc
      /\ [agent[a] EXCEPT !.pc = pc].then = agent[a].then
    BY <1>1 DEF AgentStates
<1>3. agent'[a] = [agent[a] EXCEPT !.pc = pc]
    BY DEF Continue, AgentsTyped
<1>4. QED
    BY <1>2, <1>3

\* BeginUpdate leaves the copy alone and takes the draft to write.
LEMMA Began ==
    ASSUME AgentsTyped, NEW a \in Agents, NEW draft \in Copies,
           NEW then \in {"idle", "find", "cleanup"}, BeginUpdate(a, draft, then)
    PROVE  /\ AgentsTyped'
           /\ agent'[a].pc = "delete"
           /\ agent'[a].copy = agent[a].copy
           /\ agent'[a].draft = draft
           /\ agent'[a].then = then
           /\ \A b \in Agents : b # a => agent'[b] = agent[b]
<1> DEFINE s == [agent[a] EXCEPT !.pc = "delete", !.draft = draft, !.then = then]
<1>1. agent[a] \in AgentStates
    BY DEF AgentsTyped
<1>2. /\ s \in AgentStates
      /\ s.pc = "delete" /\ s.copy = agent[a].copy /\ s.draft = draft /\ s.then = then
    BY <1>1 DEF AgentStates
<1>3. HoldsWhatItUses(s)
    BY <1>2, NoneAssumption DEF HoldsWhatItUses, HasCopy
<1>4. agent' = [agent EXCEPT ![a] = s]
    BY DEF BeginUpdate
<1>5. QED
    BY <1>2, <1>3, <1>4, Moved

\* Finish makes the goroutine idle.
LEMMA Finished ==
    ASSUME AgentsTyped, NEW a \in Agents, Finish(a)
    PROVE  /\ AgentsTyped'
           /\ agent'[a] = IdleAgent
           /\ \A b \in Agents : b # a => agent'[b] = agent[b]
BY IdleState, Moved DEF Finish

\* A loaded position is the maker's copy; another reader is done with it.
LEMMA LoadedCopy ==
    ASSUME AgentsTyped, NEW a \in Agents, NEW copy \in Copies \cup {None},
           Loaded(a, copy)
    PROVE  /\ AgentsTyped'
           /\ agent'[a].pc = IF a = "maker" THEN "decide" ELSE "idle"
           /\ agent'[a].copy = IF a = "maker" THEN copy ELSE None
           /\ agent'[a].draft = None
           /\ agent'[a].then = "idle"
           /\ \A b \in Agents : b # a => agent'[b] = agent[b]
<1> DEFINE s == [IdleAgent EXCEPT !.pc = "decide", !.copy = copy]
<1>1. /\ s \in AgentStates
      /\ s.pc = "decide" /\ s.copy = copy /\ s.draft = None /\ s.then = "idle"
    BY DEF AgentStates, IdleAgent
<1>2. HoldsWhatItUses(s)
    BY <1>1 DEF HoldsWhatItUses, HasCopy
<1> HIDE DEF s
<1>3. agent' = [agent EXCEPT ![a] = IF a = "maker" THEN s ELSE IdleAgent]
    BY DEF Loaded, s
<1>4. CASE a = "maker"
  <2>1. agent' = [agent EXCEPT ![a] = s]
      BY <1>3, <1>4
  <2>2. AgentsTyped' /\ agent'[a] = s /\ \A b \in Agents : b # a => agent'[b] = agent[b]
      BY <1>1, <1>2, <2>1, Moved
  <2>3. QED
      BY <1>1, <1>4, <2>2
<1>5. CASE a # "maker"
    BY <1>3, <1>5, Moved, IdleState
<1>6. QED
    BY <1>4, <1>5

-----------------------------------------------------------------------------
(***************************************************************************)
(* The type invariant.                                                     *)
(***************************************************************************)
OrdersTyped ==
    /\ orders \in [OrderIds -> ExchangeOrders \cup {None}]
    /\ rows \in [OrderIds -> Nat]
    /\ orderCache \in [Sides -> CacheEntries]
    /\ job \in Jobs

PositionsTyped ==
    /\ position \in [PositionIds -> PositionRows]
    /\ bought \in [PositionIds -> Nat]
    /\ sold \in [PositionIds -> Nat]
    /\ swaps \in [PositionIds -> Nat]
    /\ openedCache \in Copies \cup {None}

CountsTyped == crashes \in 0..MaxCrashes /\ faults \in 0..MaxFaults

\* The type invariant with what the goroutines hold, by parts.
LEMMA TypedParts ==
    Typed <=> /\ OrdersTyped /\ PositionsTyped /\ CountsTyped /\ AgentsTyped
              /\ JobFits(Maker, job) /\ OrdersExist
BY DEF Typed, TypeOK, Control, OrdersTyped, PositionsTyped, CountsTyped, AgentsTyped

\* The same after a step.
LEMMA TypedPartsNext ==
    Typed' <=> /\ OrdersTyped' /\ PositionsTyped' /\ CountsTyped' /\ AgentsTyped'
               /\ JobFits(Maker, job)' /\ OrdersExist'
BY DEF Typed, TypeOK, Control, OrdersTyped, PositionsTyped, CountsTyped, AgentsTyped

\* A copy of a position's row has the type of copies.
LEMMA CopyTyped ==
    ASSUME PositionsTyped, NEW p \in OpenedPositions
    PROVE  CopyOf(p) \in Copies /\ CopyOf(p).id = p
BY DEF PositionsTyped, OpenedPositions, CopyOf, Copies, PositionRows

\* A copy and its fields.
LEMMA CopyFields ==
    ASSUME NEW c \in Copies
    PROVE  /\ c # None
           /\ c.id \in PositionIds /\ c.status \in {"opened", "closed"}
           /\ c.exec \in Nat /\ c.swap \in BOOLEAN /\ c.sold \in Nat
BY NoneAssumption DEF Copies

\* An order and its fields.
LEMMA OrderFields ==
    ASSUME NEW o \in ExchangeOrders
    PROVE  /\ o # None
           /\ o.side \in Sides /\ o.status \in Statuses
           /\ o.executed \in Nat /\ o.orig \in Nat
BY NoneAssumption DEF ExchangeOrders

\* A failing request is counted, within its bound.
LEMMA FaultCounted ==
    ASSUME CountsTyped, RequestFails
    PROVE  faults' \in 0..MaxFaults /\ faults' = faults + 1
BY LedgerAssumption DEF CountsTyped, RequestFails

\* The initial states are typed.
LEMMA TypedInit == Init => Typed
<1> SUFFICES ASSUME Init PROVE Typed
    OBVIOUS
<1>1. OrdersTyped
    BY DEF Init, OrdersTyped, CacheEntries, Jobs, NoJob
<1>2. PositionsTyped
    BY DEF Init, PositionsTyped, PositionRows
<1>3. CountsTyped
    BY LedgerAssumption DEF Init, CountsTyped
<1>4. AgentsTyped
    BY IdleState DEF Init, AgentsTyped, AgentsHold
<1>5. Maker = IdleAgent /\ job = NoJob
    BY MakerIsAgent DEF Init, Maker
<1>6. JobFits(Maker, job)
    BY <1>5, IdleState DEF JobFits, Free, IsLooking, Looking, Busy, NoJob
<1>7. OrdersExist
    BY <1>5, IdleState DEF Init, OrdersExist, Busy
<1>8. QED
    BY <1>1, <1>2, <1>3, <1>4, <1>6, <1>7, TypedParts

\* A step that leaves the orders, their cache and the job alone keeps the parts on
\* orders and the job when the maker keeps still or goes where the job fits.
LEMMA OrdersKept ==
    ASSUME OrdersTyped, OrdersExist, UNCHANGED <<orders, rows, orderCache, job>>,
           Maker'.pc \in Busy => Maker.pc \in Busy
    PROVE  OrdersTyped' /\ OrdersExist'
BY DEF OrdersTyped, OrdersExist

\* A goroutine other than the maker does not touch the job.
LEMMA JobKept ==
    ASSUME JobFits(Maker, job), UNCHANGED job, Maker' = Maker
    PROVE  JobFits(Maker, job)'
BY DEF JobFits

-----------------------------------------------------------------------------
(***************************************************************************)
(* Reading the opened position.                                            *)
(***************************************************************************)

\* A goroutine that reads the position keeps the stores and the job typed when the
\* agents' part holds and it goes no further than to decide.
LEMMA ReadingTyped ==
    ASSUME Typed, NEW a \in Loaders, AgentsTyped',
           agent[a].pc \in {"idle", "select", "fill"},
           agent'[a].pc \in {"idle", "select", "fill", "decide"},
           \A b \in Agents : b # a => agent'[b] = agent[b],
           UNCHANGED <<orders, rows, orderCache, job>>,
           PositionsTyped', CountsTyped'
    PROVE  Typed'
<1>1. CASE a = "maker"
  <2>1. Maker' = agent'["maker"] /\ Maker = agent["maker"]
      BY DEF Maker
  <2>2. job' = NoJob
      BY <1>1, <2>1, TypedParts DEF JobFits, Free
  <2>3. JobFits(Maker, job)'
      BY <1>1, <2>1, <2>2 DEF JobFits, IsLooking, Looking, Busy, NoJob
  <2>4. OrdersTyped' /\ OrdersExist'
      BY <1>1, <2>1, OrdersKept, TypedParts DEF Busy
  <2>5. QED
      BY <2>3, <2>4, TypedPartsNext
<1>2. CASE a # "maker"
  <2>1. Maker' = Maker
      BY <1>2, MakerIsAgent DEF Maker
  <2>2. QED
      BY <2>1, OrdersKept, JobKept, TypedParts, TypedPartsNext
<1>3. QED
    BY <1>1, <1>2

LEMMA LoaderIsAgent == \A a \in Loaders : a \in Agents
BY MakerIsAgent DEF Loaders

\* The four steps of GetOpenedOrderCached keep the types.
LEMMA LoadCachedTyped ==
    ASSUME Typed, NEW a \in Loaders, LoadCached(a)
    PROVE  Typed'
<1>1. AgentsTyped /\ a \in Agents /\ PositionsTyped
    BY TypedParts, LoaderIsAgent
<1>2. /\ AgentsTyped' /\ agent'[a].pc \in {"idle", "select", "decide"}
      /\ \A b \in Agents : b # a => agent'[b] = agent[b]
  <2>1. CASE openedCache # None
      BY <1>1, <2>1, LoadedCopy DEF LoadCached, PositionsTyped
  <2>2. CASE openedCache = None
      BY <1>1, <2>2, Continued DEF LoadCached, Pcs, HasCopy
  <2>3. QED
      BY <2>1, <2>2
<1>3. PositionsTyped' /\ CountsTyped'
    BY TypedParts DEF LoadCached, stores, PositionsTyped, CountsTyped
<1>4. QED
    BY <1>2, <1>3, ReadingTyped DEF LoadCached, stores

LEMMA SelectTyped ==
    ASSUME Typed, NEW a \in Loaders, Select(a)
    PROVE  Typed'
<1>1. AgentsTyped /\ a \in Agents /\ PositionsTyped
    BY TypedParts, LoaderIsAgent
<1>2. /\ AgentsTyped' /\ agent'[a].pc \in {"idle", "fill", "decide"}
      /\ \A b \in Agents : b # a => agent'[b] = agent[b]
  <2>1. CASE Loaded(a, None)
      BY <1>1, <2>1, LoadedCopy
  <2>2. ASSUME NEW p \in OpenedPositions,
               agent' = [agent EXCEPT ![a].pc = "fill", ![a].copy = CopyOf(p)]
        PROVE  <1>2!1 /\ <1>2!2
    <3> DEFINE s == [agent[a] EXCEPT !.pc = "fill", !.copy = CopyOf(p)]
    <3>1. CopyOf(p) \in Copies /\ CopyOf(p) # None
        BY <1>1, CopyTyped, CopyFields
    <3>2. s \in AgentStates /\ s.pc = "fill" /\ s.copy = CopyOf(p)
        BY <1>1, <3>1 DEF AgentsTyped, AgentStates
    <3>3. HoldsWhatItUses(s)
        BY <3>1, <3>2 DEF HoldsWhatItUses
    <3>4. agent' = [agent EXCEPT ![a] = s]
        BY <2>2
    <3> HIDE DEF s
    <3>5. QED
        BY <1>1, <3>2, <3>3, <3>4, Moved
  <2>3. QED
      BY <2>1, <2>2 DEF Select
<1>3. PositionsTyped' /\ CountsTyped'
    BY TypedParts DEF Select, stores, PositionsTyped, CountsTyped
<1>4. QED
    BY <1>2, <1>3, ReadingTyped DEF Select, stores

LEMMA SelectFailsTyped ==
    ASSUME Typed, NEW a \in Loaders, SelectFails(a)
    PROVE  Typed'
<1>1. AgentsTyped /\ a \in Agents
    BY TypedParts, LoaderIsAgent
<1>2. /\ AgentsTyped' /\ agent'[a].pc \in {"idle", "decide"}
      /\ \A b \in Agents : b # a => agent'[b] = agent[b]
    BY <1>1, LoadedCopy DEF SelectFails
<1>3. PositionsTyped'
    BY TypedParts DEF SelectFails, stores, PositionsTyped
<1>4. CountsTyped'
    BY TypedParts, FaultCounted DEF SelectFails, CountsTyped
<1>5. QED
    BY <1>2, <1>3, <1>4, ReadingTyped DEF SelectFails, stores

LEMMA FillTyped ==
    ASSUME Typed, NEW a \in Loaders, Fill(a)
    PROVE  Typed'
<1>1. AgentsTyped /\ a \in Agents /\ PositionsTyped
    BY TypedParts, LoaderIsAgent
<1>2. agent[a].copy \in Copies
    BY <1>1 DEF Fill, AgentsTyped, AgentsHold, HoldsWhatItUses, HasCopy, AgentStates
<1>3. /\ AgentsTyped' /\ agent'[a].pc \in {"idle", "decide"}
      /\ \A b \in Agents : b # a => agent'[b] = agent[b]
    BY <1>1, <1>2, LoadedCopy DEF Fill
<1>4. PositionsTyped' /\ CountsTyped'
    BY <1>2, TypedParts DEF Fill, PositionsTyped, CountsTyped
<1>5. QED
    BY <1>3, <1>4, ReadingTyped DEF Fill

-----------------------------------------------------------------------------
(***************************************************************************)
(* Rewriting a position's row.                                             *)
(***************************************************************************)
Writers == {"maker"} \cup Pollers \cup Clerks

LEMMA WriterIsAgent == \A a \in Writers : a \in Agents
BY MakerIsAgent DEF Writers

\* A step of another goroutine leaves the parts on orders and the job alone.
LEMMA OtherTyped ==
    ASSUME Typed, NEW a \in Agents, a # "maker", AgentsTyped',
           \A b \in Agents : b # a => agent'[b] = agent[b],
           UNCHANGED <<orders, rows, orderCache, job>>,
           PositionsTyped', CountsTyped'
    PROVE  Typed'
<1>1. Maker' = Maker
    BY MakerIsAgent DEF Maker
<1>2. QED
    BY <1>1, OrdersKept, JobKept, TypedParts, TypedPartsNext

\* An operation of the maker that ends with an error leaves no job.
LEMMA FailTyped ==
    ASSUME Typed, Fail
    PROVE  /\ AgentsTyped'
           /\ job' = NoJob
           /\ Maker'.pc \in {"idle", "makeSwap"}
           /\ Maker'.copy = Maker.copy \/ Maker'.copy = None
           /\ Maker'.draft = Maker.draft \/ Maker'.draft = None
           /\ \A b \in Agents : b # "maker" => agent'[b] = agent[b]
           /\ JobFits(Maker, job)'
<1>1. AgentsTyped /\ "maker" \in Agents
    BY TypedParts, MakerIsAgent
<1>2. CASE Finish("maker")
  <2>1. AgentsTyped' /\ Maker' = IdleAgent
        /\ \A b \in Agents : b # "maker" => agent'[b] = agent[b]
      BY <1>1, <1>2, Finished DEF Maker
  <2>2. QED
      BY <2>1, IdleState DEF Fail, JobFits, IsLooking, Looking, Busy, NoJob
<1>3. CASE job.op = "BuyExtra" /\ Continue("maker", "makeSwap")
  <2>1. agent["maker"].copy # None
      BY <1>3, TypedParts DEF JobFits, Maker
  <2>2. /\ AgentsTyped'
        /\ Maker'.pc = "makeSwap" /\ Maker'.copy = Maker.copy /\ Maker'.draft = Maker.draft
        /\ \A b \in Agents : b # "maker" => agent'[b] = agent[b]
      BY <1>1, <1>3, <2>1, Continued DEF Maker, Pcs
  <2>3. QED
      BY <2>2 DEF Fail, JobFits, IsLooking, Looking, Busy, NoJob
<1>4. QED
    BY <1>2, <1>3 DEF Fail

\* The three steps of OrderRepository.Update keep the types.
LEMMA DeleteCacheTyped ==
    ASSUME Typed, NEW a \in Writers, DeleteCache(a)
    PROVE  Typed'
<1>1. AgentsTyped /\ a \in Agents /\ agent[a].pc = "delete"
    BY TypedParts, WriterIsAgent DEF DeleteCache
<1>2. agent[a].draft # None
    BY <1>1 DEF AgentsTyped, AgentsHold, HoldsWhatItUses
<1>3. /\ AgentsTyped' /\ agent'[a].pc = "write" /\ agent'[a].copy = agent[a].copy
      /\ agent'[a].then = agent[a].then
      /\ \A b \in Agents : b # a => agent'[b] = agent[b]
    BY <1>1, <1>2, Continued DEF DeleteCache, Pcs, HasCopy
<1>4. PositionsTyped' /\ CountsTyped'
    BY TypedParts DEF DeleteCache, DeleteOpenedOrderCache, PositionsTyped, CountsTyped
<1>5. CASE a # "maker"
    BY <1>1, <1>3, <1>4, <1>5, OtherTyped DEF DeleteCache
<1>6. CASE a = "maker"
  <2>1. JobFits(Maker, job)'
      BY <1>1, <1>3, <1>6, TypedParts
      DEF DeleteCache, JobFits, Maker, Free, IsLooking, Looking, Busy
  <2>2. OrdersTyped' /\ OrdersExist'
      BY <1>3, <1>6, OrdersKept, TypedParts DEF DeleteCache, Maker, Busy
  <2>3. QED
      BY <1>3, <1>4, <2>1, <2>2, TypedPartsNext
<1>7. QED
    BY <1>5, <1>6

LEMMA WriteTyped ==
    ASSUME Typed, NEW a \in Writers, Write(a)
    PROVE  Typed'
<1>1. AgentsTyped /\ a \in Agents /\ agent[a].pc = "write" /\ agent[a] \in AgentStates
    BY TypedParts, WriterIsAgent DEF Write, AgentsTyped
<1>2. agent[a].draft \in Copies
    BY <1>1, StateFields DEF AgentsTyped, AgentsHold, HoldsWhatItUses
<1>3. PositionsTyped' /\ CountsTyped'
    BY <1>2, TypedParts
    DEF Write, PositionsTyped, CountsTyped, RowOf, Copies, PositionRows
<1>4. CASE agent[a].then = "idle"
  <2>1. AgentsTyped' /\ agent'[a] = IdleAgent
        /\ \A b \in Agents : b # a => agent'[b] = agent[b]
      BY <1>1, <1>4, Finished DEF Write
  <2>2. CASE a # "maker"
      BY <1>1, <1>3, <1>4, <2>1, <2>2, OtherTyped DEF Write
  <2>3. CASE a = "maker"
    <3>1. Maker' = IdleAgent /\ job' = NoJob
        BY <1>4, <2>1, <2>3 DEF Maker, Write
    <3>2. JobFits(Maker, job)'
        BY <3>1, IdleState DEF JobFits, Free, IsLooking, Looking, Busy, NoJob
    <3>3. OrdersTyped' /\ OrdersExist'
        BY <3>1, IdleState, TypedParts
        DEF Write, OrdersTyped, OrdersExist, Busy, Jobs, NoJob
    <3>4. QED
        BY <1>3, <2>1, <3>2, <3>3, TypedPartsNext
  <2>4. QED
      BY <2>2, <2>3
<1>5. CASE agent[a].then # "idle"
  <2>1. agent[a].then \in {"find", "cleanup"}
      BY <1>1, <1>5, StateFields
  <2>2. /\ AgentsTyped' /\ agent'[a].pc = agent[a].then
        /\ agent'[a].copy = agent[a].copy
        /\ \A b \in Agents : b # a => agent'[b] = agent[b]
      BY <1>1, <1>5, <2>1, Continued DEF Write, Pcs, HasCopy
  <2>3. CASE a # "maker"
      BY <1>1, <1>3, <1>5, <2>2, <2>3, OtherTyped DEF Write
  <2>4. CASE a = "maker"
    <3>1. JobFits(Maker, job)'
        BY <1>1, <1>5, <2>1, <2>2, <2>4, TypedParts
        DEF Write, JobFits, Maker, Free, IsLooking, Looking, Busy
    <3>2. OrdersTyped' /\ OrdersExist'
        BY <1>5, <2>1, <2>2, <2>4, OrdersKept, TypedParts DEF Write, Maker, Busy
    <3>3. QED
        BY <1>3, <2>2, <3>1, <3>2, TypedPartsNext
  <2>5. QED
      BY <2>3, <2>4
<1>6. QED
    BY <1>4, <1>5

LEMMA WriteFailsTyped ==
    ASSUME Typed, NEW a \in Writers, WriteFails(a)
    PROVE  Typed'
<1>1. AgentsTyped /\ a \in Agents /\ agent[a].pc = "write"
    BY TypedParts, WriterIsAgent DEF WriteFails
<1>2. PositionsTyped'
    BY TypedParts DEF WriteFails, stores, PositionsTyped
<1>3. CountsTyped'
    BY TypedParts, FaultCounted DEF WriteFails, CountsTyped
<1>4. CASE agent[a].then = "find"
  <2>1. /\ AgentsTyped' /\ agent'[a].pc = "find"
        /\ agent'[a].copy = agent[a].copy
        /\ \A b \in Agents : b # a => agent'[b] = agent[b]
      BY <1>1, <1>4, Continued DEF WriteFails, Pcs, HasCopy
  <2>2. CASE a # "maker"
      BY <1>1, <1>2, <1>3, <1>4, <2>1, <2>2, OtherTyped DEF WriteFails, stores
  <2>3. CASE a = "maker"
    <3>1. JobFits(Maker, job)'
        BY <1>1, <1>4, <2>1, <2>3, TypedParts
        DEF WriteFails, JobFits, Maker, Free, IsLooking, Looking, Busy
    <3>2. OrdersTyped' /\ OrdersExist'
        BY <1>4, <2>1, <2>3, OrdersKept, TypedParts DEF WriteFails, stores, Maker, Busy
    <3>3. QED
        BY <1>2, <1>3, <2>1, <3>1, <3>2, TypedPartsNext
  <2>4. QED
      BY <2>2, <2>3
<1>5. CASE agent[a].then # "find" /\ a = "maker"
  <2>1. Fail
      BY <1>5 DEF WriteFails
  <2>2. OrdersTyped' /\ OrdersExist'
      BY <2>1, FailTyped, TypedParts
      DEF WriteFails, stores, OrdersTyped, OrdersExist, Busy, Jobs, NoJob
  <2>3. QED
      BY <1>2, <1>3, <2>1, <2>2, FailTyped, TypedPartsNext
<1>6. CASE agent[a].then # "find" /\ a # "maker"
    BY <1>1, <1>2, <1>3, <1>6, Finished, OtherTyped DEF WriteFails, stores
<1>7. QED
    BY <1>4, <1>5, <1>6

\* Editing a position over HTTP keeps the types.
LEMMA EditTyped ==
    ASSUME Typed, NEW c \in Clerks, Edit(c)
    PROVE  Typed'
<1>1. AgentsTyped /\ PositionsTyped /\ c \in Agents /\ c # "maker"
    BY TypedParts, MakerIsAgent
<1>2. PICK p \in OpenedPositions : BeginUpdate(c, CopyOf(p), "idle")
    BY DEF Edit
<1>3. AgentsTyped' /\ \A b \in Agents : b # c => agent'[b] = agent[b]
    BY <1>1, <1>2, CopyTyped, Began
<1>4. PositionsTyped' /\ CountsTyped'
    BY TypedParts DEF Edit, stores, PositionsTyped, CountsTyped
<1>5. QED
    BY <1>1, <1>3, <1>4, OtherTyped DEF Edit, stores

-----------------------------------------------------------------------------
(***************************************************************************)
(* Starting a swap.                                                        *)
(***************************************************************************)

\* A goroutine between MakeSwap and its row keeps the types.
LEMMA SwapperTyped ==
    ASSUME Typed, NEW a \in Swappers, AgentsTyped',
           agent[a].pc \in {"makeSwap", "createSwap"},
           agent'[a].pc \in {"idle", "createSwap"} \/
               (agent'[a].pc = "delete" /\ agent'[a].then = "idle"),
           \A b \in Agents : b # a => agent'[b] = agent[b],
           UNCHANGED <<orders, rows, orderCache, job>>,
           PositionsTyped', CountsTyped'
    PROVE  Typed'
<1>1. a \in Agents
    BY MakerIsAgent DEF Swappers
<1>2. CASE a # "maker"
    BY <1>1, <1>2, OtherTyped
<1>3. CASE a = "maker"
  <2>1. job' = NoJob
      BY <1>3, TypedParts DEF JobFits, Free, Maker
  <2>2. JobFits(Maker, job)'
      BY <1>3, <2>1 DEF JobFits, IsLooking, Looking, Busy, NoJob, Maker
  <2>3. OrdersTyped' /\ OrdersExist'
      BY <1>3, OrdersKept, TypedParts DEF Maker, Busy
  <2>4. QED
      BY <2>2, <2>3, TypedPartsNext
<1>4. QED
    BY <1>2, <1>3

LEMMA SwapperIsAgent == \A a \in Swappers : a \in Agents
BY MakerIsAgent DEF Swappers

\* The goroutine that is to start a swap has the copy of a position.
LEMMA SwapperHasCopy ==
    ASSUME AgentsTyped, NEW a \in Agents, agent[a].pc \in HasCopy
    PROVE  agent[a].copy \in Copies
BY StateFields DEF AgentsTyped, AgentsHold, HoldsWhatItUses

LEMMA MakeSwapTyped ==
    ASSUME Typed, NEW a \in Swappers, MakeSwap(a)
    PROVE  Typed'
<1>1. AgentsTyped /\ a \in Agents /\ agent[a].pc = "makeSwap"
    BY TypedParts, SwapperIsAgent DEF MakeSwap
<1>2. agent[a].copy \in Copies /\ agent[a].copy # None
    BY <1>1, SwapperHasCopy, CopyFields DEF HasCopy
<1>3. /\ AgentsTyped' /\ agent'[a].pc \in {"idle", "createSwap"}
      /\ \A b \in Agents : b # a => agent'[b] = agent[b]
  <2>1. CASE Finish(a)
      BY <1>1, <2>1, Finished, IdleState
  <2>2. CASE Continue(a, "createSwap")
      BY <1>1, <1>2, <2>2, Continued DEF Pcs
  <2>3. QED
      BY <2>1, <2>2 DEF MakeSwap
<1>4. PositionsTyped' /\ CountsTyped'
    BY TypedParts DEF MakeSwap, stores, PositionsTyped, CountsTyped
<1>5. QED
    BY <1>1, <1>3, <1>4, SwapperTyped DEF MakeSwap, stores

LEMMA CreateSwapTyped ==
    ASSUME Typed, NEW a \in Swappers, CreateSwap(a)
    PROVE  Typed'
<1>1. AgentsTyped /\ a \in Agents /\ agent[a].pc = "createSwap"
    BY TypedParts, SwapperIsAgent DEF CreateSwap
<1>2. agent[a].copy \in Copies
    BY <1>1, SwapperHasCopy DEF HasCopy
<1>3. [agent[a].copy EXCEPT !.swap = TRUE] \in Copies
    BY <1>2 DEF Copies
<1>4. /\ AgentsTyped' /\ agent'[a].pc = "delete" /\ agent'[a].then = "idle"
      /\ \A b \in Agents : b # a => agent'[b] = agent[b]
    BY <1>1, <1>3, Began DEF CreateSwap
<1>5. PositionsTyped' /\ CountsTyped'
    BY <1>2, CopyFields, TypedParts DEF CreateSwap, PositionsTyped, CountsTyped
<1>6. QED
    BY <1>1, <1>4, <1>5, SwapperTyped DEF CreateSwap

LEMMA CreateSwapFailsTyped ==
    ASSUME Typed, NEW a \in Swappers, CreateSwapFails(a)
    PROVE  Typed'
<1>1. AgentsTyped /\ a \in Agents /\ agent[a].pc = "createSwap"
    BY TypedParts, SwapperIsAgent DEF CreateSwapFails
<1>2. /\ AgentsTyped' /\ agent'[a].pc = "idle"
      /\ \A b \in Agents : b # a => agent'[b] = agent[b]
    BY <1>1, Finished, IdleState DEF CreateSwapFails
<1>3. PositionsTyped'
    BY TypedParts DEF CreateSwapFails, stores, PositionsTyped
<1>4. CountsTyped'
    BY TypedParts, FaultCounted DEF CreateSwapFails, CountsTyped
<1>5. QED
    BY <1>1, <1>2, <1>3, <1>4, SwapperTyped DEF CreateSwapFails, stores

\* The poller that reads the position of a SELL order keeps the types.
LEMMA PollerReadsTyped ==
    ASSUME Typed, NEW w \in Pollers, PollerReads(w)
    PROVE  Typed'
<1>1. AgentsTyped /\ PositionsTyped /\ w \in Agents /\ w # "maker"
    BY TypedParts, MakerIsAgent
<1>2. PICK copy \in IF openedCache # None THEN {openedCache}
                    ELSE { CopyOf(p) : p \in OpenedPositions } :
            /\ openedCache' = copy
            /\ agent' = [agent EXCEPT ![w] = [IdleAgent EXCEPT !.pc = "armed", !.copy = copy]]
    BY DEF PollerReads
<1>3. copy \in Copies /\ copy # None
  <2>1. CASE openedCache # None
      BY <1>1, <1>2, <2>1 DEF PositionsTyped
  <2>2. CASE openedCache = None
      BY <1>1, <1>2, <2>2, CopyTyped, CopyFields
  <2>3. QED
      BY <2>1, <2>2
<1> DEFINE s == [IdleAgent EXCEPT !.pc = "armed", !.copy = copy]
<1>4. s \in AgentStates /\ s.pc = "armed" /\ s.copy = copy
    BY <1>3 DEF AgentStates, IdleAgent
<1>5. HoldsWhatItUses(s)
    BY <1>3, <1>4 DEF HoldsWhatItUses
<1>6. agent' = [agent EXCEPT ![w] = s]
    BY <1>2
<1> HIDE DEF s
<1>7. AgentsTyped' /\ \A b \in Agents : b # w => agent'[b] = agent[b]
    BY <1>1, <1>4, <1>5, <1>6, Moved
<1>8. PositionsTyped' /\ CountsTyped'
    BY <1>2, <1>3, TypedParts DEF PollerReads, PositionsTyped, CountsTyped
<1>9. QED
    BY <1>1, <1>7, <1>8, OtherTyped DEF PollerReads

-----------------------------------------------------------------------------
(***************************************************************************)
(* The maker, from its decision to the order.                              *)
(***************************************************************************)

\* The maker's own steps, by what they leave to show.
LEMMA MakerContinued ==
    ASSUME Typed, NEW pc \in Pcs \ {"delete", "write"},
           pc \in HasCopy => Maker.copy # None,
           Continue("maker", pc)
    PROVE  /\ AgentsTyped'
           /\ Maker'.pc = pc /\ Maker'.copy = Maker.copy
           /\ \A b \in Agents : b # "maker" => agent'[b] = agent[b]
BY Continued, TypedParts, MakerIsAgent DEF Maker

LEMMA MakerFinished ==
    ASSUME Typed, Finish("maker"), job' = NoJob
    PROVE  /\ AgentsTyped'
           /\ Maker' = IdleAgent
           /\ \A b \in Agents : b # "maker" => agent'[b] = agent[b]
           /\ JobFits(Maker, job)'
<1>1. AgentsTyped' /\ Maker' = IdleAgent
      /\ \A b \in Agents : b # "maker" => agent'[b] = agent[b]
    BY Finished, TypedParts, MakerIsAgent DEF Maker
<1>2. QED
    BY <1>1, IdleState DEF JobFits, Free, IsLooking, Looking, Busy, NoJob

\* The operations are those on an opened position and Buy.
LEMMA OperationsOf ==
    ASSUME NEW copy, NEW op \in Operations(copy)
    PROVE  op \in {"Buy", "BuyExtra", "Sell"} /\ (op # "Buy" => copy # None)
BY DEF Operations

LEMMA DecideTyped ==
    ASSUME Typed, Decide
    PROVE  Typed'
<1>1. Maker.pc = "decide" /\ job = NoJob /\ Maker \in AgentStates /\ "maker" \in Agents
    BY TypedParts, MakerIsAgent DEF Decide, JobFits, Free, Maker, AgentsTyped
<1>2. PositionsTyped'
    BY TypedParts DEF Decide, stores, PositionsTyped
<1>3. CountsTyped'
    BY TypedParts, FaultCounted DEF Decide, CountsTyped
<1>4. CASE InSwap(Maker.copy) /\ Continue("maker", "swapping") /\ UNCHANGED job
  <2>1. AgentsTyped' /\ Maker'.pc = "swapping"
      BY <1>4, MakerContinued DEF InSwap, Pcs
  <2>2. JobFits(Maker, job)'
      BY <1>1, <1>4, <2>1 DEF JobFits, IsLooking, Looking, Busy, NoJob
  <2>3. OrdersTyped' /\ OrdersExist'
      BY <1>4, <2>1, OrdersKept, TypedParts DEF Decide, stores, Busy
  <2>4. QED
      BY <1>2, <1>3, <2>1, <2>2, <2>3, TypedPartsNext
<1>5. CASE Finish("maker") /\ UNCHANGED job
  <2>1. AgentsTyped' /\ Maker' = IdleAgent /\ JobFits(Maker, job)'
      BY <1>1, <1>5, MakerFinished
  <2>2. OrdersTyped' /\ OrdersExist'
      BY <1>5, <2>1, IdleState, OrdersKept, TypedParts DEF Decide, stores, Busy
  <2>3. QED
      BY <1>2, <1>3, <2>1, <2>2, TypedPartsNext
<1>6. ASSUME NEW op \in Operations(Maker.copy), job' = [NoJob EXCEPT !.op = op],
             Continue("maker", IF job'.op = "Sell" THEN "quantity" ELSE "find")
      PROVE  Typed'
  <2>1. /\ job'.op = op /\ job'.id = None /\ job'.seen = None
        /\ op \in {"Buy", "BuyExtra", "Sell"}
        /\ op # "Buy" => Maker.copy # None
      BY <1>6, OperationsOf DEF NoJob
  <2>2. job' \in Jobs
      BY <1>6, <2>1 DEF Jobs, NoJob
  <2>3. PICK pc \in {"quantity", "find"} :
            pc = (IF op = "Sell" THEN "quantity" ELSE "find")
      OBVIOUS
  <2>4. Continue("maker", pc)
      BY <1>6, <2>1, <2>3
  <2>5. AgentsTyped' /\ Maker'.pc = pc /\ Maker'.copy = Maker.copy
      BY <2>1, <2>3, <2>4, MakerContinued DEF Pcs, HasCopy
  <2>6. JobFits(Maker, job)'
      BY <2>1, <2>3, <2>5 DEF JobFits, IsLooking, Looking, Busy, Free, NoJob
  <2>7. OrdersTyped' /\ OrdersExist'
      BY <2>2, <2>3, <2>5, TypedParts DEF Decide, stores, OrdersTyped, OrdersExist, Busy
  <2>8. QED
      BY <1>2, <1>3, <2>5, <2>6, <2>7, TypedPartsNext
<1>7. QED
    BY <1>4, <1>5, <1>6 DEF Decide

LEMMA SellQuantityTyped ==
    ASSUME Typed, SellQuantity
    PROVE  Typed'
<1>1. /\ Maker.pc = "quantity" /\ job.id = None /\ Maker.copy \in Copies
      /\ AgentsTyped /\ "maker" \in Agents
    BY TypedParts, MakerIsAgent, SwapperHasCopy
    DEF SellQuantity, JobFits, IsLooking, Looking, Maker, HasCopy
<1>2. PositionsTyped' /\ CountsTyped'
    BY TypedParts DEF SellQuantity, stores, PositionsTyped, CountsTyped
<1>3. /\ AgentsTyped' /\ Maker'.copy = Maker.copy
      /\ Maker'.pc = "find" \/ (Maker'.pc = "delete" /\ Maker'.then = "find")
  <2>1. CASE Continue("maker", "find")
      BY <2>1, MakerContinued DEF Pcs, HasCopy
  <2>2. CASE BeginUpdate("maker", Maker.copy, "find")
      BY <1>1, <2>2, Began DEF Maker
  <2>3. QED
      BY <2>1, <2>2 DEF SellQuantity
<1>4. JobFits(Maker, job)'
    BY <1>1, <1>3, TypedParts DEF SellQuantity, JobFits, IsLooking, Looking, Busy, Free
<1>5. OrdersTyped' /\ OrdersExist'
    BY <1>3, OrdersKept, TypedParts DEF SellQuantity, stores, Busy
<1>6. QED
    BY <1>2, <1>3, <1>4, <1>5, TypedPartsNext

\* A step that only ends the operation with an error keeps the types.
LEMMA OnlyFailsTyped ==
    ASSUME Typed, Fail, orders' = orders, rows' = rows,
           orderCache' \in [Sides -> CacheEntries],
           \A side \in Sides : orderCache'[side] \in {orderCache[side], None},
           PositionsTyped', CountsTyped'
    PROVE  Typed'
<1>1. OrdersTyped'
    BY FailTyped, TypedParts DEF OrdersTyped, Jobs, NoJob
<1>2. OrdersExist'
    BY FailTyped, TypedParts DEF OrdersExist, Busy
<1>3. QED
    BY <1>1, <1>2, FailTyped, TypedPartsNext

\* What UncacheOrder and CacheOrder leave in the cache.
LEMMA Uncached ==
    ASSUME orderCache \in [Sides -> CacheEntries], UncacheOrder
    PROVE  /\ orderCache' \in [Sides -> CacheEntries]
           /\ orderCache'[SideOfJob] = None
           /\ \A side \in Sides : side # SideOfJob => orderCache'[side] = orderCache[side]
BY DEF UncacheOrder, CacheEntries, SideOfJob, SideOf, Sides

LEMMA Cached ==
    ASSUME orderCache \in [Sides -> CacheEntries], job.id \in OrderIds,
           NEW seen \in ExchangeOrders, CacheOrder(seen)
    PROVE  /\ orderCache' \in [Sides -> CacheEntries]
           /\ orderCache'[SideOfJob] = [id |-> job.id, seen |-> seen]
           /\ \A side \in Sides : side # SideOfJob => orderCache'[side] = orderCache[side]
BY DEF CacheOrder, CacheEntries, CachedOrders, SideOfJob, SideOf, Sides

\* A cached order and its fields.
LEMMA EntryFields ==
    ASSUME NEW e \in CacheEntries, e # None
    PROVE  e.id \in OrderIds /\ e.id # None /\ e.seen \in ExchangeOrders /\ e.seen # None
BY LedgerAssumption, NoneAssumption DEF CacheEntries, CachedOrders

LEMMA SideOfJobIsSide == SideOfJob \in Sides
BY DEF SideOfJob, SideOf, Sides

\* Refused or failed before or after the order, the operation leaves typed states.
LEMMA RefusalsTyped ==
    ASSUME Typed, RefuseExtra \/ Refuse \/ SaveFails \/ CloseFails
    PROVE  Typed'
<1>1. Fail /\ UNCHANGED stores /\ UNCHANGED crashes
    BY DEF RefuseExtra, Refuse, SaveFails, CloseFails
<1>2. orders' = orders /\ rows' = rows /\ orderCache' = orderCache
    BY <1>1 DEF stores
<1>3. PositionsTyped'
    BY <1>1, TypedParts DEF stores, PositionsTyped
<1>4. CountsTyped'
    BY TypedParts, FaultCounted
    DEF RefuseExtra, Refuse, SaveFails, CloseFails, CountsTyped
<1>5. orderCache' \in [Sides -> CacheEntries]
    BY <1>2, TypedParts DEF OrdersTyped
<1>6. QED
    BY <1>1, <1>2, <1>3, <1>4, <1>5, OnlyFailsTyped

LEMMA FindCachedTyped ==
    ASSUME Typed, FindCached
    PROVE  Typed'
<1>1. Maker.pc = "find" /\ OrdersTyped
    BY TypedParts DEF FindCached
<1> DEFINE e == orderCache[SideOfJob]
<1>2. /\ e \in CacheEntries /\ e # None /\ orders[e.id] # None
    BY <1>1, SideOfJobIsSide, TypedParts DEF OrdersTyped, OrdersExist, FindCached
<1>3. e.id \in OrderIds /\ e.id # None /\ e.seen \in ExchangeOrders /\ e.seen # None
    BY <1>2, EntryFields
<1>4. /\ job' = [job EXCEPT !.id = e.id, !.seen = e.seen]
      /\ Continue("maker", "try")
      /\ UNCHANGED <<stores, crashes, faults>>
    BY DEF FindCached
<1> HIDE DEF e
<1>5. job' \in Jobs /\ job'.op = job.op /\ job'.id = e.id /\ job'.seen = e.seen
    BY <1>1, <1>3, <1>4 DEF OrdersTyped, Jobs
<1>6. AgentsTyped' /\ Maker'.pc = "try" /\ Maker'.copy = Maker.copy
    BY <1>4, MakerContinued DEF Pcs, HasCopy
<1>7. JobFits(Maker, job)'
    BY <1>3, <1>5, <1>6, TypedParts DEF JobFits, IsLooking, Looking, Busy, Free
<1>8. OrdersTyped' /\ OrdersExist'
    BY <1>2, <1>4, <1>5, TypedParts DEF stores, OrdersTyped, OrdersExist
<1>9. PositionsTyped' /\ CountsTyped'
    BY <1>4, TypedParts DEF stores, PositionsTyped, CountsTyped
<1>10. QED
    BY <1>6, <1>7, <1>8, <1>9, TypedPartsNext

LEMMA FindOpenedTyped ==
    ASSUME Typed, FindOpened
    PROVE  Typed'
<1>1. Maker.pc = "find" /\ OrdersTyped
    BY TypedParts DEF FindOpened
<1>2. PICK o \in LiveOrders(SideOfJob) :
        /\ job' = [job EXCEPT !.id = o, !.seen = orders[o]]
        /\ orderCache' = [orderCache EXCEPT ![SideOfJob] = [id |-> o, seen |-> orders[o]]]
    BY DEF FindOpened
<1>3. o \in OrderIds /\ o # None /\ orders[o] \in ExchangeOrders /\ orders[o] # None
    BY <1>1, LedgerAssumption DEF LiveOrders, OrdersTyped
<1>4. job' \in Jobs /\ job'.op = job.op /\ job'.id = o /\ job'.seen = orders[o]
    BY <1>1, <1>2, <1>3 DEF OrdersTyped, Jobs
<1>5. AgentsTyped' /\ Maker'.pc = "try" /\ Maker'.copy = Maker.copy
    BY MakerContinued DEF FindOpened, Pcs, HasCopy
<1>6. JobFits(Maker, job)'
    BY <1>3, <1>4, <1>5, TypedParts DEF JobFits, IsLooking, Looking, Busy, Free
<1>7. /\ orderCache' \in [Sides -> CacheEntries]
      /\ orderCache'[SideOfJob].id = o
      /\ \A side \in Sides : side # SideOfJob => orderCache'[side] = orderCache[side]
    BY <1>1, <1>2, <1>3, SideOfJobIsSide DEF OrdersTyped, CacheEntries, CachedOrders
<1>8. OrdersTyped' /\ OrdersExist'
    BY <1>3, <1>4, <1>7, TypedParts DEF FindOpened, OrdersTyped, OrdersExist
<1>9. PositionsTyped' /\ CountsTyped'
    BY TypedParts DEF FindOpened, PositionsTyped, CountsTyped
<1>10. QED
    BY <1>5, <1>6, <1>8, <1>9, TypedPartsNext

\* The quantities that are ordered are natural numbers.
LEMMA QuantitiesAreNat ==
    ASSUME Typed, Maker.pc = "find"
    PROVE  Quantities \subseteq Nat
<1>1. job.op # "Sell" => Quantities \subseteq Nat
    BY LedgerAssumption, QtyAssumption DEF Quantities
<1>2. ASSUME job.op = "Sell" PROVE Quantities \subseteq Nat
  <2>1. Maker.copy # None /\ Maker.copy \in Copies \cup {None}
      BY <1>2, TypedParts, MakerIsAgent, StateFields DEF JobFits, Maker, AgentsTyped
  <2>2. RemainingToSell(Maker.copy) \in Int
      BY <2>1, CopyFields DEF RemainingToSell
  <2>3. QED
      BY <2>2, LedgerAssumption DEF Quantities
<1>3. QED
    BY <1>1, <1>2

LEMMA PlaceTyped ==
    ASSUME Typed, Place
    PROVE  Typed'
<1>1. Maker.pc = "find" /\ OrdersTyped
    BY TypedParts DEF Place
<1>20. PICK o \in OrderIds, orig \in Quantities, status \in Statuses :
          \E executed \in 0..orig :
            LET new == [side |-> SideOfJob, status |-> status,
                        executed |-> executed, orig |-> orig] IN
            /\ orders[o] = None
            /\ WellFormed(new, orig)
            /\ orders' = [orders EXCEPT ![o] = new]
            /\ job' = [job EXCEPT !.id = o, !.seen = new]
    BY DEF Place
<1>2. PICK executed \in 0..orig :
        LET new == [side |-> SideOfJob, status |-> status,
                    executed |-> executed, orig |-> orig] IN
        /\ orders[o] = None
        /\ WellFormed(new, orig)
        /\ orders' = [orders EXCEPT ![o] = new]
        /\ job' = [job EXCEPT !.id = o, !.seen = new]
    BY <1>20
<1> DEFINE new == [side |-> SideOfJob, status |-> status,
                   executed |-> executed, orig |-> orig]
<1>3. orig \in Nat /\ executed \in Nat
    BY <1>1, QuantitiesAreNat
<1>4. new \in ExchangeOrders
    BY <1>2, <1>3, SideOfJobIsSide DEF ExchangeOrders
<1> HIDE DEF new
<1>5. new # None /\ o # None
    BY <1>4, NoneAssumption, LedgerAssumption
<1>6. job' = [job EXCEPT !.id = o, !.seen = new] /\ orders' = [orders EXCEPT ![o] = new]
    BY <1>2 DEF new
<1>7. job' \in Jobs /\ job'.op = job.op /\ job'.id = o /\ job'.seen = new
    BY <1>1, <1>4, <1>6 DEF OrdersTyped, Jobs
<1>8. AgentsTyped' /\ Maker'.pc = "placed" /\ Maker'.copy = Maker.copy
    BY MakerContinued DEF Place, Pcs, HasCopy
<1>9. JobFits(Maker, job)'
    BY <1>5, <1>7, <1>8, TypedParts DEF JobFits, IsLooking, Looking, Busy, Free
<1>10. OrdersTyped'
    BY <1>1, <1>4, <1>6, <1>7 DEF Place, OrdersTyped
<1>11. \A x \in OrderIds : orders[x] # None => orders'[x] # None
    BY <1>1, <1>5, <1>6 DEF OrdersTyped
<1>12. orders'[o] # None
    BY <1>1, <1>5, <1>6 DEF OrdersTyped
<1>13. OrdersExist'
  <2>1. ASSUME NEW side \in Sides, orderCache[side] # None
        PROVE  orders'[orderCache[side].id] # None
      BY <1>1, <1>11, <2>1, EntryFields, TypedParts DEF OrdersTyped, OrdersExist
  <2>2. QED
      BY <1>7, <1>12, <2>1 DEF Place, OrdersExist
<1>14. PositionsTyped'
    BY TypedParts DEF Place, PositionsTyped
<1>15. CountsTyped'
    BY TypedParts, FaultCounted DEF Place, CountsTyped
<1>16. QED
    BY <1>8, <1>9, <1>10, <1>13, <1>14, <1>15, TypedPartsNext

-----------------------------------------------------------------------------
(***************************************************************************)
(* The maker and its order.                                                *)
(***************************************************************************)

\* While the maker is busy it has an order, which the exchange knows.
LEMMA BusyWithOrder ==
    ASSUME Typed, Maker.pc \in Busy
    PROVE  /\ job \in Jobs
           /\ job.id \in OrderIds /\ job.id # None
           /\ job.seen \in ExchangeOrders /\ job.seen # None
           /\ orders[job.id] \in ExchangeOrders /\ orders[job.id] # None
           /\ job.op \in {"BuyExtra", "Sell"} => Maker.copy \in Copies
<1>1. job \in Jobs /\ job.id # None /\ job.seen # None /\ orders[job.id] # None
    BY TypedParts DEF OrdersTyped, OrdersExist, JobFits
<1>2. job.id \in OrderIds /\ job.seen \in ExchangeOrders
    BY <1>1 DEF Jobs
<1>3. orders[job.id] \in ExchangeOrders
    BY <1>1, <1>2, TypedParts DEF OrdersTyped
<1>4. ASSUME job.op \in {"BuyExtra", "Sell"} PROVE Maker.copy \in Copies
  <2>1. Maker.copy # None /\ Maker.copy \in Copies \cup {None}
      BY <1>4, TypedParts, MakerIsAgent, StateFields DEF JobFits, Maker, AgentsTyped
  <2>2. QED
      BY <2>1
<1>5. QED
    BY <1>1, <1>2, <1>3, <1>4

LEMMA CachePlacedTyped ==
    ASSUME Typed, CachePlaced
    PROVE  Typed'
<1>1. Maker.pc = "placed" /\ OrdersTyped
    BY TypedParts DEF CachePlaced
<1>2. /\ job.id \in OrderIds /\ job.id # None /\ job.seen # None
      /\ job.seen \in ExchangeOrders /\ orders[job.id] # None
    BY <1>1, BusyWithOrder DEF Busy
<1>3. /\ orderCache' \in [Sides -> CacheEntries]
      /\ orderCache'[SideOfJob] = [id |-> job.id, seen |-> job.seen]
      /\ \A side \in Sides : side # SideOfJob => orderCache'[side] = orderCache[side]
    BY <1>1, <1>2, Cached DEF CachePlaced, OrdersTyped
<1>4. AgentsTyped' /\ Maker'.pc = "try" /\ Maker'.copy = Maker.copy
    BY MakerContinued DEF CachePlaced, Pcs, HasCopy
<1>5. JobFits(Maker, job)'
    BY <1>2, <1>4, TypedParts DEF CachePlaced, JobFits, IsLooking, Looking, Busy, Free
<1>6. OrdersTyped' /\ OrdersExist'
    BY <1>2, <1>3, TypedParts DEF CachePlaced, OrdersTyped, OrdersExist
<1>7. PositionsTyped' /\ CountsTyped'
    BY TypedParts DEF CachePlaced, PositionsTyped, CountsTyped
<1>8. QED
    BY <1>4, <1>5, <1>6, <1>7, TypedPartsNext

LEMMA TryTyped ==
    ASSUME Typed, Try
    PROVE  Typed'
<1>1. Maker.pc = "try" /\ OrdersTyped
    BY TypedParts DEF Try
<1>2. PositionsTyped' /\ CountsTyped'
    BY TypedParts DEF Try, PositionsTyped, CountsTyped
<1>3. ASSUME NEW pc \in {"save", "wait"}, Continue("maker", pc), UNCHANGED <<orderCache, job>>
      PROVE  Typed'
  <2>1. AgentsTyped' /\ Maker'.pc = pc /\ Maker'.copy = Maker.copy
      BY <1>3, MakerContinued DEF Pcs, HasCopy
  <2>2. JobFits(Maker, job)'
      BY <1>1, <1>3, <2>1, TypedParts DEF JobFits, IsLooking, Looking, Busy, Free
  <2>3. OrdersTyped' /\ OrdersExist'
      BY <1>1, <1>3, <2>1, OrdersKept, TypedParts DEF Try, Busy
  <2>4. QED
      BY <1>2, <2>1, <2>2, <2>3, TypedPartsNext
<1>4. CASE UncacheOrder /\ Fail
  <2>1. /\ orderCache' \in [Sides -> CacheEntries]
        /\ \A side \in Sides : orderCache'[side] \in {orderCache[side], None}
      BY <1>1, <1>4, Uncached DEF OrdersTyped
  <2>2. QED
      BY <1>2, <1>4, <2>1, OnlyFailsTyped DEF Try
<1>5. QED
    BY <1>3, <1>4 DEF Try

LEMMA WaitQueryTyped ==
    ASSUME Typed, WaitQuery
    PROVE  Typed'
<1>1. Maker.pc = "wait" /\ OrdersTyped
    BY TypedParts DEF WaitQuery
<1> DEFINE now == orders[job.id]
<1>2. /\ job \in Jobs /\ job.id \in OrderIds /\ job.id # None
      /\ now \in ExchangeOrders /\ now # None
    BY <1>1, BusyWithOrder DEF Busy
<1>3. job' = [job EXCEPT !.seen = now] /\ CacheOrder(now) /\ orders' = orders
    BY DEF WaitQuery
<1>4. /\ orderCache' \in [Sides -> CacheEntries]
      /\ orderCache'[SideOfJob] = [id |-> job.id, seen |-> now]
      /\ \A side \in Sides : side # SideOfJob => orderCache'[side] = orderCache[side]
    BY <1>1, <1>2, <1>3, Cached DEF OrdersTyped
<1>5. orders[job.id] # None
    BY <1>2
<1> HIDE DEF now
<1>6. job' \in Jobs /\ job'.op = job.op /\ job'.id = job.id /\ job'.seen = now
    BY <1>2, <1>3 DEF Jobs
<1>7. AgentsTyped' /\ Maker' = Maker
    BY TypedParts DEF WaitQuery, AgentsTyped, AgentsHold, Maker
<1>8. JobFits(Maker, job)'
    BY <1>1, <1>2, <1>6, <1>7, TypedParts DEF JobFits, IsLooking, Looking, Busy, Free
<1>9. OrdersTyped' /\ OrdersExist'
    BY <1>3, <1>4, <1>5, <1>6, TypedParts DEF WaitQuery, OrdersTyped, OrdersExist
<1>10. PositionsTyped' /\ CountsTyped'
    BY TypedParts DEF WaitQuery, PositionsTyped, CountsTyped
<1>11. QED
    BY <1>7, <1>8, <1>9, <1>10, TypedPartsNext

\* Where the wait's poller may be after it
PollerEnds(w) ==
    IF agent[w].pc # "armed" THEN {agent[w]}
    ELSE {agent[w], IdleAgent, [agent[w] EXCEPT !.pc = "makeSwap"]}

LEMMA PollerEndsTyped ==
    ASSUME AgentsTyped, NEW w \in Agents, NEW s \in PollerEnds(w)
    PROVE  /\ s \in AgentStates /\ HoldsWhatItUses(s)
           /\ s.pc \in {agent[w].pc, "idle", "makeSwap"}
           /\ s.pc = "makeSwap" => agent[w].pc \in {"armed", "makeSwap"}
           /\ s.copy \in {agent[w].copy, None}
           /\ s.draft \in {agent[w].draft, None}
<1>1. agent[w] \in AgentStates
    BY DEF AgentsTyped
<1>2. HoldsWhatItUses(agent[w])
    BY <1>1 DEF AgentsTyped, AgentsHold
<1>3. CASE s = agent[w]
    BY <1>1, <1>2, <1>3
<1>4. CASE s = IdleAgent
    BY <1>4, IdleState
<1>5. CASE agent[w].pc = "armed" /\ s = [agent[w] EXCEPT !.pc = "makeSwap"]
  <2>1. /\ s \in AgentStates /\ s.pc = "makeSwap" /\ s.copy = agent[w].copy
        /\ s.draft = agent[w].draft
      BY <1>1, <1>5 DEF AgentStates
  <2>2. QED
      BY <1>2, <1>5, <2>1 DEF HoldsWhatItUses, HasCopy
<1>6. QED
    BY <1>3, <1>4, <1>5 DEF PollerEnds

\* The end of the wait moves the maker and its poller.
LEMMA EndWaitMoves ==
    ASSUME AgentsTyped, NEW makers \in SUBSET AgentStates,
           \A s \in makers : HoldsWhatItUses(s), EndWait(makers)
    PROVE  /\ AgentsTyped'
           /\ Maker' \in makers
           /\ \A b \in Agents : b # "maker" => agent'[b] \in PollerEnds(b)
<1>1. PICK maker \in makers, swapping \in SUBSET (IF IsNew(job.seen) THEN Armed ELSE {}) :
          agent' = [a \in Agents |->
                      IF a = "maker" THEN maker
                      ELSE IF a \in swapping THEN [agent[a] EXCEPT !.pc = "makeSwap"]
                      ELSE IF a \in Armed THEN IdleAgent ELSE agent[a]]
    BY DEF EndWait
<1>2. maker \in AgentStates /\ HoldsWhatItUses(maker)
    OBVIOUS
<1>3. agent'["maker"] = maker
    BY <1>1, MakerIsAgent
<1>4. ASSUME NEW b \in Agents, b # "maker"
      PROVE  agent'[b] \in PollerEnds(b)
  <2>1. b \in swapping => b \in Armed
      BY <1>1
  <2>2. b \in Armed => agent[b].pc = "armed"
      BY DEF Armed
  <2>3. agent'[b] = IF b \in swapping THEN [agent[b] EXCEPT !.pc = "makeSwap"]
                    ELSE IF b \in Armed THEN IdleAgent ELSE agent[b]
      BY <1>1, <1>4
  <2>4. QED
      BY <2>1, <2>2, <2>3 DEF PollerEnds
<1>5. \A b \in Agents : agent'[b] \in AgentStates /\ HoldsWhatItUses(agent'[b])
    BY <1>2, <1>3, <1>4, PollerEndsTyped
<1>6. agent' \in [Agents -> AgentStates]
    BY <1>1, <1>5
<1>7. QED
    BY <1>3, <1>4, <1>5, <1>6 DEF AgentsTyped, AgentsHold, Maker

\* Where the maker may be after a wait that failed.
LEMMA FailedStates ==
    ASSUME Typed, NEW s \in Failed
    PROVE  /\ s \in AgentStates /\ HoldsWhatItUses(s)
           /\ s.pc \in {"idle", "makeSwap"}
           /\ s.copy \in {Maker.copy, None} /\ s.draft \in {Maker.draft, None}
<1>1. CASE s = IdleAgent
    BY <1>1, IdleState
<1>2. CASE job.op = "BuyExtra" /\ s = [Maker EXCEPT !.pc = "makeSwap"]
  <2>1. Maker \in AgentStates /\ Maker.copy # None
      BY <1>2, TypedParts, MakerIsAgent DEF JobFits, Maker, AgentsTyped
  <2>2. /\ s \in AgentStates /\ s.pc = "makeSwap" /\ s.copy = Maker.copy
        /\ s.draft = Maker.draft
      BY <1>2, <2>1 DEF AgentStates
  <2>3. QED
      BY <2>1, <2>2 DEF HoldsWhatItUses, HasCopy
<1>3. QED
    BY <1>1, <1>2 DEF Failed

\* A wait that ends without success leaves no job.
LEMMA WaitFailedTyped ==
    ASSUME Typed, EndWait(Failed), job' = NoJob, CountsTyped'
    PROVE  Typed'
<1>1. AgentsTyped /\ OrdersTyped
    BY TypedParts
<1>2. Failed \in SUBSET AgentStates /\ \A s \in Failed : HoldsWhatItUses(s)
    BY FailedStates
<1>3. AgentsTyped' /\ Maker' \in Failed
    BY <1>1, <1>2, EndWaitMoves
<1>4. Maker'.pc \in {"idle", "makeSwap"}
    BY <1>3, FailedStates
<1>5. JobFits(Maker, job)'
    BY <1>4 DEF JobFits, IsLooking, Looking, Busy, NoJob
<1>6. /\ orderCache' \in [Sides -> CacheEntries]
      /\ \A side \in Sides : orderCache'[side] \in {orderCache[side], None}
    BY <1>1, Uncached DEF EndWait, OrdersTyped
<1>7. OrdersTyped'
    BY <1>1, <1>6 DEF EndWait, OrdersTyped, Jobs, NoJob
<1>8. OrdersExist'
    BY <1>4, <1>6, TypedParts DEF EndWait, OrdersExist, Busy
<1>9. PositionsTyped'
    BY TypedParts DEF EndWait, PositionsTyped
<1>10. QED
    BY <1>3, <1>5, <1>7, <1>8, <1>9, TypedPartsNext

LEMMA WaitErrorTyped ==
    ASSUME Typed, WaitError \/ WaitGivesUp
    PROVE  Typed'
<1>1. EndWait(Failed) /\ job' = NoJob
    BY DEF WaitError, WaitGivesUp
<1>2. CountsTyped'
    BY TypedParts, FaultCounted DEF WaitError, WaitGivesUp, EndWait, CountsTyped
<1>3. QED
    BY <1>1, <1>2, WaitFailedTyped

LEMMA WaitOkTyped ==
    ASSUME Typed, WaitOk
    PROVE  Typed'
<1>1. Maker.pc = "wait" /\ OrdersTyped /\ AgentsTyped /\ Maker \in AgentStates
    BY TypedParts, MakerIsAgent DEF WaitOk, AgentsTyped, Maker
<1>2. /\ job \in Jobs /\ job.id \in OrderIds /\ job.id # None
      /\ orders[job.id] \in ExchangeOrders /\ orders[job.id] # None
    BY <1>1, BusyWithOrder DEF Busy
<1> DEFINE s == [Maker EXCEPT !.pc = "save"]
<1>3. s \in AgentStates /\ s.pc = "save" /\ s.copy = Maker.copy
    BY <1>1 DEF AgentStates
<1>4. HoldsWhatItUses(s)
    BY <1>3 DEF HoldsWhatItUses, HasCopy
<1>5. EndWait({s})
    BY DEF WaitOk
<1> HIDE DEF s
<1>6. AgentsTyped' /\ Maker' = s
    BY <1>1, <1>3, <1>4, <1>5, EndWaitMoves
<1>7. job' \in Jobs /\ job'.op = job.op /\ job'.id = job.id /\ job'.seen = orders[job.id]
    BY <1>2 DEF WaitOk, Jobs
<1>8. JobFits(Maker, job)'
    BY <1>2, <1>3, <1>6, <1>7, TypedParts DEF JobFits, IsLooking, Looking, Busy, Free
<1>9. /\ orderCache' \in [Sides -> CacheEntries]
      /\ \A side \in Sides : orderCache'[side] \in {orderCache[side], None}
    BY <1>1, <1>5, Uncached DEF EndWait, OrdersTyped
<1>10. OrdersTyped' /\ OrdersExist'
    BY <1>2, <1>5, <1>7, <1>9, TypedParts DEF EndWait, OrdersTyped, OrdersExist
<1>11. PositionsTyped' /\ CountsTyped'
    BY <1>5, TypedParts DEF WaitOk, EndWait, PositionsTyped, CountsTyped
<1>12. QED
    BY <1>6, <1>8, <1>10, <1>11, TypedPartsNext

LEMMA WaitAgainTyped ==
    ASSUME Typed, WaitAgain
    PROVE  Typed'
<1>1. Maker.pc = "wait" /\ OrdersTyped /\ AgentsTyped
    BY TypedParts DEF WaitAgain
<1> PICK w \in Armed : Continue(w, "makeSwap")
    BY DEF WaitAgain
<1>0. w \in Agents /\ w # "maker" /\ agent[w].pc = "armed"
    BY MakerIsAgent DEF Armed
<1>2. /\ job \in Jobs /\ job.id \in OrderIds /\ job.id # None
      /\ orders[job.id] \in ExchangeOrders /\ orders[job.id] # None
    BY <1>1, BusyWithOrder DEF Busy
<1>3. agent[w].copy # None
    BY <1>1, <1>0, SwapperHasCopy, CopyFields DEF HasCopy
<1>4. AgentsTyped' /\ Maker' = Maker
    BY <1>1, <1>3, <1>0, Continued, MakerIsAgent DEF Pcs, HasCopy, Maker
<1>5. job' \in Jobs /\ job'.op = job.op /\ job'.id = job.id /\ job'.seen = orders[job.id]
    BY <1>2 DEF WaitAgain, Jobs
<1>6. JobFits(Maker, job)'
    BY <1>1, <1>2, <1>4, <1>5, TypedParts DEF JobFits, IsLooking, Looking, Busy, Free
<1>7. OrdersTyped' /\ OrdersExist'
    BY <1>2, <1>5, TypedParts DEF WaitAgain, stores, OrdersTyped, OrdersExist
<1>8. PositionsTyped'
    BY TypedParts DEF WaitAgain, stores, PositionsTyped
<1>9. CountsTyped'
    BY TypedParts, FaultCounted DEF WaitAgain, CountsTyped
<1>10. QED
    BY <1>4, <1>6, <1>7, <1>8, <1>9, TypedPartsNext

-----------------------------------------------------------------------------
(***************************************************************************)
(* The order's row, and what comes after it.                               *)
(***************************************************************************)

\* The saved order leaves the orders' part typed, if the maker keeps its job.
LEMMA InsertTyped ==
    ASSUME Typed, Insert, UNCHANGED <<orders, orderCache, job>>, Maker'.pc \notin Busy
    PROVE  OrdersTyped' /\ OrdersExist'
<1>1. job.id \in OrderIds /\ job.seen.executed \in Nat
    BY BusyWithOrder, OrderFields DEF Insert, Busy
<1>2. OrdersTyped'
    BY <1>1, TypedParts DEF Insert, OrdersTyped
<1>3. QED
    BY <1>2, TypedParts DEF OrdersExist

LEMMA SaveBuyTyped ==
    ASSUME Typed, SaveBuy
    PROVE  Typed'
<1>1. AgentsTyped' /\ Maker'.pc = "commission" /\ Maker'.copy = Maker.copy
    BY MakerContinued DEF SaveBuy, Pcs, HasCopy
<1>2. JobFits(Maker, job)'
    BY <1>1, TypedParts DEF SaveBuy, JobFits, IsLooking, Looking, Busy, Free
<1>3. OrdersTyped' /\ OrdersExist'
    BY <1>1, InsertTyped DEF SaveBuy, Busy
<1>4. job.seen.executed \in Nat
    BY BusyWithOrder, OrderFields DEF SaveBuy, Insert, Busy
<1>5. PositionsTyped' /\ CountsTyped'
    BY <1>4, TypedParts DEF SaveBuy, PositionsTyped, CountsTyped, PositionRows
<1>6. QED
    BY <1>1, <1>2, <1>3, <1>5, TypedPartsNext

\* A copy that grows is a copy of the same position.
LEMMA GrownFields ==
    ASSUME NEW c \in Copies, job.seen.executed \in Nat
    PROVE  /\ Grown(c) \in Copies
           /\ Grown(c).id = c.id
           /\ Grown(c).exec = c.exec + job.seen.executed
           /\ Grown(c).status = c.status /\ Grown(c).sold = c.sold
BY DEF Grown, Copies

LEMMA SaveBuyExtraTyped ==
    ASSUME Typed, SaveBuyExtra
    PROVE  Typed'
<1>1. /\ AgentsTyped /\ "maker" \in Agents /\ Maker.pc = "save" /\ job.op = "BuyExtra"
      /\ Maker.copy \in Copies /\ job.seen.executed \in Nat /\ job.id # None
    BY TypedParts, MakerIsAgent, BusyWithOrder, OrderFields DEF SaveBuyExtra, Insert, Busy
<1>2. Grown(Maker.copy) \in Copies
    BY <1>1, GrownFields
<1>3. /\ AgentsTyped' /\ Maker'.pc = "delete" /\ Maker'.then = "cleanup"
      /\ Maker'.copy = Maker.copy
    BY <1>1, <1>2, Began DEF SaveBuyExtra, Maker
<1>4. JobFits(Maker, job)'
    BY <1>3, TypedParts DEF SaveBuyExtra, JobFits, IsLooking, Looking, Busy, Free
<1>5. OrdersTyped' /\ OrdersExist'
    BY <1>3, InsertTyped DEF SaveBuyExtra, Busy
<1>6. PositionsTyped' /\ CountsTyped'
    BY <1>1, CopyFields, TypedParts DEF SaveBuyExtra, PositionsTyped, CountsTyped
<1>7. QED
    BY <1>3, <1>4, <1>5, <1>6, TypedPartsNext

LEMMA SaveSellTyped ==
    ASSUME Typed, SaveSell
    PROVE  Typed'
<1>1. /\ Maker.pc = "save" /\ job.op = "Sell" /\ Maker.copy \in Copies
      /\ Maker.copy # None /\ job.seen.executed \in Nat
    BY BusyWithOrder, OrderFields, CopyFields DEF SaveSell, Insert, Busy
<1>2. AgentsTyped' /\ Maker'.pc = "close" /\ Maker'.copy = Maker.copy
    BY <1>1, MakerContinued DEF SaveSell, Pcs
<1>3. JobFits(Maker, job)'
    BY <1>2, TypedParts DEF SaveSell, JobFits, IsLooking, Looking, Busy, Free
<1>4. OrdersTyped' /\ OrdersExist'
    BY <1>2, InsertTyped DEF SaveSell, Busy
<1>5. PositionsTyped' /\ CountsTyped'
    BY <1>1, CopyFields, TypedParts DEF SaveSell, PositionsTyped, CountsTyped
<1>6. QED
    BY <1>2, <1>3, <1>4, <1>5, TypedPartsNext

LEMMA SaveDuplicateTyped ==
    ASSUME Typed, SaveDuplicate
    PROVE  Typed'
<1>1. /\ orderCache' \in [Sides -> CacheEntries]
      /\ \A side \in Sides : orderCache'[side] \in {orderCache[side], None}
    BY TypedParts, Uncached DEF SaveDuplicate, OrdersTyped
<1>2. PositionsTyped' /\ CountsTyped'
    BY TypedParts DEF SaveDuplicate, PositionsTyped, CountsTyped
<1>3. QED
    BY <1>1, <1>2, OnlyFailsTyped DEF SaveDuplicate

LEMMA UpdateCommissionTyped ==
    ASSUME Typed, UpdateCommission
    PROVE  Typed'
<1>1. AgentsTyped' /\ Maker'.pc = "cleanup" /\ Maker'.copy = Maker.copy
    BY MakerContinued DEF UpdateCommission, Pcs, HasCopy
<1>2. JobFits(Maker, job)'
    BY <1>1, TypedParts DEF UpdateCommission, JobFits, IsLooking, Looking, Busy, Free
<1>3. OrdersTyped' /\ OrdersExist'
    BY <1>1, OrdersKept, TypedParts DEF UpdateCommission, Busy
<1>4. PositionsTyped' /\ CountsTyped'
    BY TypedParts DEF UpdateCommission, PositionsTyped, CountsTyped
<1>5. QED
    BY <1>1, <1>2, <1>3, <1>4, TypedPartsNext

LEMMA CleanUpTyped ==
    ASSUME Typed, CleanUp
    PROVE  Typed'
<1>1. AgentsTyped' /\ Maker' = IdleAgent /\ JobFits(Maker, job)'
    BY MakerFinished DEF CleanUp
<1>2. /\ orderCache' \in [Sides -> CacheEntries]
      /\ \A side \in Sides : orderCache'[side] \in {orderCache[side], None}
    BY TypedParts, Uncached DEF CleanUp, OrdersTyped
<1>3. OrdersTyped'
    BY <1>2, TypedParts DEF CleanUp, OrdersTyped, Jobs, NoJob
<1>4. OrdersExist'
    BY <1>1, <1>2, IdleState, TypedParts DEF CleanUp, OrdersExist, Busy
<1>5. PositionsTyped' /\ CountsTyped'
    BY TypedParts DEF CleanUp, PositionsTyped, CountsTyped
<1>6. QED
    BY <1>1, <1>3, <1>4, <1>5, TypedPartsNext

LEMMA CloseTyped ==
    ASSUME Typed, Close
    PROVE  Typed'
<1>1. AgentsTyped /\ "maker" \in Agents /\ Maker.pc = "close" /\ Maker.copy \in Copies
    BY TypedParts, MakerIsAgent, SwapperHasCopy DEF Close, Maker, HasCopy
<1> DEFINE draft == IF IsSoldOut(Maker.copy.exec, sold[Maker.copy.id])
                    THEN [Maker.copy EXCEPT !.status = "closed"] ELSE Maker.copy
<1>2. draft \in Copies
    BY <1>1 DEF Copies
<1>3. BeginUpdate("maker", draft, "idle")
    BY DEF Close
<1> HIDE DEF draft
<1>4. /\ AgentsTyped' /\ Maker'.pc = "delete" /\ Maker'.then = "idle"
      /\ Maker'.copy = Maker.copy
    BY <1>1, <1>2, <1>3, Began DEF Maker
<1>5. JobFits(Maker, job)'
    BY <1>4, TypedParts DEF Close, JobFits, IsLooking, Looking, Busy, Free
<1>6. OrdersTyped' /\ OrdersExist'
    BY <1>4, OrdersKept, TypedParts DEF Close, stores, Busy
<1>7. PositionsTyped' /\ CountsTyped'
    BY TypedParts DEF Close, stores, PositionsTyped, CountsTyped
<1>8. QED
    BY <1>4, <1>5, <1>6, <1>7, TypedPartsNext

\* The end of the swap mode writes the maker's copy without its flag.
LEMMA EndSwapModeBegins ==
    ASSUME Typed, Maker.pc = "swapping", EndSwapMode
    PROVE  /\ AgentsTyped' /\ Maker'.pc = "delete" /\ Maker'.then = "idle"
           /\ Maker'.copy = Maker.copy /\ Maker'.draft \in Copies
           /\ Maker'.draft = [Maker.copy EXCEPT !.swap = FALSE]
           /\ \A b \in Agents : b # "maker" => agent'[b] = agent[b]
<1>1. AgentsTyped /\ "maker" \in Agents /\ Maker.copy \in Copies
    BY TypedParts, MakerIsAgent, SwapperHasCopy DEF Maker, HasCopy
<1>2. [Maker.copy EXCEPT !.swap = FALSE] \in Copies
    BY <1>1 DEF Copies
<1>3. QED
    BY <1>1, <1>2, Began DEF EndSwapMode, Maker

LEMMA ExecuteSwapTyped ==
    ASSUME Typed, ExecuteSwap
    PROVE  Typed'
<1>1. Maker.pc = "swapping" /\ job = NoJob /\ Maker.copy \in Copies
    BY TypedParts, MakerIsAgent, SwapperHasCopy
    DEF ExecuteSwap, JobFits, Free, Maker, HasCopy
<1>2. /\ AgentsTyped'
      /\ Maker'.pc = "idle" \/ (Maker'.pc = "delete" /\ Maker'.then = "idle")
  <2>1. CASE EndSwapMode
      BY <1>1, <2>1, EndSwapModeBegins
  <2>2. CASE Finish("maker")
      BY <1>1, <2>2, MakerFinished, IdleState DEF ExecuteSwap
  <2>3. QED
      BY <2>1, <2>2 DEF ExecuteSwap
<1>3. JobFits(Maker, job)'
    BY <1>1, <1>2 DEF ExecuteSwap, JobFits, IsLooking, Looking, Busy, NoJob
<1>4. OrdersTyped' /\ OrdersExist'
    BY <1>2, OrdersKept, TypedParts DEF ExecuteSwap, Busy
<1>5. swaps' \in [PositionIds -> Nat]
  <2>1. CASE HasActive(Maker.copy) /\ EndAction
    <3>1. Maker.copy.id \in PositionIds /\ swaps[Maker.copy.id] - 1 \in Nat
        BY <1>1, <2>1, CopyFields, TypedParts DEF HasActive, PositionsTyped
    <3>2. QED
        BY <2>1, <3>1, TypedParts DEF EndAction, PositionsTyped
  <2>2. CASE UNCHANGED swaps
      BY <2>2, TypedParts DEF PositionsTyped
  <2>3. QED
      BY <2>1, <2>2 DEF ExecuteSwap
<1>6. PositionsTyped'
    BY <1>5, TypedParts DEF ExecuteSwap, PositionsTyped
<1>7. CountsTyped'
    BY TypedParts, FaultCounted DEF ExecuteSwap, CountsTyped
<1>8. QED
    BY <1>2, <1>3, <1>4, <1>6, <1>7, TypedPartsNext

-----------------------------------------------------------------------------
(***************************************************************************)
(* The exchange, the crash and the start.                                  *)
(***************************************************************************)

\* What the exchange does to one order.
LEMMA Exchanged ==
    ASSUME OrdersTyped, NEW o \in OrderIds, Exchange(o)
    PROVE  /\ orders[o] # None /\ orders'[o] \in ExchangeOrders
           /\ Progress(orders[o], orders'[o])
           /\ orders'[o].orig = orders[o].orig
           /\ orders' \in [OrderIds -> ExchangeOrders \cup {None}]
           /\ \A x \in OrderIds : x # o => orders'[x] = orders[x]
<1>1. PICK executed \in orders[o].executed .. orders[o].orig, status \in Statuses :
        LET after == [orders[o] EXCEPT !.executed = executed, !.status = status] IN
        /\ Progress(orders[o], after)
        /\ WellFormed(after, after.orig)
        /\ orders' = [orders EXCEPT ![o] = after]
    BY DEF Exchange
<1> DEFINE after == [orders[o] EXCEPT !.executed = executed, !.status = status]
<1>2. orders[o] # None /\ orders[o] \in ExchangeOrders
    BY DEF Exchange, OrdersTyped
<1>3. executed \in Nat
    BY <1>2, OrderFields
<1>4. after \in ExchangeOrders /\ after.orig = orders[o].orig
    BY <1>1, <1>2, <1>3 DEF ExchangeOrders
<1>5. Progress(orders[o], after) /\ orders' = [orders EXCEPT ![o] = after]
    BY <1>1
<1> HIDE DEF after
<1>6. QED
    BY <1>2, <1>4, <1>5 DEF OrdersTyped

LEMMA ExchangeTyped ==
    ASSUME Typed, NEW o \in OrderIds, Exchange(o)
    PROVE  Typed'
<1>1. OrdersTyped
    BY TypedParts
<1>2. OrdersTyped' /\ \A x \in OrderIds : orders[x] # None => orders'[x] # None
    BY <1>1, Exchanged, OrderFields DEF Exchange, OrdersTyped
<1>3. OrdersExist'
  <2>1. ASSUME NEW side \in Sides, orderCache[side] # None
        PROVE  orders'[orderCache[side].id] # None
      BY <1>1, <1>2, <2>1, EntryFields, TypedParts DEF OrdersTyped, OrdersExist
  <2>2. ASSUME Maker.pc \in Busy
        PROVE  orders'[job.id] # None
      BY <1>2, <2>2, BusyWithOrder
  <2>3. QED
      BY <2>1, <2>2 DEF Exchange, Maker, OrdersExist
<1>4. AgentsTyped' /\ JobFits(Maker, job)'
    BY TypedParts DEF Exchange, AgentsTyped, AgentsHold, JobFits, Maker
<1>5. PositionsTyped' /\ CountsTyped'
    BY TypedParts DEF Exchange, PositionsTyped, CountsTyped
<1>6. QED
    BY <1>2, <1>3, <1>4, <1>5, TypedPartsNext

\* A crash leaves idle goroutines and the maker at its start.
LEMMA Crashed ==
    ASSUME Crash
    PROVE  /\ AgentsTyped'
           /\ Maker'.pc = "boot" /\ Maker'.copy = None /\ Maker'.draft = None
           /\ \A b \in Agents : b # "maker" => agent'[b] = IdleAgent
           /\ job' = NoJob
<1> DEFINE s == [IdleAgent EXCEPT !.pc = "boot"]
<1>1. s \in AgentStates /\ s.pc = "boot" /\ s.copy = None /\ s.draft = None
    BY DEF AgentStates, IdleAgent
<1>2. HoldsWhatItUses(s)
    BY <1>1 DEF HoldsWhatItUses, HasCopy
<1>3. agent' = [a \in Agents |-> IF a = "maker" THEN s ELSE IdleAgent]
    BY DEF Crash
<1> HIDE DEF s
<1>4. QED
    BY <1>1, <1>2, <1>3, IdleState, MakerIsAgent
    DEF Crash, AgentsTyped, AgentsHold, Maker

LEMMA CrashTyped ==
    ASSUME Typed, Crash
    PROVE  Typed'
<1>1. JobFits(Maker, job)'
    BY Crashed DEF JobFits, IsLooking, Looking, Busy, NoJob
<1>2. OrdersTyped'
    BY Crashed, TypedParts DEF Crash, stores, OrdersTyped, Jobs, NoJob
<1>3. OrdersExist'
    BY Crashed, TypedParts DEF Crash, stores, OrdersExist, Busy
<1>4. PositionsTyped'
    BY TypedParts DEF Crash, stores, PositionsTyped
<1>5. CountsTyped'
    BY LedgerAssumption, TypedParts DEF Crash, CountsTyped
<1>6. QED
    BY <1>1, <1>2, <1>3, <1>4, <1>5, Crashed, TypedPartsNext

\* The start caches, for each side with live orders, one of them as it is.
LEMMA Booted ==
    ASSUME Typed, Boot
    PROVE  /\ orderCache' \in [Sides -> CacheEntries]
           /\ \A side \in Sides :
                \/ orderCache'[side] = orderCache[side] /\
                       (LiveOrders(side) = {} \/ faults' = faults + 1)
                \/ \E o \in LiveOrders(side) :
                       /\ orderCache'[side] # None
                       /\ orderCache'[side].id = o /\ orderCache'[side].seen = orders[o]
<1>1. orderCache \in [Sides -> CacheEntries] /\
          orders \in [OrderIds -> ExchangeOrders \cup {None}]
    BY TypedParts DEF OrdersTyped
<1>2. CASE RequestFails /\ UNCHANGED orderCache
    BY <1>1, <1>2 DEF RequestFails
<1>3. ASSUME NEW found \in [Sides -> OrderIds \cup {None}],
             \A side \in Sides :
                 found[side] \in IF LiveOrders(side) = {} THEN {None} ELSE LiveOrders(side),
             orderCache' = [side \in Sides |->
                      IF found[side] = None THEN orderCache[side]
                      ELSE [id |-> found[side], seen |-> orders[found[side]]]]
      PROVE  /\ orderCache' \in [Sides -> CacheEntries]
             /\ \A side \in Sides :
                  \/ orderCache'[side] = orderCache[side] /\ LiveOrders(side) = {}
                  \/ \E o \in LiveOrders(side) :
                         /\ orderCache'[side] # None
                         /\ orderCache'[side].id = o /\ orderCache'[side].seen = orders[o]
  <2>1. ASSUME NEW side \in Sides
        PROVE  /\ orderCache'[side] \in CacheEntries
               /\ \/ orderCache'[side] = orderCache[side] /\ LiveOrders(side) = {}
                  \/ \E o \in LiveOrders(side) :
                         /\ orderCache'[side] # None
                         /\ orderCache'[side].id = o /\ orderCache'[side].seen = orders[o]
    <3>1. CASE LiveOrders(side) = {}
        BY <1>1, <1>3, <3>1
    <3>2. CASE LiveOrders(side) # {}
      <4>1. found[side] \in LiveOrders(side)
          BY <1>3, <3>2
      <4>2. /\ found[side] \in OrderIds /\ found[side] # None
            /\ orders[found[side]] \in ExchangeOrders
          BY <1>1, <4>1, LedgerAssumption DEF LiveOrders
      <4> DEFINE e == [id |-> found[side], seen |-> orders[found[side]]]
      <4>3. orderCache'[side] = e
          BY <1>3, <4>2
      <4>4. e \in CachedOrders /\ e.id = found[side] /\ e.seen = orders[found[side]]
          BY <4>2 DEF CachedOrders
      <4> HIDE DEF e
      <4>5. e # None /\ e \in CacheEntries
          BY <4>4, NoneAssumption DEF CacheEntries
      <4>6. QED
          BY <4>1, <4>3, <4>4, <4>5
    <3>3. QED
        BY <3>1, <3>2
  <2>2. orderCache' = [side \in Sides |-> orderCache'[side]]
      BY <1>3
  <2>3. QED
      BY <2>1, <2>2
<1>4. QED
    BY <1>2, <1>3 DEF Boot

LEMMA BootTyped ==
    ASSUME Typed, Boot
    PROVE  Typed'
<1>1. Maker.pc = "boot" /\ job = NoJob
    BY TypedParts DEF Boot, JobFits, Free
<1>2. AgentsTyped' /\ Maker' = IdleAgent /\ JobFits(Maker, job)'
    BY <1>1, MakerFinished DEF Boot
<1>3. OrdersTyped'
    BY Booted, TypedParts DEF Boot, OrdersTyped
<1>4. OrdersExist'
  <2>1. Maker'.pc \notin Busy
      BY <1>2, IdleState DEF Busy
  <2>2. ASSUME NEW side \in Sides, orderCache'[side] # None
        PROVE  orders'[orderCache'[side].id] # None
    <3>1. orders' = orders
        BY DEF Boot
    <3>2. CASE orderCache'[side] = orderCache[side]
        BY <2>2, <3>1, <3>2, TypedParts DEF OrdersExist
    <3>3. CASE \E o \in LiveOrders(side) : orderCache'[side].id = o
        BY <3>1, <3>3 DEF LiveOrders
    <3>4. QED
        BY <3>2, <3>3, Booted
  <2>3. QED
      BY <2>1, <2>2 DEF OrdersExist
<1>5. PositionsTyped'
    BY TypedParts DEF Boot, PositionsTyped
<1>6. CountsTyped'
    BY TypedParts, FaultCounted DEF Boot, CountsTyped
<1>7. QED
    BY <1>2, <1>3, <1>4, <1>5, <1>6, TypedPartsNext

-----------------------------------------------------------------------------
\* Every step keeps the types and what the goroutines hold.
LEMMA TypedStep ==
    ASSUME Typed, [Next]_vars
    PROVE  Typed'
<1>1. CASE UNCHANGED vars
    BY <1>1 DEF vars, stores, Typed, TypeOK, Control, AgentsHold, JobFits, OrdersExist, Maker
<1>2. CASE MakerStep
    BY <1>2, LoadCachedTyped, SelectTyped, SelectFailsTyped, FillTyped,
       DeleteCacheTyped, WriteTyped, WriteFailsTyped, DecideTyped, SellQuantityTyped,
       RefusalsTyped, FindCachedTyped, FindOpenedTyped, PlaceTyped, CachePlacedTyped,
       TryTyped, WaitQueryTyped, WaitOkTyped, WaitErrorTyped, WaitAgainTyped,
       SaveBuyTyped, SaveBuyExtraTyped, SaveSellTyped, SaveDuplicateTyped,
       UpdateCommissionTyped, CleanUpTyped, CloseTyped, ExecuteSwapTyped,
       MakeSwapTyped, CreateSwapTyped, CreateSwapFailsTyped, BootTyped
    DEF MakerStep, Loaders, Writers, Swappers
<1>3. ASSUME NEW w \in Pollers, PollerStep(w) PROVE Typed'
    BY <1>3, PollerReadsTyped, MakeSwapTyped, CreateSwapTyped, CreateSwapFailsTyped,
       DeleteCacheTyped, WriteTyped, WriteFailsTyped
    DEF PollerStep, Writers, Swappers
<1>4. ASSUME NEW r \in Readers, ReaderStep(r) PROVE Typed'
    BY <1>4, LoadCachedTyped, SelectTyped, SelectFailsTyped, FillTyped
    DEF ReaderStep, Loaders
<1>5. ASSUME NEW c \in Clerks, ClerkStep(c) PROVE Typed'
    BY <1>5, EditTyped, DeleteCacheTyped, WriteTyped, WriteFailsTyped DEF ClerkStep, Writers
<1>6. QED
    BY <1>1, <1>2, <1>3, <1>4, <1>5, ExchangeTyped, CrashTyped DEF Next

\* The specification keeps the types and what the goroutines hold at each point.
THEOREM LedgerTyped == Spec => []Typed
<1>1. Init => Typed
    BY TypedInit
<1>2. Typed /\ [Next]_vars => Typed'
    BY TypedStep
<1>3. QED
    BY <1>1, <1>2, PTL DEF Spec

\* TypeOK holds in every state; in particular no swap action is ended twice.
THEOREM LedgerTypeOK == Spec => []TypeOK
<1>1. Typed => TypeOK
    BY DEF Typed
<1>2. QED
    BY <1>1, LedgerTyped, PTL
=============================================================================
