--------------------- MODULE TradeLedgerPositionProofs ----------------------
(***************************************************************************)
(* Proofs about the positions of TradeLedger: whole-row updates from stale *)
(* copies never give a position more than was bought, its swap actions do  *)
(* not pile up, and what the maker keeps when it works alone.              *)
(***************************************************************************)
EXTENDS TradeLedgerOrderProofs

-----------------------------------------------------------------------------
(***************************************************************************)
(* Where the copies of a position come from.                               *)
(***************************************************************************)
Known(c) ==
    \/ c = openedCache
    \/ \E a \in Agents : c = agent[a].copy \/ c = agent[a].draft

\* The quantity is that of a copy somebody has, or of the row of an opened position.
FromStock(c) ==
    \/ c = None
    \/ \E d \in Copies : Known(d) /\ c.id = d.id /\ c.exec = d.exec
    \/ \E p \in OpenedPositions : c.id = p /\ c.exec = position[p].exec

CopiesFromStock == \A c : Known(c)' => FromStock(c)

\* A goroutine that is about to create a swap action was there before.
NoNewSwapper ==
    \A a \in Swappers : agent'[a].pc = "createSwap" =>
        agent[a].pc = "createSwap" /\ agent'[a].copy = agent[a].copy

PositionStep ==
    \/ CopiesFromStock /\ NoNewSwapper
    \/ CopiesFromStock /\ \E a \in Swappers : MakeSwap(a)
    \/ SaveBuyExtra /\ NoNewSwapper

\* Somebody's copy comes from the stock, and so does the row of an opened position.
LEMMA KnownIsStock ==
    ASSUME Typed
    PROVE  /\ FromStock(openedCache)
           /\ \A a \in Agents : FromStock(agent[a].copy) /\ FromStock(agent[a].draft)
           /\ \A p \in OpenedPositions : FromStock(CopyOf(p))
<1>1. openedCache \in Copies \cup {None}
    BY TypedParts DEF PositionsTyped
<1>2. \A a \in Agents : agent[a].copy \in Copies \cup {None}
                        /\ agent[a].draft \in Copies \cup {None}
    BY StateFields, TypedParts DEF AgentsTyped
<1>3. FromStock(openedCache)
    BY <1>1 DEF FromStock, Known
<1>4. \A a \in Agents : FromStock(agent[a].copy) /\ FromStock(agent[a].draft)
    BY <1>2 DEF FromStock, Known
<1>5. \A p \in OpenedPositions : FromStock(CopyOf(p))
    BY DEF FromStock, CopyOf
<1>6. QED
    BY <1>3, <1>4, <1>5

\* When one goroutine moves, only its copies and the cache are to be looked at.
LEMMA OneMoves ==
    ASSUME Typed, NEW a \in Agents, \A b \in Agents : b # a => agent'[b] = agent[b],
           FromStock(agent'[a].copy), FromStock(agent'[a].draft), FromStock(openedCache')
    PROVE  CopiesFromStock
<1>1. \A b \in Agents : FromStock(agent'[b].copy) /\ FromStock(agent'[b].draft)
    BY KnownIsStock
<1>2. QED
    BY <1>1 DEF CopiesFromStock, Known

LEMMA OneMovesElsewhere ==
    ASSUME NEW a \in Agents, \A b \in Agents : b # a => agent'[b] = agent[b],
           agent'[a].pc # "createSwap"
    PROVE  NoNewSwapper
BY SwapperIsAgent DEF NoNewSwapper

\* None comes from the stock of no copies.
LEMMA NoneIsStock == FromStock(None)
BY DEF FromStock

\* Reading the position copies the cache or the row.
LEMMA ReadingCopies ==
    ASSUME Typed, NEW a \in Loaders,
           LoadCached(a) \/ Select(a) \/ SelectFails(a) \/ Fill(a)
    PROVE  PositionStep
<1>1. AgentsTyped /\ a \in Agents /\ PositionsTyped /\ agent[a] \in AgentStates
    BY TypedParts, LoaderIsAgent DEF AgentsTyped
<1>2. ASSUME NEW copy \in Copies \cup {None}, Loaded(a, copy), FromStock(copy),
             FromStock(openedCache')
      PROVE  PositionStep
    BY <1>1, <1>2, LoadedCopy, OneMoves, OneMovesElsewhere, NoneIsStock DEF PositionStep
<1>3. ASSUME Continue(a, "select"), UNCHANGED openedCache
      PROVE  PositionStep
  <2>1. /\ agent'[a].pc = "select" /\ agent'[a].copy = agent[a].copy
        /\ agent'[a].draft = agent[a].draft
        /\ \A b \in Agents : b # a => agent'[b] = agent[b]
      BY <1>1, <1>3, Continued DEF Pcs, HasCopy
  <2>2. QED
      BY <1>1, <1>3, <2>1, OneMoves, OneMovesElsewhere, KnownIsStock DEF PositionStep
<1>5. CASE LoadCached(a)
    BY <1>1, <1>2, <1>3, <1>5, KnownIsStock DEF LoadCached, stores, PositionsTyped
<1>6. CASE Select(a)
  <2>1. UNCHANGED openedCache
      BY <1>6 DEF Select, stores
  <2>2. CASE Loaded(a, None)
      BY <1>2, <2>1, <2>2, KnownIsStock, NoneIsStock
  <2>3. ASSUME NEW p \in OpenedPositions,
               agent' = [agent EXCEPT ![a].pc = "fill", ![a].copy = CopyOf(p)]
        PROVE  PositionStep
    <3>1. /\ agent'[a].pc = "fill" /\ agent'[a].copy = CopyOf(p)
          /\ agent'[a].draft = agent[a].draft
          /\ \A b \in Agents : b # a => agent'[b] = agent[b]
        BY <1>1, <2>3 DEF AgentsTyped, AgentStates
    <3>2. QED
        BY <1>1, <2>1, <3>1, OneMoves, OneMovesElsewhere, KnownIsStock DEF PositionStep
  <2>4. QED
      BY <1>6, <2>2, <2>3 DEF Select
<1>7. CASE SelectFails(a)
    BY <1>2, <1>7, KnownIsStock, NoneIsStock DEF SelectFails, stores
<1>8. CASE Fill(a)
    BY <1>1, <1>2, <1>8, KnownIsStock, StateFields DEF Fill
<1>9. QED
    BY <1>5, <1>6, <1>7, <1>8

\* A goroutine that goes elsewhere with its copies, or becomes idle.
LEMMA MovesWithCopies ==
    ASSUME Typed, NEW a \in Agents, \A b \in Agents : b # a => agent'[b] = agent[b],
           agent'[a].pc # "createSwap",
           agent'[a].copy \in {agent[a].copy, None},
           agent'[a].draft \in {agent[a].draft, None},
           openedCache' \in {openedCache, None}
    PROVE  CopiesFromStock /\ NoNewSwapper
BY OneMoves, OneMovesElsewhere, KnownIsStock, NoneIsStock

\* A draft of somebody's copy, with its quantity.
LEMMA BeginsWithCopy ==
    ASSUME Typed, NEW a \in Agents, NEW draft \in Copies, FromStock(draft),
           NEW then \in {"idle", "find", "cleanup"}, BeginUpdate(a, draft, then),
           UNCHANGED openedCache
    PROVE  CopiesFromStock /\ NoNewSwapper
<1>1. /\ agent'[a].pc = "delete" /\ agent'[a].copy = agent[a].copy
      /\ agent'[a].draft = draft
      /\ \A b \in Agents : b # a => agent'[b] = agent[b]
    BY Began, TypedParts
<1>2. QED
    BY <1>1, OneMoves, OneMovesElsewhere, KnownIsStock

\* A copy with other flags has the same quantity.
LEMMA SameQuantity ==
    ASSUME Typed, NEW a \in Agents, agent[a].copy \in Copies, NEW c,
           c.id = agent[a].copy.id, c.exec = agent[a].copy.exec
    PROVE  FromStock(c)
BY DEF FromStock, Known

LEMMA UpdatingCopies ==
    ASSUME Typed, NEW a \in Writers,
           DeleteCache(a) \/ Write(a) \/ WriteFails(a)
    PROVE  PositionStep
<1>1. AgentsTyped /\ a \in Agents /\ agent[a] \in AgentStates
    BY TypedParts, WriterIsAgent DEF AgentsTyped
<1>2. agent[a].pc = "write" \/ agent[a].pc = "delete"
    BY DEF DeleteCache, Write, WriteFails
<1>3. agent[a].draft # None
    BY <1>1, <1>2 DEF AgentsTyped, AgentsHold, HoldsWhatItUses
<1>4. openedCache' \in {openedCache, None}
    BY DEF DeleteCache, DeleteOpenedOrderCache, Write, WriteFails, stores
<1>5. ASSUME NEW pc \in {"write", "find", "cleanup"}, Continue(a, pc)
      PROVE  CopiesFromStock /\ NoNewSwapper
  <2>1. /\ agent'[a].pc = pc /\ agent'[a].copy = agent[a].copy
        /\ agent'[a].draft = agent[a].draft
        /\ \A b \in Agents : b # a => agent'[b] = agent[b]
      BY <1>1, <1>3, <1>5, Continued DEF Pcs, HasCopy
  <2>2. QED
      BY <1>1, <1>4, <2>1, MovesWithCopies
<1>6. ASSUME Finish(a)
      PROVE  CopiesFromStock /\ NoNewSwapper
  <2>1. agent'[a] = IdleAgent /\ \A b \in Agents : b # a => agent'[b] = agent[b]
      BY <1>1, <1>6, Finished
  <2>2. QED
      BY <1>1, <1>4, <2>1, IdleState, MovesWithCopies
<1>7. CASE a = "maker" /\ Fail
  <2>1. /\ agent'[a].pc # "createSwap"
        /\ agent'[a].copy \in {agent[a].copy, None}
        /\ agent'[a].draft \in {agent[a].draft, None}
        /\ \A b \in Agents : b # a => agent'[b] = agent[b]
      BY <1>7, FailTyped DEF Maker
  <2>2. QED
      BY <1>1, <1>4, <2>1, MovesWithCopies DEF PositionStep
<1>8. CASE DeleteCache(a)
    BY <1>5, <1>8 DEF DeleteCache, PositionStep
<1>9. CASE Write(a)
  <2>1. agent[a].then # "idle" => agent[a].then \in {"find", "cleanup"}
      BY <1>1, StateFields
  <2>2. QED
      BY <1>5, <1>6, <1>9, <2>1 DEF Write, PositionStep
<1>10. CASE WriteFails(a)
    BY <1>5, <1>6, <1>7, <1>10 DEF WriteFails, PositionStep
<1>11. QED
    BY <1>8, <1>9, <1>10

LEMMA EditCopies ==
    ASSUME Typed, NEW c \in Clerks, Edit(c)
    PROVE  PositionStep
<1>1. c \in Agents /\ PositionsTyped
    BY MakerIsAgent, TypedParts
<1>2. PICK p \in OpenedPositions : BeginUpdate(c, CopyOf(p), "idle")
    BY DEF Edit
<1>3. QED
    BY <1>1, <1>2, CopyTyped, KnownIsStock, BeginsWithCopy DEF Edit, stores, PositionStep

LEMMA SwapCopies ==
    ASSUME Typed, NEW a \in Swappers,
           MakeSwap(a) \/ CreateSwap(a) \/ CreateSwapFails(a)
    PROVE  PositionStep
<1>1. AgentsTyped /\ a \in Agents /\ agent[a].pc \in HasCopy
    BY TypedParts, SwapperIsAgent DEF MakeSwap, CreateSwap, CreateSwapFails, HasCopy
<1>2. agent[a].copy \in Copies /\ agent[a].copy # None
    BY <1>1, SwapperHasCopy, CopyFields
<1>3. CASE Finish(a) /\ UNCHANGED openedCache
  <2>1. agent'[a] = IdleAgent /\ \A b \in Agents : b # a => agent'[b] = agent[b]
      BY <1>1, <1>3, Finished
  <2>2. QED
      BY <1>1, <1>3, <2>1, IdleState, MovesWithCopies DEF PositionStep
<1>4. CASE MakeSwap(a) /\ Continue(a, "createSwap")
  <2>1. /\ agent'[a].copy = agent[a].copy /\ agent'[a].draft = agent[a].draft
        /\ \A b \in Agents : b # a => agent'[b] = agent[b]
      BY <1>1, <1>2, <1>4, Continued DEF Pcs
  <2>2. openedCache' = openedCache
      BY <1>4 DEF MakeSwap, stores
  <2>3. QED
      BY <1>1, <1>4, <2>1, <2>2, OneMoves, KnownIsStock DEF PositionStep
<1>5. CASE CreateSwap(a)
  <2> DEFINE draft == [agent[a].copy EXCEPT !.swap = TRUE]
  <2>1. /\ draft \in Copies /\ draft.id = agent[a].copy.id
        /\ draft.exec = agent[a].copy.exec
      BY <1>2 DEF Copies
  <2>2. BeginUpdate(a, draft, "idle")
      BY <1>5 DEF CreateSwap
  <2> HIDE DEF draft
  <2>3. FromStock(draft)
      BY <1>1, <1>2, <2>1, SameQuantity
  <2>4. QED
      BY <1>1, <1>5, <2>1, <2>2, <2>3, BeginsWithCopy DEF CreateSwap, PositionStep
<1>6. QED
    BY <1>3, <1>4, <1>5 DEF MakeSwap, CreateSwapFails, stores

LEMMA PollerCopies ==
    ASSUME Typed, NEW w \in Pollers, PollerReads(w)
    PROVE  PositionStep
<1>1. AgentsTyped /\ PositionsTyped /\ w \in Agents
    BY TypedParts, MakerIsAgent
<1>2. PICK copy \in IF openedCache # None THEN {openedCache}
                    ELSE { CopyOf(p) : p \in OpenedPositions } :
            /\ openedCache' = copy
            /\ agent' = [agent EXCEPT ![w] = [IdleAgent EXCEPT !.pc = "armed", !.copy = copy]]
    BY DEF PollerReads
<1>3. FromStock(copy)
    BY <1>2, KnownIsStock
<1>4. /\ agent'[w].pc = "armed" /\ agent'[w].copy = copy
      /\ agent'[w].draft = None
      /\ \A b \in Agents : b # w => agent'[b] = agent[b]
    BY <1>1, <1>2 DEF AgentsTyped, IdleAgent
<1>5. QED
    BY <1>1, <1>2, <1>3, <1>4, OneMoves, OneMovesElsewhere, NoneIsStock DEF PositionStep

\* The maker goes elsewhere with its copy, or is idle.
LEMMA MakerCopies ==
    ASSUME Typed,
           \/ Decide \/ SellQuantity \/ RefuseExtra \/ FindCached \/ FindOpened \/ Place
           \/ Refuse \/ CachePlaced \/ Try \/ SaveBuy \/ SaveSell \/ SaveDuplicate
           \/ SaveFails \/ UpdateCommission \/ CleanUp \/ CloseFails \/ Boot
    PROVE  PositionStep
<1>1. AgentsTyped /\ "maker" \in Agents
    BY TypedParts, MakerIsAgent
<1>2. openedCache' \in {openedCache, None}
    BY DEF Decide, SellQuantity, RefuseExtra, FindCached, FindOpened, Place, Refuse,
       CachePlaced, Try, SaveBuy, SaveSell, SaveDuplicate, SaveFails, UpdateCommission,
       CleanUp, CloseFails, Boot, stores
<1>3. ASSUME NEW pc \in Pcs \ {"delete", "write", "createSwap"}, Continue("maker", pc),
             pc \in HasCopy => Maker.copy # None
      PROVE  PositionStep
  <2>1. /\ agent'["maker"].pc = pc /\ agent'["maker"].copy = agent["maker"].copy
        /\ agent'["maker"].draft = agent["maker"].draft
        /\ \A b \in Agents : b # "maker" => agent'[b] = agent[b]
      BY <1>1, <1>3, Continued DEF Maker
  <2>2. QED
      BY <1>1, <1>2, <2>1, MovesWithCopies DEF PositionStep
<1>4. ASSUME Finish("maker") PROVE PositionStep
  <2>1. agent'["maker"] = IdleAgent
        /\ \A b \in Agents : b # "maker" => agent'[b] = agent[b]
      BY <1>1, <1>4, Finished
  <2>2. QED
      BY <1>1, <1>2, <2>1, IdleState, MovesWithCopies DEF PositionStep
<1>5. ASSUME Fail PROVE PositionStep
  <2>1. /\ agent'["maker"].pc # "createSwap"
        /\ agent'["maker"].copy \in {agent["maker"].copy, None}
        /\ agent'["maker"].draft \in {agent["maker"].draft, None}
        /\ \A b \in Agents : b # "maker" => agent'[b] = agent[b]
      BY <1>5, FailTyped DEF Maker
  <2>2. QED
      BY <1>1, <1>2, <2>1, MovesWithCopies DEF PositionStep
<1>6. CASE Decide
  <2>1. CASE InSwap(Maker.copy) /\ Continue("maker", "swapping")
      BY <1>3, <2>1 DEF InSwap, Pcs
  <2>2. CASE Finish("maker")
      BY <1>4, <2>2
  <2>3. ASSUME NEW op \in Operations(Maker.copy), job' = [NoJob EXCEPT !.op = op],
               Continue("maker", IF job'.op = "Sell" THEN "quantity" ELSE "find")
        PROVE  PositionStep
    <3>1. job'.op = op /\ (op # "Buy" => Maker.copy # None)
        BY <2>3, OperationsOf DEF NoJob
    <3>2. PICK pc \in {"quantity", "find"} :
              pc = (IF op = "Sell" THEN "quantity" ELSE "find")
        OBVIOUS
    <3>3. Continue("maker", pc) /\ (pc \in HasCopy => Maker.copy # None)
        BY <2>3, <3>1, <3>2 DEF HasCopy
    <3>4. QED
        BY <1>3, <3>3 DEF Pcs
  <2>4. QED
      BY <1>6, <2>1, <2>2, <2>3 DEF Decide
<1>7. CASE SellQuantity
  <2>1. Maker.copy \in Copies
      BY <1>1, <1>7, SwapperHasCopy DEF SellQuantity, Maker, HasCopy
  <2>2. CASE BeginUpdate("maker", Maker.copy, "find")
      BY <1>1, <1>7, <2>1, <2>2, KnownIsStock, BeginsWithCopy
      DEF SellQuantity, stores, Maker, PositionStep
  <2>3. QED
      BY <1>3, <1>7, <2>2 DEF SellQuantity, Pcs, HasCopy
<1>8. CASE SaveSell
  <2>1. Maker.copy # None
      BY <1>8, BusyWithOrder, CopyFields DEF SaveSell, Insert, Busy
  <2>2. QED
      BY <1>3, <1>8, <2>1 DEF SaveSell, Pcs
<1>9. QED
    BY <1>3, <1>4, <1>5, <1>6, <1>7, <1>8
    DEF RefuseExtra, FindCached, FindOpened, Place, Refuse, CachePlaced, Try, SaveBuy,
        SaveDuplicate, SaveFails, UpdateCommission, CleanUp, CloseFails, Boot, Pcs, HasCopy

\* Close and the end of the swap mode write the maker's copy, with other flags.
LEMMA MakerDrafts ==
    ASSUME Typed, Close \/ ExecuteSwap
    PROVE  PositionStep
<1>1. AgentsTyped /\ "maker" \in Agents /\ Maker.copy \in Copies
    BY TypedParts, MakerIsAgent, SwapperHasCopy DEF Close, ExecuteSwap, Maker, HasCopy
<1>2. UNCHANGED openedCache
    BY DEF Close, ExecuteSwap, stores
<1>3. CASE Close
  <2> DEFINE draft == IF IsSoldOut(Maker.copy.exec, sold[Maker.copy.id])
                      THEN [Maker.copy EXCEPT !.status = "closed"] ELSE Maker.copy
  <2>1. /\ draft \in Copies /\ draft.id = agent["maker"].copy.id
        /\ draft.exec = agent["maker"].copy.exec
      BY <1>1 DEF Copies, Maker
  <2>2. BeginUpdate("maker", draft, "idle")
      BY <1>3 DEF Close
  <2> HIDE DEF draft
  <2>3. QED
      BY <1>1, <1>2, <2>1, <2>2, SameQuantity, BeginsWithCopy DEF Maker, PositionStep
<1>4. CASE ExecuteSwap /\ EndSwapMode
  <2> DEFINE draft == [Maker.copy EXCEPT !.swap = FALSE]
  <2>1. /\ draft \in Copies /\ draft.id = agent["maker"].copy.id
        /\ draft.exec = agent["maker"].copy.exec
      BY <1>1 DEF Copies, Maker
  <2>2. BeginUpdate("maker", draft, "idle")
      BY <1>4 DEF EndSwapMode
  <2> HIDE DEF draft
  <2>3. QED
      BY <1>1, <1>2, <2>1, <2>2, SameQuantity, BeginsWithCopy DEF Maker, PositionStep
<1>5. CASE ExecuteSwap /\ Finish("maker")
  <2>1. agent'["maker"] = IdleAgent
        /\ \A b \in Agents : b # "maker" => agent'[b] = agent[b]
      BY <1>1, <1>5, Finished
  <2>2. QED
      BY <1>1, <1>2, <2>1, IdleState, MovesWithCopies DEF PositionStep
<1>6. QED
    BY <1>3, <1>4, <1>5 DEF ExecuteSwap

\* The wait moves the maker and its poller, with their copies.
LEMMA WaitCopies ==
    ASSUME Typed,
           WaitQuery \/ WaitOk \/ WaitError \/ WaitGivesUp \/ WaitAgain
    PROVE  PositionStep
<1>1. /\ AgentsTyped /\ "maker" \in Agents
      /\ Maker \in AgentStates /\ Maker.pc = "wait"
    BY TypedParts, MakerIsAgent
    DEF AgentsTyped, Maker, WaitQuery, WaitOk, WaitError, WaitGivesUp, WaitAgain
<1>2. UNCHANGED openedCache
    BY DEF WaitQuery, WaitOk, WaitError, WaitGivesUp, WaitAgain, EndWait, stores
<1>3. CASE WaitQuery
    BY <1>1, <1>2, <1>3, KnownIsStock
    DEF WaitQuery, PositionStep, CopiesFromStock, Known, NoNewSwapper
<1>4. CASE WaitAgain
  <2>1. PICK w \in Armed : Continue(w, "makeSwap")
      BY <1>4 DEF WaitAgain
  <2>2. w \in Agents /\ agent[w].pc = "armed"
      BY MakerIsAgent DEF Armed
  <2>3. /\ agent'[w].pc = "makeSwap"
        /\ agent'[w].copy = agent[w].copy
        /\ agent'[w].draft = agent[w].draft
        /\ \A b \in Agents : b # w => agent'[b] = agent[b]
      BY <1>1, <2>1, <2>2, Continued, SwapperHasCopy, CopyFields DEF Pcs, HasCopy
  <2>4. QED
      BY <1>1, <1>2, <2>2, <2>3, MovesWithCopies DEF PositionStep
<1>5. ASSUME NEW makers \in SUBSET AgentStates, EndWait(makers),
             \A s \in makers : /\ HoldsWhatItUses(s) /\ s.pc # "createSwap"
                               /\ s.copy \in {Maker.copy, None}
                               /\ s.draft \in {Maker.draft, None}
      PROVE  PositionStep
  <2>1. /\ Maker' \in makers
        /\ \A b \in Agents : b # "maker" => agent'[b] \in PollerEnds(b)
      BY <1>1, <1>5, EndWaitMoves
  <2>2. /\ agent'["maker"].pc # "createSwap"
        /\ agent'["maker"].copy \in {agent["maker"].copy, None}
        /\ agent'["maker"].draft \in {agent["maker"].draft, None}
      BY <1>5, <2>1 DEF Maker
  <2>3. ASSUME NEW b \in Agents, b # "maker"
        PROVE  /\ agent'[b].pc # "createSwap" \/ agent'[b] = agent[b]
               /\ agent'[b].copy \in {agent[b].copy, None}
               /\ agent'[b].draft \in {agent[b].draft, None}
    <3>1. agent'[b] = agent[b] \/ agent[b].pc = "armed"
        BY <2>1, <2>3 DEF PollerEnds
    <3>2. QED
        BY <1>1, <2>1, <2>3, <3>1, PollerEndsTyped
  <2>4. \A b \in Agents : FromStock(agent'[b].copy) /\ FromStock(agent'[b].draft)
      BY <2>2, <2>3, KnownIsStock, NoneIsStock
  <2>5. CopiesFromStock
      BY <1>2, <2>4, KnownIsStock DEF CopiesFromStock, Known
  <2>6. NoNewSwapper
      BY <2>2, <2>3, SwapperIsAgent DEF NoNewSwapper
  <2>7. QED
      BY <2>5, <2>6 DEF PositionStep
<1>6. CASE WaitError \/ WaitGivesUp
  <2>1. /\ Failed \in SUBSET AgentStates
        /\ \A s \in Failed : /\ HoldsWhatItUses(s) /\ s.pc # "createSwap"
                             /\ s.copy \in {Maker.copy, None}
                             /\ s.draft \in {Maker.draft, None}
      BY FailedStates
  <2>2. EndWait(Failed)
      BY <1>6 DEF WaitError, WaitGivesUp
  <2>3. QED
      BY <1>5, <2>1, <2>2
<1>7. CASE WaitOk
  <2> DEFINE s == [Maker EXCEPT !.pc = "save"]
  <2>1. /\ s \in AgentStates /\ s.pc = "save" /\ s.copy = Maker.copy
        /\ s.draft = Maker.draft
      BY <1>1 DEF AgentStates
  <2>2. EndWait({s})
      BY <1>7 DEF WaitOk
  <2> HIDE DEF s
  <2>3. HoldsWhatItUses(s)
      BY <2>1 DEF HoldsWhatItUses, HasCopy
  <2>4. QED
      BY <1>5, <2>1, <2>2, <2>3
<1>8. QED
    BY <1>3, <1>4, <1>6, <1>7

LEMMA ExtraCopies ==
    ASSUME Typed, SaveBuyExtra
    PROVE  PositionStep
<1>1. /\ AgentsTyped /\ "maker" \in Agents /\ Maker.copy \in Copies
      /\ job.seen.executed \in Nat
    BY TypedParts, MakerIsAgent, BusyWithOrder, OrderFields DEF SaveBuyExtra, Insert, Busy
<1>2. agent'["maker"].pc = "delete" /\ \A b \in Agents : b # "maker" => agent'[b] = agent[b]
    BY <1>1, GrownFields, Began DEF SaveBuyExtra
<1>3. QED
    BY <1>1, <1>2, OneMovesElsewhere DEF PositionStep

LEMMA QuietCopies ==
    ASSUME Typed, UNCHANGED <<agent, openedCache>>
    PROVE  PositionStep
BY KnownIsStock DEF PositionStep, CopiesFromStock, Known, NoNewSwapper

LEMMA CrashCopies ==
    ASSUME Typed, Crash
    PROVE  PositionStep
<1>1. /\ agent'["maker"].pc = "boot"
      /\ \A b \in Agents : /\ agent'[b].copy = None /\ agent'[b].draft = None
                           /\ agent'[b].pc # "createSwap"
    BY Crashed, IdleState DEF Maker
<1>2. UNCHANGED openedCache
    BY DEF Crash, stores
<1>3. QED
    BY <1>1, <1>2, KnownIsStock, NoneIsStock, SwapperIsAgent
    DEF PositionStep, CopiesFromStock, Known, NoNewSwapper

\* Every step copies from the stock, but for an extra order's growth, and only MakeSwap
\* leads to a new swap action.
LEMMA PositionSteps ==
    ASSUME Typed, [Next]_vars
    PROVE  PositionStep
<1>1. CASE UNCHANGED vars
    BY <1>1, QuietCopies DEF vars, stores
<1>2. CASE MakerStep
    BY <1>2, ReadingCopies, UpdatingCopies, MakerCopies, WaitCopies, ExtraCopies,
       MakerDrafts, SwapCopies
    DEF MakerStep, Loaders, Writers, Swappers
<1>3. ASSUME NEW w \in Pollers, PollerStep(w) PROVE PositionStep
    BY <1>3, PollerCopies, SwapCopies, UpdatingCopies DEF PollerStep, Writers, Swappers
<1>4. ASSUME NEW r \in Readers, ReaderStep(r) PROVE PositionStep
    BY <1>4, ReadingCopies DEF ReaderStep, Loaders
<1>5. ASSUME NEW c \in Clerks, ClerkStep(c) PROVE PositionStep
    BY <1>5, EditCopies, UpdatingCopies DEF ClerkStep, Writers
<1>6. ASSUME NEW o \in OrderIds, Exchange(o) PROVE PositionStep
    BY <1>6, QuietCopies DEF Exchange
<1>7. QED
    BY <1>1, <1>2, <1>3, <1>4, <1>5, <1>6, CrashCopies DEF Next

\* The steps that change a position's row or what was bought for it.
LEMMA RowsChange ==
    ASSUME [Next]_vars
    PROVE  \/ UNCHANGED <<position, bought>>
           \/ SaveBuy \/ SaveBuyExtra
           \/ UNCHANGED bought /\ \E a \in Writers : Write(a)
BY DEF Next, vars, stores, Exchange, MakerStep, PollerStep, ReaderStep, ClerkStep, Crash,
       LoadCached, Select, SelectFails, Fill, DeleteCache, Write, WriteFails,
       Decide, SellQuantity, RefuseExtra, FindCached, FindOpened, Place, Refuse,
       CachePlaced, Try, WaitQuery, WaitOk, WaitError, WaitGivesUp, WaitAgain, EndWait,
       SaveSell, SaveDuplicate, SaveFails, UpdateCommission,
       CleanUp, Close, CloseFails, ExecuteSwap, MakeSwap, CreateSwap, CreateSwapFails,
       Boot, PollerReads, Edit, Writers

\* The steps that change the number of swap actions.
LEMMA SwapsChange ==
    ASSUME [Next]_vars
    PROVE  UNCHANGED swaps \/ ExecuteSwap \/ \E a \in Swappers : CreateSwap(a)
BY DEF Next, vars, stores, Exchange, MakerStep, PollerStep, ReaderStep, ClerkStep, Crash,
       LoadCached, Select, SelectFails, Fill, DeleteCache, Write, WriteFails,
       Decide, SellQuantity, RefuseExtra, FindCached, FindOpened, Place, Refuse,
       CachePlaced, Try, WaitQuery, WaitOk, WaitError, WaitGivesUp, WaitAgain, EndWait,
       SaveBuy, SaveBuyExtra, SaveSell, SaveDuplicate, SaveFails, UpdateCommission,
       CleanUp, Close, CloseFails, MakeSwap, CreateSwapFails,
       Boot, PollerReads, Edit, Swappers

-----------------------------------------------------------------------------
(***************************************************************************)
(* A position never has more than was bought for it.  A stale copy may say *)
(* less than the row, never more than what the BUY rows sum up to.         *)
(***************************************************************************)
Backed(c) == c # None => c.exec <= bought[c.id] /\ position[c.id].status # "none"

RowsBacked ==
    \A p \in PositionIds : /\ position[p].exec <= bought[p]
                           /\ position[p].status = "none" => bought[p] = 0

CopiesBacked ==
    /\ RowsBacked
    /\ Backed(openedCache)
    /\ \A a \in Agents : Backed(agent[a].copy) /\ Backed(agent[a].draft)

\* Whatever comes from a backed stock is backed.
LEMMA StockIsBacked ==
    ASSUME Typed, CopiesBacked, NEW c, FromStock(c)
    PROVE  Backed(c)
<1>1. CASE c = None
    BY <1>1 DEF Backed
<1>2. ASSUME NEW d \in Copies, Known(d), c.id = d.id, c.exec = d.exec PROVE Backed(c)
  <2>1. Backed(d) /\ d # None
      BY <1>2, CopyFields DEF CopiesBacked, Known
  <2>2. QED
      BY <1>2, <2>1 DEF Backed
<1>3. ASSUME NEW p \in OpenedPositions, c.id = p, c.exec = position[p].exec PROVE Backed(c)
    BY <1>3 DEF Backed, CopiesBacked, RowsBacked, OpenedPositions
<1>4. QED
    BY <1>1, <1>2, <1>3 DEF FromStock

\* The copies after a step, as long as what is bought only grows.
LEMMA CopiesStayBacked ==
    ASSUME Typed, CopiesBacked, Typed', CopiesFromStock, RowsBacked',
           \A p \in PositionIds : /\ bought[p] <= bought'[p]
                                  /\ position'[p].status = "none" => position[p].status = "none"
    PROVE  CopiesBacked'
<1>1. ASSUME NEW c \in Copies \cup {None}, Known(c)' PROVE Backed(c)'
  <2>1. CASE c = None
      BY <2>1 DEF Backed
  <2>2. CASE c # None
    <3>1. c.id \in PositionIds /\ c.exec \in Nat
        BY <2>2, CopyFields
    <3>2. c.exec <= bought[c.id] /\ position[c.id].status # "none"
        BY <1>1, <2>2, StockIsBacked DEF CopiesFromStock, Backed
    <3>3. bought[c.id] \in Nat /\ bought'[c.id] \in Nat
        BY <3>1, TypedParts, TypedPartsNext DEF PositionsTyped
    <3>4. c.exec <= bought'[c.id] /\ position'[c.id].status # "none"
        BY <3>1, <3>2, <3>3
    <3>5. QED
        BY <3>4 DEF Backed
  <2>3. QED
      BY <2>1, <2>2
<1>2. openedCache' \in Copies \cup {None} /\ \A c : c = openedCache' => Known(c)'
    BY TypedPartsNext DEF PositionsTyped, Known
<1>3. \A a \in Agents : /\ agent'[a].copy \in Copies \cup {None}
                        /\ agent'[a].draft \in Copies \cup {None}
  <2>1. \A a \in Agents : agent'[a] \in AgentStates
      BY TypedPartsNext DEF AgentsTyped
  <2>2. QED
      BY <2>1, StateFields
<1>4. Backed(openedCache)'
    BY <1>1, <1>2 DEF Backed
<1>5. ASSUME NEW a \in Agents PROVE Backed(agent[a].copy)' /\ Backed(agent[a].draft)'
  <2>1. \A c : c = agent'[a].copy \/ c = agent'[a].draft => Known(c)'
      BY DEF Known
  <2>2. QED
      BY <1>1, <1>3, <2>1 DEF Backed
<1>6. QED
    BY <1>4, <1>5 DEF CopiesBacked

\* Buying a position opens a row that nobody has a copy of.
LEMMA BackedBuy ==
    ASSUME Typed, CopiesBacked, Typed', CopiesFromStock, SaveBuy
    PROVE  CopiesBacked'
<1>1. job.seen.executed \in Nat /\ PositionsTyped
    BY TypedParts, BusyWithOrder, OrderFields DEF SaveBuy, Insert, Busy
<1>2. PICK p \in PositionIds :
        /\ position[p].status = "none"
        /\ position' = [position EXCEPT ![p] =
                [status |-> "opened", exec |-> job.seen.executed, swap |-> FALSE]]
        /\ bought' = [bought EXCEPT ![p] = job.seen.executed]
    BY DEF SaveBuy
<1>3. /\ position'[p].status = "opened" /\ position'[p].exec = job.seen.executed
      /\ bought'[p] = job.seen.executed
      /\ \A q \in PositionIds : q # p => position'[q] = position[q] /\ bought'[q] = bought[q]
    BY <1>1, <1>2 DEF PositionsTyped
<1>4. bought[p] = 0 /\ \A q \in PositionIds : bought[q] \in Nat
    BY <1>1, <1>2 DEF CopiesBacked, RowsBacked, PositionsTyped
<1>5. RowsBacked'
    BY <1>1, <1>3 DEF CopiesBacked, RowsBacked
<1>6. \A q \in PositionIds : /\ bought[q] <= bought'[q]
                             /\ position'[q].status = "none" => position[q].status = "none"
    BY <1>1, <1>3, <1>4
<1>7. QED
    BY <1>5, <1>6, CopiesStayBacked

\* The draft that is written is backed, and so is the row.
LEMMA BackedWrite ==
    ASSUME Typed, CopiesBacked, Typed', CopiesFromStock, UNCHANGED bought,
           NEW a \in Writers, Write(a)
    PROVE  CopiesBacked'
<1>1. PositionsTyped /\ a \in Agents /\ agent[a].draft \in Copies
    BY TypedParts, WriterIsAgent, StateFields
    DEF Write, AgentsTyped, AgentsHold, HoldsWhatItUses
<1> DEFINE d == agent[a].draft
<1>2. /\ d \in Copies /\ d.id \in PositionIds /\ d.status \in {"opened", "closed"}
      /\ d.exec <= bought[d.id] /\ position[d.id].status # "none"
    BY <1>1, CopyFields DEF CopiesBacked, Backed
<1>3. position' = [position EXCEPT ![d.id] = RowOf(d)]
    BY DEF Write
<1> HIDE DEF d
<1>4. /\ position'[d.id].status = d.status /\ position'[d.id].exec = d.exec
      /\ \A q \in PositionIds : q # d.id => position'[q] = position[q]
    BY <1>1, <1>2, <1>3 DEF PositionsTyped, RowOf
<1>5. RowsBacked'
    BY <1>2, <1>4 DEF CopiesBacked, RowsBacked
<1>6. \A q \in PositionIds : /\ bought[q] <= bought'[q]
                             /\ position'[q].status = "none" => position[q].status = "none"
    BY <1>1, <1>2, <1>4 DEF PositionsTyped
<1>7. QED
    BY <1>5, <1>6, CopiesStayBacked

\* The extra order's quantity is added to the copy and to what was bought alike.
LEMMA BackedExtra ==
    ASSUME Typed, CopiesBacked, Typed', SaveBuyExtra
    PROVE  CopiesBacked'
<1>1. /\ AgentsTyped /\ PositionsTyped /\ "maker" \in Agents /\ Maker.copy \in Copies
      /\ job.seen.executed \in Nat /\ Maker.copy # None
    BY TypedParts, MakerIsAgent, BusyWithOrder, OrderFields, CopyFields
    DEF SaveBuyExtra, Insert, Busy
<1> DEFINE c == Maker.copy
           e == job.seen.executed
<1>2. /\ Grown(c) \in Copies /\ Grown(c).id = c.id /\ Grown(c).exec = c.exec + e
      /\ c.id \in PositionIds /\ c.exec \in Nat /\ e \in Nat
    BY <1>1, GrownFields, CopyFields
<1>3. /\ agent'["maker"].copy = agent["maker"].copy
      /\ agent'["maker"].draft = Grown(c)
      /\ \A b \in Agents : b # "maker" => agent'[b] = agent[b]
    BY <1>1, <1>2, Began DEF SaveBuyExtra
<1>4. /\ bought' = [bought EXCEPT ![c.id] = @ + e]
      /\ position' = position /\ openedCache' = openedCache
    BY DEF SaveBuyExtra
<1>5. c.exec <= bought[c.id] /\ position[c.id].status # "none"
    BY <1>1 DEF CopiesBacked, Backed, Maker
<1> HIDE DEF c, e
<1>6. /\ bought'[c.id] = bought[c.id] + e
      /\ \A q \in PositionIds : /\ bought[q] \in Nat /\ bought'[q] \in Nat
                                /\ bought[q] <= bought'[q]
                                /\ q # c.id => bought'[q] = bought[q]
    BY <1>1, <1>2, <1>4 DEF PositionsTyped
<1>7. RowsBacked'
  <2>1. ASSUME NEW q \in PositionIds
        PROVE  /\ position'[q].exec <= bought'[q]
               /\ position'[q].status = "none" => bought'[q] = 0
    <3>1. position[q].exec \in Nat /\ position[q].exec <= bought[q]
        BY <1>1 DEF PositionsTyped, PositionRows, CopiesBacked, RowsBacked
    <3>2. position[q].status = "none" => q # c.id
        BY <1>5
    <3>3. QED
        BY <1>4, <1>6, <3>1, <3>2 DEF CopiesBacked, RowsBacked
  <2>2. QED
      BY <2>1 DEF RowsBacked
<1>8. ASSUME NEW x \in Copies \cup {None}, Backed(x) PROVE Backed(x)'
    BY <1>4, <1>6, <1>8, CopyFields DEF Backed
<1>9. Backed(openedCache)'
    BY <1>1, <1>4, <1>8 DEF CopiesBacked, PositionsTyped, Backed
<1>10. ASSUME NEW a \in Agents PROVE Backed(agent[a].copy)' /\ Backed(agent[a].draft)'
  <2>1. /\ agent[a].copy \in Copies \cup {None} /\ agent[a].draft \in Copies \cup {None}
        /\ Backed(agent[a].copy) /\ Backed(agent[a].draft)
      BY <1>1, StateFields DEF AgentsTyped, CopiesBacked
  <2>2. CASE a # "maker"
      BY <1>3, <1>8, <2>1, <2>2 DEF Backed
  <2>3. CASE a = "maker"
    <3>1. Backed(agent[a].copy)'
        BY <1>3, <1>8, <2>1, <2>3 DEF Backed
    <3>2. c.exec + e <= bought'[c.id] /\ position'[c.id].status # "none"
        BY <1>2, <1>4, <1>5, <1>6
    <3>3. agent'[a].draft = Grown(c)
        BY <1>3, <2>3
    <3>4. Backed(agent[a].draft)'
        BY <1>2, <3>2, <3>3 DEF Backed
    <3>5. QED
        BY <3>1, <3>4
  <2>4. QED
      BY <2>2, <2>3
<1>11. QED
    BY <1>7, <1>9, <1>10 DEF CopiesBacked

LEMMA BackedStep ==
    ASSUME Typed, CopiesBacked, [Next]_vars
    PROVE  CopiesBacked'
<1>1. Typed'
    BY TypedStep
<1>2. CASE SaveBuyExtra
    BY <1>1, <1>2, BackedExtra
<1>3. CASE CopiesFromStock /\ UNCHANGED <<position, bought>>
  <2>1. RowsBacked'
      BY <1>3 DEF CopiesBacked, RowsBacked
  <2>2. \A p \in PositionIds : bought[p] \in Nat
      BY TypedParts DEF PositionsTyped
  <2>3. QED
      BY <1>1, <1>3, <2>1, <2>2, CopiesStayBacked
<1>4. QED
    BY <1>1, <1>2, <1>3, PositionSteps, RowsChange, BackedBuy, BackedWrite DEF PositionStep

\* Whole-row updates from stale copies may lose what an extra order bought, but they
\* never invent it (NeverOvercounted), whoever edits the position and whatever fails.
THEOREM LedgerNeverOvercounted == Spec => []NeverOvercounted
<1>1. Init => CopiesBacked
    BY IdleState DEF Init, CopiesBacked, RowsBacked, Backed
<1>2. Typed /\ CopiesBacked /\ [Next]_vars => CopiesBacked'
    BY BackedStep
<1>3. CopiesBacked => NeverOvercounted
    BY DEF CopiesBacked, RowsBacked, NeverOvercounted
<1>4. QED
    BY <1>1, <1>2, <1>3, LedgerTyped, PTL DEF Spec

-----------------------------------------------------------------------------
(***************************************************************************)
(* Swap actions.                                                           *)
(***************************************************************************)

\* The goroutines that may start a swap are finitely many.
LEMMA SwappersCounted == IsFiniteSet(Swappers) /\ Cardinality(Swappers) \in Nat
<1>1. IsFiniteSet({"maker"}) /\ IsFiniteSet(Pollers)
    BY FS_Singleton, LedgerAssumption
<1>2. IsFiniteSet(Swappers)
    BY <1>1, FS_Union DEF Swappers
<1>3. QED
    BY <1>2, FS_CardinalityType

\* The pending ones are some of them, and are counted.
LEMMA PendingCounted ==
    ASSUME NEW p
    PROVE  /\ IsFiniteSet(PendingSwaps(p))
           /\ Cardinality(PendingSwaps(p)) \in Nat
           /\ Cardinality(PendingSwaps(p)) <= Cardinality(Swappers)
<1>1. PendingSwaps(p) \in SUBSET Swappers
    BY DEF PendingSwaps
<1>2. QED
    BY <1>1, SwappersCounted, FS_Subset, FS_CardinalityType

\* The same after a step.
LEMMA PendingCountedNext ==
    ASSUME NEW p
    PROVE  /\ IsFiniteSet(PendingSwaps(p)')
           /\ Cardinality(PendingSwaps(p)') \in Nat
           /\ Cardinality(PendingSwaps(p)') <= Cardinality(Swappers)
<1>1. PendingSwaps(p)' \in SUBSET Swappers
    BY DEF PendingSwaps
<1>2. QED
    BY <1>1, SwappersCounted, FS_Subset, FS_CardinalityType

\* No step but MakeSwap adds a pending swapper.
LEMMA PendingKept ==
    ASSUME NoNewSwapper, NEW p
    PROVE  /\ PendingSwaps(p)' \subseteq PendingSwaps(p)
           /\ Cardinality(PendingSwaps(p)') <= Cardinality(PendingSwaps(p))
<1>1. PendingSwaps(p)' \in SUBSET PendingSwaps(p)
    BY DEF PendingSwaps, NoNewSwapper
<1>2. Cardinality(PendingSwaps(p)) \in Nat
    BY PendingCounted
<1>3. QED
    BY <1>1, <1>2, PendingCounted, NoMore

LEMMA SwapsBoundedStep ==
    ASSUME Typed, SwapsBounded, [Next]_vars
    PROVE  SwapsBounded'
<1> SUFFICES ASSUME NEW p \in PositionIds
             PROVE  swaps'[p] + Cardinality(PendingSwaps(p)') <= Cardinality(Swappers)
    BY DEF SwapsBounded
<1>1. /\ swaps[p] \in Nat /\ swaps'[p] \in Nat
      /\ Cardinality(PendingSwaps(p)) \in Nat /\ Cardinality(PendingSwaps(p)') \in Nat
      /\ Cardinality(PendingSwaps(p)') <= Cardinality(Swappers)
      /\ Cardinality(Swappers) \in Nat
      /\ swaps[p] + Cardinality(PendingSwaps(p)) <= Cardinality(Swappers)
    BY TypedStep, TypedParts, TypedPartsNext, PendingCounted, PendingCountedNext,
       SwappersCounted
    DEF PositionsTyped, SwapsBounded
<1>2. ASSUME NEW a \in Swappers, MakeSwap(a)
      PROVE  swaps'[p] + Cardinality(PendingSwaps(p)') <= Cardinality(Swappers)
  <2>1. a \in Agents /\ AgentsTyped /\ agent[a].pc = "makeSwap" /\ swaps' = swaps
      BY <1>2, SwapperIsAgent, TypedParts DEF MakeSwap, stores
  <2>2. CASE Finish(a)
    <3>1. NoNewSwapper
        BY <2>1, <2>2, Finished, IdleState, SwapperIsAgent DEF NoNewSwapper
    <3>2. QED
        BY <1>1, <2>1, <3>1, PendingKept
  <2>3. CASE swaps[agent[a].copy.id] = 0 /\ Continue(a, "createSwap")
    <3>1. CASE agent[a].copy.id = p
        BY <1>1, <2>1, <2>3, <3>1
    <3>2. CASE agent[a].copy.id # p
      <4>1. /\ agent'[a].copy = agent[a].copy
            /\ \A b \in Agents : b # a => agent'[b] = agent[b]
          BY <2>1, <2>3, Continued, SwapperHasCopy, CopyFields DEF Pcs, HasCopy
      <4>2. PendingSwaps(p)' \in SUBSET PendingSwaps(p)
          BY <3>2, <4>1, SwapperIsAgent DEF PendingSwaps
      <4>3. Cardinality(PendingSwaps(p)') <= Cardinality(PendingSwaps(p))
          BY <1>1, <4>2, PendingCounted, NoMore
      <4>4. QED
          BY <1>1, <2>1, <4>3
    <3>3. QED
        BY <3>1, <3>2
  <2>4. QED
    <3>1. swaps[agent[a].copy.id] \in Nat
        BY <2>1, SwapperHasCopy, CopyFields, TypedParts DEF HasCopy, PositionsTyped
    <3>2. QED
        BY <1>2, <2>2, <2>3, <3>1 DEF MakeSwap, HasActive
<1>3. CASE NoNewSwapper /\ UNCHANGED swaps
    BY <1>1, <1>3, PendingKept
<1>4. CASE NoNewSwapper /\ ExecuteSwap
  <2>1. PositionsTyped /\ Maker.copy.id \in PositionIds
      BY <1>4, TypedParts, MakerIsAgent, SwapperHasCopy, CopyFields
      DEF ExecuteSwap, Maker, HasCopy
  <2>2. swaps'[p] <= swaps[p]
      BY <1>1, <1>4, <2>1 DEF ExecuteSwap, EndAction, PositionsTyped
  <2>3. QED
      BY <1>1, <1>4, <2>2, PendingKept
<1>5. ASSUME NoNewSwapper, NEW a \in Swappers, CreateSwap(a)
      PROVE  swaps'[p] + Cardinality(PendingSwaps(p)') <= Cardinality(Swappers)
  <2>1. /\ a \in Agents /\ AgentsTyped /\ PositionsTyped /\ agent[a].pc = "createSwap"
        /\ agent[a].copy \in Copies
      BY <1>5, SwapperIsAgent, SwapperHasCopy, TypedParts DEF CreateSwap, HasCopy
  <2>2. swaps' = [swaps EXCEPT ![agent[a].copy.id] = @ + 1]
      BY <1>5 DEF CreateSwap
  <2>3. agent[a].copy.id \in PositionIds
      BY <2>1, CopyFields
  <2>4. CASE agent[a].copy.id # p
    <3>1. swaps'[p] = swaps[p]
        BY <2>1, <2>2, <2>3, <2>4 DEF PositionsTyped
    <3>2. QED
        BY <1>1, <1>5, <3>1, PendingKept
  <2>5. CASE agent[a].copy.id = p
    <3>1. swaps'[p] = swaps[p] + 1
        BY <2>1, <2>2, <2>5 DEF PositionsTyped
    <3>2. a \in PendingSwaps(p)
        BY <2>1, <2>5 DEF PendingSwaps
    <3>3. agent'[a].pc # "createSwap"
      <4>1. [agent[a].copy EXCEPT !.swap = TRUE] \in Copies
          BY <2>1 DEF Copies
      <4>2. QED
          BY <1>5, <2>1, <4>1, Began DEF CreateSwap
    <3>4. PendingSwaps(p)' \in SUBSET (PendingSwaps(p) \ {a})
        BY <1>5, <3>3, PendingKept DEF PendingSwaps
    <3>5. /\ IsFiniteSet(PendingSwaps(p) \ {a})
          /\ Cardinality(PendingSwaps(p) \ {a}) = Cardinality(PendingSwaps(p)) - 1
        BY <3>2, PendingCounted, FS_RemoveElement
    <3>6. Cardinality(PendingSwaps(p) \ {a}) \in Nat
        BY <3>5, FS_CardinalityType
    <3>7. Cardinality(PendingSwaps(p)') <= Cardinality(PendingSwaps(p)) - 1
        BY <3>4, <3>5, <3>6, NoMore
    <3>8. QED
        BY <1>1, <3>1, <3>7
  <2>6. QED
      BY <2>4, <2>5
<1>6. QED
  <2>1. SaveBuyExtra => UNCHANGED swaps
      BY DEF SaveBuyExtra
  <2>2. QED
      BY <1>2, <1>3, <1>4, <1>5, <2>1, PositionSteps, SwapsChange DEF PositionStep

\* The maker and every poller it left behind may each start a swap of a position, but
\* the actions do not pile up: with those about to be created they are never more than
\* the goroutines that can be around at a time, whatever their number (MakeSwap).
THEOREM LedgerSwapsBounded == Spec => []SwapsBounded
<1>1. Init => SwapsBounded
  <2> SUFFICES ASSUME Init, NEW p \in PositionIds
               PROVE  swaps[p] + Cardinality(PendingSwaps(p)) <= Cardinality(Swappers)
      BY DEF SwapsBounded
  <2>1. swaps[p] = 0
      BY DEF Init
  <2>2. QED
      BY <2>1, PendingCounted, SwappersCounted
<1>2. Typed /\ SwapsBounded /\ [Next]_vars => SwapsBounded'
    BY SwapsBoundedStep
<1>3. QED
    BY <1>1, <1>2, LedgerTyped, PTL DEF Spec

-----------------------------------------------------------------------------
(***************************************************************************)
(* The maker alone: swaps are switched off, nobody edits the position and  *)
(* nobody else reads it through its cache.  Crashes and failing requests   *)
(* remain.                                                                 *)
(***************************************************************************)
Undisturbed == ~SwapEnabled /\ Clerks = {} /\ Readers = {}

\* No swap is prepared or executed.
NoSwaps ==
    /\ \A w \in Pollers : agent[w].pc = "idle"
    /\ Maker.pc \notin {"swapping", "armed", "makeSwap", "createSwap"}

Calm == crashes = 0 /\ faults = 0

Writing == Maker.pc \in {"delete", "write"}

PollersRest == \A w \in Pollers : agent'[w] = agent[w]
PollersIdle == \A w \in Pollers : agent'[w].pc = "idle"

(***************************************************************************)
(* What a step of the maker alone does to the position, its cache and the  *)
(* maker's copies.                                                         *)
(***************************************************************************)
SamePositions == UNCHANGED <<position, bought, sold>>
KeepsCopies == /\ Maker'.copy = Maker.copy
               /\ Maker'.draft = Maker.draft
               /\ Maker'.then = Maker.then

\* The orders move, the maker stays where it is.
Stays == SamePositions /\ UNCHANGED openedCache /\ Maker' = Maker /\ job'.op = job.op

\* The operation ends.  A position that was to be written stays as it is only when
\* a request failed or the process died.
Ends ==
    /\ SamePositions /\ UNCHANGED openedCache
    /\ Maker'.pc \in {"idle", "boot"} /\ Maker'.copy = None
    /\ job' = NoJob
    /\ Maker.pc = "close" \/ Writing => ~Calm'

\* The maker goes on with its order.
GoesOn ==
    /\ SamePositions /\ UNCHANGED openedCache /\ KeepsCopies
    /\ \/ /\ Maker.pc = "idle" /\ Maker'.pc = "select"
          /\ job' = job
       \/ /\ Maker.pc = "decide" /\ Maker'.pc \in {"quantity", "find"}
          /\ job'.op \in Operations(Maker.copy)
       \/ /\ Maker.pc \in {"quantity", "find", "placed", "try", "wait"}
          /\ Maker'.pc \in {"find", "placed", "try", "wait", "save"}
          /\ job'.op = job.op
       \/ /\ Maker.pc = "write" /\ Maker.then = "find" /\ Maker'.pc = "find"
          /\ job' = job
          /\ ~Calm'

\* The maker knows its position, or finds that there is none.
Knows ==
    /\ SamePositions /\ UNCHANGED <<openedCache, job>>
    /\ Maker.pc \in {"idle", "select"} /\ Maker'.pc = "decide"
    /\ \/ openedCache # None /\ Maker'.copy = openedCache
       \/ Maker'.copy = None /\ (OpenedPositions = {} \/ faults' # 0)

Selects ==
    /\ SamePositions /\ UNCHANGED <<openedCache, job>>
    /\ Maker.pc = "select" /\ Maker'.pc = "fill"
    /\ \E p \in OpenedPositions : Maker'.copy = CopyOf(p)

Fills ==
    /\ SamePositions /\ UNCHANGED job
    /\ Maker.pc = "fill" /\ Maker'.pc = "decide"
    /\ openedCache' = Maker.copy /\ Maker'.copy = Maker.copy

\* The position is to be written again as it was read.
Rewrites ==
    /\ SamePositions /\ UNCHANGED <<openedCache, job>>
    /\ Maker.pc = "quantity"
    /\ Maker'.pc = "delete" /\ Maker'.then = "find"
    /\ Maker.copy \in Copies /\ Maker'.copy = Maker.copy /\ Maker'.draft = Maker.copy

\* ... or closed, or left opened when it is not sold out.
Closes ==
    /\ SamePositions /\ UNCHANGED <<openedCache, job>>
    /\ Maker.pc = "close"
    /\ Maker'.pc = "delete" /\ Maker'.then = "idle"
    /\ Maker.copy \in Copies /\ Maker'.copy = Maker.copy
    /\ Maker'.draft.id = Maker.copy.id /\ Maker'.draft.exec = Maker.copy.exec
    /\ \/ Maker'.draft.status = "closed"
       \/ /\ Maker'.draft.status = Maker.copy.status
          /\ ~IsSoldOut(Maker.copy.exec, sold[Maker.copy.id])

\* Its cache entry is dropped first.
Drops ==
    /\ SamePositions /\ UNCHANGED job
    /\ openedCache' = None
    /\ Maker.pc = "delete" /\ Maker'.pc = "write" /\ KeepsCopies

Writes ==
    /\ UNCHANGED <<bought, sold, openedCache>>
    /\ Maker.pc = "write" /\ Maker.draft \in Copies
    /\ position' = [position EXCEPT ![Maker.draft.id] = RowOf(Maker.draft)]
    /\ \/ /\ Maker.then = "idle"
          /\ Maker'.pc = "idle" /\ Maker'.copy = None /\ job' = NoJob
       \/ /\ Maker.then \in {"find", "cleanup"}
          /\ Maker'.pc = Maker.then /\ KeepsCopies /\ job' = job

\* A position is bought, ...
Buys ==
    /\ UNCHANGED <<sold, openedCache, job>>
    /\ Maker.pc = "save" /\ job.op = "Buy" /\ Maker'.pc = "commission" /\ KeepsCopies
    /\ \E p \in PositionIds :
        /\ position[p].status = "none"
        /\ position' = [position EXCEPT ![p] =
                [status |-> "opened", exec |-> job.seen.executed, swap |-> FALSE]]
        /\ bought' = [bought EXCEPT ![p] = job.seen.executed]

\* ... its cache is dropped when the commission is known, ...
Commissions ==
    /\ SamePositions /\ UNCHANGED job
    /\ Maker.pc = "commission" /\ Maker'.pc = "cleanup" /\ KeepsCopies
    /\ openedCache' \in {None, openedCache}

\* ... it grows, ...
Grows ==
    /\ UNCHANGED <<position, sold, openedCache, job>>
    /\ Maker.pc = "save" /\ job.op = "BuyExtra"
    /\ Maker'.pc = "delete" /\ Maker'.then = "cleanup"
    /\ Maker.copy \in Copies /\ Maker'.copy = Maker.copy /\ Maker'.draft = Grown(Maker.copy)
    /\ bought' = [bought EXCEPT ![Maker.copy.id] = @ + job.seen.executed]

\* ... or is sold in part or all.
Sells ==
    /\ UNCHANGED <<position, bought, openedCache, job>>
    /\ Maker.pc = "save" /\ job.op = "Sell" /\ Maker'.pc = "close" /\ KeepsCopies
    /\ Maker.copy \in Copies
    /\ sold' = [sold EXCEPT ![Maker.copy.id] = @ + job.seen.executed]
    /\ rows[job.id] = 0

AloneStep ==
    \/ Stays \/ Ends \/ GoesOn \/ Knows \/ Selects \/ Fills \/ Rewrites \/ Closes
    \/ Drops \/ Writes \/ Buys \/ Commissions \/ Grows \/ Sells

\* A failing request is counted.
LEMMA FailedIsNotCalm ==
    ASSUME Typed, RequestFails
    PROVE  faults' # 0 /\ ~Calm'
BY FaultCounted, TypedParts, LedgerAssumption DEF CountsTyped, Calm

\* A position is known by its cache or its row, or there is none.
LEMMA AloneReads ==
    ASSUME Typed,
           \/ LoadCached("maker") \/ Select("maker")
           \/ SelectFails("maker") \/ Fill("maker")
    PROVE  AloneStep /\ PollersRest
<1>1. /\ AgentsTyped /\ "maker" \in Agents /\ PositionsTyped
      /\ \A w \in Pollers : w \in Agents /\ w # "maker"
      /\ Maker = agent["maker"] /\ agent["maker"] \in AgentStates
      /\ openedCache \in Copies \cup {None}
    BY TypedParts, MakerIsAgent DEF AgentsTyped, PositionsTyped, Maker
<1>2. ASSUME NEW copy \in Copies \cup {None}, Loaded("maker", copy)
      PROVE  /\ Maker'.pc = "decide" /\ Maker'.copy = copy
             /\ PollersRest
    BY <1>1, <1>2, LoadedCopy DEF Maker, PollersRest
<1>3. ASSUME Continue("maker", "select")
      PROVE  Maker'.pc = "select" /\ KeepsCopies /\ PollersRest
    BY <1>1, <1>3, Continued DEF Maker, Pcs, HasCopy, KeepsCopies, PollersRest
<1>5. CASE LoadCached("maker")
  <2>1. SamePositions /\ UNCHANGED <<openedCache, job>> /\ Maker.pc = "idle"
      BY <1>5 DEF LoadCached, stores, SamePositions, Maker
  <2>2. CASE openedCache # None /\ Loaded("maker", openedCache)
      BY <1>1, <1>2, <2>1, <2>2 DEF AloneStep, Knows
  <2>3. CASE Continue("maker", "select")
      BY <1>3, <2>1, <2>3 DEF AloneStep, GoesOn
  <2>4. QED
      BY <1>5, <2>2, <2>3 DEF LoadCached
<1>6. CASE Select("maker")
  <2>1. SamePositions /\ UNCHANGED <<openedCache, job>> /\ Maker.pc = "select"
      BY <1>1, <1>6 DEF Select, stores, SamePositions
  <2>2. CASE OpenedPositions = {} /\ Loaded("maker", None)
      BY <1>2, <2>1, <2>2 DEF AloneStep, Knows
  <2>3. ASSUME NEW p \in OpenedPositions,
               agent' = [agent EXCEPT !["maker"].pc = "fill", !["maker"].copy = CopyOf(p)]
        PROVE  AloneStep /\ PollersRest
    <3>1. /\ agent'["maker"].pc = "fill" /\ agent'["maker"].copy = CopyOf(p)
          /\ PollersRest
        BY <1>1, <2>3 DEF AgentsTyped, AgentStates, PollersRest
    <3>2. QED
        BY <2>1, <3>1 DEF AloneStep, Selects, Maker
  <2>4. QED
      BY <1>6, <2>2, <2>3 DEF Select
<1>7. CASE SelectFails("maker")
    BY <1>1, <1>2, <1>7, FailedIsNotCalm
    DEF SelectFails, stores, AloneStep, Knows, SamePositions
<1>8. CASE Fill("maker")
  <2>1. agent["maker"].copy \in Copies \cup {None}
      BY <1>1, StateFields
  <2>2. QED
      BY <1>1, <1>2, <1>8, <2>1 DEF Fill, AloneStep, Fills, SamePositions
<1>9. QED
    BY <1>5, <1>6, <1>7, <1>8

\* How the maker moves when it is alone.
LEMMA AloneContinues ==
    ASSUME Typed, NEW pc \in Pcs \ HasCopy, pc # "delete",
           pc = "write" => Maker.draft # None, Continue("maker", pc)
    PROVE  Maker'.pc = pc /\ KeepsCopies /\ PollersRest
BY Continued, TypedParts, MakerIsAgent DEF Maker, KeepsCopies, PollersRest

LEMMA AloneFinishes ==
    ASSUME Typed, Finish("maker")
    PROVE  /\ Maker'.pc = "idle" /\ Maker'.copy = None
           /\ PollersRest
BY Finished, IdleState, TypedParts, MakerIsAgent DEF Maker, PollersRest

\* Without swaps an error makes the maker idle.
LEMMA AloneFails ==
    ASSUME Typed, Undisturbed, Fail
    PROVE  /\ Maker'.pc = "idle" /\ Maker'.copy = None /\ job' = NoJob
           /\ PollersRest
BY AloneFinishes DEF Fail, Undisturbed

\* What the maker decides: to buy only without a position, to sell or to buy more
\* only with one.
LEMMA AloneDecides ==
    ASSUME Typed, Undisturbed, Decide
    PROVE  AloneStep /\ PollersRest
<1>1. /\ Maker.pc = "decide" /\ SamePositions /\ UNCHANGED openedCache
      /\ ~InSwap(Maker.copy)
    BY DEF Decide, stores, SamePositions, InSwap, Undisturbed
<1>2. job = NoJob
    BY <1>1, TypedParts DEF JobFits, Free
<1>3. CASE Finish("maker") /\ UNCHANGED job
    BY <1>1, <1>2, <1>3, AloneFinishes DEF AloneStep, Ends, Writing
<1>4. ASSUME NEW op \in Operations(Maker.copy), job' = [NoJob EXCEPT !.op = op],
             Continue("maker", IF job'.op = "Sell" THEN "quantity" ELSE "find")
      PROVE  AloneStep /\ PollersRest
  <2>1. job'.op = op
      BY <1>4 DEF NoJob
  <2>2. op = "Sell" => Maker.copy # None
      BY <1>4, OperationsOf
  <2>3. PICK pc \in {"quantity", "find"} :
            pc = (IF job'.op = "Sell" THEN "quantity" ELSE "find")
      OBVIOUS
  <2>4. /\ Maker'.pc = pc /\ KeepsCopies
        /\ PollersRest
      BY <1>4, <2>1, <2>2, <2>3, Continued, TypedParts, MakerIsAgent
      DEF Maker, KeepsCopies, Pcs, HasCopy, PollersRest
  <2>5. QED
      BY <1>1, <1>4, <2>1, <2>4 DEF AloneStep, GoesOn
<1>5. QED
    BY <1>1, <1>3, <1>4 DEF Decide

\* What is sold is looked at first.
LEMMA AloneQuantity ==
    ASSUME Typed, SellQuantity
    PROVE  AloneStep /\ PollersRest
<1>1. /\ Maker.pc = "quantity" /\ SamePositions /\ UNCHANGED <<openedCache, job>>
    BY DEF SellQuantity, stores, SamePositions
<1>2. /\ Maker.copy \in Copies /\ "maker" \in Agents /\ AgentsTyped
      /\ \A w \in Pollers : w \in Agents /\ w # "maker"
    BY <1>1, SwapperHasCopy, MakerIsAgent, TypedParts DEF Maker, HasCopy
<1>3. CASE Continue("maker", "find")
    BY <1>1, <1>3, AloneContinues DEF Pcs, HasCopy, AloneStep, GoesOn
<1>4. CASE BeginUpdate("maker", Maker.copy, "find")
    BY <1>1, <1>2, <1>4, Began DEF Maker, AloneStep, Rewrites, PollersRest
<1>5. QED
    BY <1>3, <1>4 DEF SellQuantity

\* The order is found or placed, and tried; the position stays as it is.
LEMMA AloneOrders ==
    ASSUME Typed, Undisturbed,
           FindCached \/ FindOpened \/ Place \/ CachePlaced \/ Try \/ WaitQuery
    PROVE  AloneStep /\ PollersRest
<1>1. SamePositions /\ UNCHANGED openedCache
    BY DEF FindCached, FindOpened, Place, CachePlaced, Try, WaitQuery, stores, SamePositions
<1>2. job \in Jobs
    BY TypedParts DEF OrdersTyped
<1>3. CASE WaitQuery
  <2>1. job'.op = job.op
      BY <1>2, <1>3 DEF WaitQuery, Jobs
  <2>2. QED
      BY <1>1, <1>3, <2>1 DEF WaitQuery, AloneStep, Stays, Maker, PollersRest
<1>4. ASSUME NEW pc \in {"try", "placed", "wait", "save"}, Continue("maker", pc),
             Maker.pc \in {"find", "placed", "try"}, job'.op = job.op
      PROVE  AloneStep /\ PollersRest
  <2>1. Maker'.pc = pc /\ KeepsCopies /\ PollersRest
      BY <1>4, AloneContinues DEF Pcs, HasCopy
  <2>2. QED
      BY <1>1, <1>4, <2>1 DEF AloneStep, GoesOn
<1>5. CASE FindCached \/ FindOpened
  <2>1. job'.op = job.op
      BY <1>2, <1>5 DEF FindCached, FindOpened, Jobs
  <2>2. QED
      BY <1>4, <1>5, <2>1 DEF FindCached, FindOpened
<1>6. CASE Place
  <2>1. job'.op = job.op
      BY <1>6, Placed
  <2>2. QED
      BY <1>4, <1>6, <2>1 DEF Place
<1>7. CASE CachePlaced
    BY <1>4, <1>7 DEF CachePlaced
<1>8. CASE Try
  <2>1. CASE Fail
      BY <1>1, <1>8, <2>1, AloneFails DEF Try, AloneStep, Ends, Writing
  <2>2. QED
      BY <1>4, <1>8, <2>1 DEF Try
<1>9. QED
    BY <1>3, <1>5, <1>6, <1>7, <1>8

\* The wait ends; nobody but the maker hears of it.
LEMMA AloneWaits ==
    ASSUME Typed, Undisturbed, NoSwaps, WaitOk \/ WaitError \/ WaitGivesUp
    PROVE  AloneStep /\ PollersRest
<1>1. /\ SamePositions /\ UNCHANGED openedCache /\ Maker.pc = "wait"
      /\ AgentsTyped /\ Maker \in AgentStates /\ job \in Jobs
    BY TypedParts, MakerIsAgent
    DEF WaitOk, WaitError, WaitGivesUp, EndWait, SamePositions, AgentsTyped, Maker,
        OrdersTyped
<1>2. \A w \in Pollers : w \in Agents /\ w # "maker" /\ PollerEnds(w) = {agent[w]}
    BY MakerIsAgent DEF NoSwaps, PollerEnds
<1>3. CASE WaitOk
  <2> DEFINE s == [Maker EXCEPT !.pc = "save"]
  <2>1. /\ s \in AgentStates /\ s.pc = "save" /\ s.copy = Maker.copy
        /\ s.draft = Maker.draft /\ s.then = Maker.then
      BY <1>1 DEF AgentStates
  <2>2. EndWait({s})
      BY <1>3 DEF WaitOk
  <2> HIDE DEF s
  <2>3. HoldsWhatItUses(s)
      BY <2>1 DEF HoldsWhatItUses, HasCopy
  <2>4. Maker' = s /\ PollersRest
      BY <1>1, <1>2, <2>1, <2>2, <2>3, EndWaitMoves DEF PollersRest
  <2>5. job'.op = job.op
      BY <1>1, <1>3 DEF WaitOk, Jobs
  <2>6. QED
      BY <1>1, <2>1, <2>4, <2>5 DEF AloneStep, GoesOn, KeepsCopies
<1>4. CASE WaitError \/ WaitGivesUp
  <2>1. Failed = {IdleAgent}
      BY DEF Failed, Undisturbed
  <2>2. EndWait({IdleAgent}) /\ job' = NoJob
      BY <1>4, <2>1 DEF WaitError, WaitGivesUp
  <2>3. Maker' = IdleAgent /\ PollersRest
      BY <1>1, <1>2, <2>2, IdleState, EndWaitMoves DEF PollersRest
  <2>4. QED
      BY <1>1, <2>2, <2>3, IdleState DEF AloneStep, Ends, Writing
<1>5. QED
    BY <1>3, <1>4

\* The order is saved.
LEMMA AloneSaves ==
    ASSUME Typed, Undisturbed,
           SaveBuy \/ SaveBuyExtra \/ SaveSell \/ SaveDuplicate \/ SaveFails
    PROVE  AloneStep /\ PollersRest
<1>1. /\ Maker.pc = "save" /\ AgentsTyped /\ "maker" \in Agents
      /\ \A w \in Pollers : w \in Agents /\ w # "maker"
      /\ job.seen \in ExchangeOrders
      /\ job.op \in {"BuyExtra", "Sell"} => Maker.copy \in Copies
    BY TypedParts, MakerIsAgent, BusyWithOrder
    DEF SaveBuy, SaveBuyExtra, SaveSell, SaveDuplicate, SaveFails, Insert, Busy
<1>2. CASE SaveBuy
  <2>1. Maker'.pc = "commission" /\ KeepsCopies /\ PollersRest
      BY <1>2, AloneContinues DEF SaveBuy, Pcs, HasCopy
  <2>2. QED
      BY <1>1, <1>2, <2>1 DEF SaveBuy, AloneStep, Buys
<1>3. CASE SaveBuyExtra
  <2>1. Maker.copy \in Copies /\ job.seen.executed \in Nat
      BY <1>1, <1>3, OrderFields DEF SaveBuyExtra
  <2>2. BeginUpdate("maker", Grown(Maker.copy), "cleanup")
      BY <1>3 DEF SaveBuyExtra
  <2>3. /\ Maker'.pc = "delete" /\ Maker'.then = "cleanup"
        /\ Maker'.copy = Maker.copy /\ Maker'.draft = Grown(Maker.copy)
        /\ PollersRest
      BY <1>1, <2>1, <2>2, GrownFields, Began DEF Maker, PollersRest
  <2>4. QED
      BY <1>1, <1>3, <2>1, <2>3 DEF SaveBuyExtra, AloneStep, Grows
<1>4. CASE SaveSell
  <2>1. Maker.copy \in Copies /\ Maker.copy # None
      BY <1>1, <1>4, CopyFields DEF SaveSell
  <2>2. Maker'.pc = "close" /\ KeepsCopies /\ PollersRest
      BY <1>1, <1>4, <2>1, Continued
      DEF SaveSell, Pcs, HasCopy, KeepsCopies, Maker, PollersRest
  <2>3. QED
      BY <1>1, <1>4, <2>1, <2>2 DEF SaveSell, Insert, AloneStep, Sells
<1>5. CASE SaveDuplicate \/ SaveFails
    BY <1>1, <1>5, AloneFails
    DEF SaveDuplicate, SaveFails, stores, AloneStep, Ends, Writing, SamePositions
<1>6. QED
    BY <1>2, <1>3, <1>4, <1>5

\* The position is closed or written again.
LEMMA AloneUpdates ==
    ASSUME Typed, Undisturbed,
           \/ Close \/ CloseFails \/ DeleteCache("maker")
           \/ Write("maker") \/ WriteFails("maker")
    PROVE  AloneStep /\ PollersRest
<1>1. /\ AgentsTyped /\ "maker" \in Agents
      /\ \A w \in Pollers : w \in Agents /\ w # "maker"
      /\ Maker = agent["maker"] /\ Maker \in AgentStates
    BY TypedParts, MakerIsAgent DEF AgentsTyped, Maker
<1>2. CASE Close
  <2> DEFINE draft == IF IsSoldOut(Maker.copy.exec, sold[Maker.copy.id])
                      THEN [Maker.copy EXCEPT !.status = "closed"] ELSE Maker.copy
  <2>1. Maker.pc = "close" /\ Maker.copy \in Copies
      BY <1>1, <1>2, SwapperHasCopy DEF Close, HasCopy
  <2>2. /\ draft \in Copies /\ draft.id = Maker.copy.id
        /\ draft.exec = Maker.copy.exec
        /\ \/ draft.status = "closed"
           \/ /\ draft.status = Maker.copy.status
              /\ ~IsSoldOut(Maker.copy.exec, sold[Maker.copy.id])
      BY <2>1 DEF Copies
  <2>3. BeginUpdate("maker", draft, "idle")
      BY <1>2 DEF Close
  <2> HIDE DEF draft
  <2>4. /\ Maker'.pc = "delete" /\ Maker'.then = "idle"
        /\ Maker'.copy = Maker.copy /\ Maker'.draft = draft
        /\ PollersRest
      BY <1>1, <2>2, <2>3, Began DEF Maker, PollersRest
  <2>5. SamePositions /\ UNCHANGED <<openedCache, job>>
      BY <1>2 DEF Close, stores, SamePositions
  <2>6. QED
      BY <2>1, <2>2, <2>4, <2>5 DEF AloneStep, Closes
<1>3. CASE CloseFails
    BY <1>3, AloneFails, FailedIsNotCalm
    DEF CloseFails, stores, AloneStep, Ends, SamePositions
<1>4. ASSUME agent["maker"].pc \in {"delete", "write"}
      PROVE  agent["maker"].draft \in Copies /\ agent["maker"].draft # None
    BY <1>1, <1>4, StateFields, CopyFields DEF AgentsTyped, AgentsHold, HoldsWhatItUses
<1>5. CASE DeleteCache("maker")
  <2>1. Maker'.pc = "write" /\ KeepsCopies /\ PollersRest
      BY <1>1, <1>4, <1>5, AloneContinues DEF DeleteCache, Pcs, HasCopy
  <2>2. QED
      BY <1>1, <1>5, <2>1
      DEF DeleteCache, DeleteOpenedOrderCache, AloneStep, Drops, SamePositions
<1>6. CASE Write("maker")
  <2>1. Maker.draft \in Copies /\ Maker.pc = "write"
      BY <1>1, <1>4, <1>6 DEF Write
  <2>2. CASE Maker.then = "idle"
    <3>1. Finish("maker") /\ job' = NoJob
        BY <1>1, <1>6, <2>2 DEF Write
    <3>2. QED
        BY <1>1, <1>6, <2>1, <2>2, <3>1, AloneFinishes DEF Write, AloneStep, Writes
  <2>3. CASE Maker.then # "idle"
    <3>1. /\ Maker.then \in {"find", "cleanup"}
          /\ Continue("maker", Maker.then) /\ UNCHANGED job
        BY <1>1, <1>6, <2>3, StateFields DEF Write
    <3>2. Maker'.pc = Maker.then /\ KeepsCopies /\ PollersRest
        BY <3>1, AloneContinues DEF Pcs, HasCopy
    <3>3. QED
        BY <1>1, <1>6, <2>1, <3>1, <3>2 DEF Write, AloneStep, Writes
  <2>4. QED
      BY <2>2, <2>3
<1>7. CASE WriteFails("maker")
  <2>1. /\ SamePositions /\ UNCHANGED openedCache /\ ~Calm' /\ Maker.pc = "write"
      BY <1>1, <1>7, FailedIsNotCalm DEF WriteFails, stores, SamePositions
  <2>2. CASE Maker.then = "find"
    <3>1. Continue("maker", "find") /\ job' = job
        BY <1>1, <1>7, <2>2 DEF WriteFails
    <3>2. Maker'.pc = "find" /\ KeepsCopies /\ PollersRest
        BY <3>1, AloneContinues DEF Pcs, HasCopy
    <3>3. QED
        BY <2>1, <2>2, <3>1, <3>2 DEF AloneStep, GoesOn
  <2>3. CASE Maker.then # "find"
      BY <1>1, <1>7, <2>1, <2>3, AloneFails DEF WriteFails, AloneStep, Ends
  <2>4. QED
      BY <2>2, <2>3
<1>8. QED
    BY <1>2, <1>3, <1>5, <1>6, <1>7

\* Every step of the maker alone is one of these, and none prepares a swap.
LEMMA AloneSteps ==
    ASSUME Typed, Undisturbed, NoSwaps, [Next]_vars
    PROVE  AloneStep /\ PollersIdle
<1> USE DEF NoSwaps, PollersRest, PollersIdle
<1>1. AgentsTyped /\ "maker" \in Agents /\ \A w \in Pollers : w \in Agents /\ w # "maker"
    BY TypedParts, MakerIsAgent
<1>2. CASE UNCHANGED vars
    BY <1>2 DEF vars, stores, AloneStep, Stays, SamePositions, Maker
<1>3. CASE MakerStep
  <2>1. CASE RefuseExtra \/ Refuse
      BY <2>1, AloneFails
      DEF RefuseExtra, Refuse, stores, AloneStep, Ends, Writing, SamePositions
  <2>2. CASE UpdateCommission
    <3>1. Maker'.pc = "cleanup" /\ KeepsCopies /\ PollersRest
        BY <2>2, AloneContinues DEF UpdateCommission, Pcs, HasCopy
    <3>2. QED
        BY <2>2, <3>1
        DEF UpdateCommission, AloneStep, Commissions, SamePositions
  <2>3. CASE CleanUp
      BY <2>3, AloneFinishes
      DEF CleanUp, AloneStep, Ends, Writing, SamePositions
  <2>4. CASE Boot
    <3>1. Maker.pc = "boot" /\ UNCHANGED job /\ SamePositions /\ UNCHANGED openedCache
        BY <2>4 DEF Boot, SamePositions
    <3>2. job = NoJob
        BY <3>1, TypedParts DEF JobFits, Free
    <3>3. QED
        BY <2>4, <3>1, <3>2, AloneFinishes DEF Boot, AloneStep, Ends, Writing
  <2>5. ~WaitAgain /\ ~ExecuteSwap /\ ~MakeSwap("maker") /\ ~CreateSwap("maker")
        /\ ~CreateSwapFails("maker")
      BY DEF WaitAgain, ExecuteSwap, MakeSwap, CreateSwap, CreateSwapFails, Maker, Armed
  <2>6. QED
      BY <1>3, <2>1, <2>2, <2>3, <2>4, <2>5, AloneReads, AloneDecides, AloneQuantity,
         AloneOrders, AloneWaits, AloneSaves, AloneUpdates
      DEF MakerStep
<1>4. ~\E w \in Pollers : PollerStep(w)
    BY DEF PollerStep, Armed, PollerReads, MakeSwap, CreateSwap, CreateSwapFails, DeleteCache,
       Write, WriteFails, Undisturbed
<1>5. ASSUME NEW o \in OrderIds, Exchange(o)
      PROVE  AloneStep /\ PollersIdle
    BY <1>5 DEF Exchange, AloneStep, Stays, SamePositions, Maker
<1>6. CASE Crash
  <2>1. ~Calm'
      BY <1>6, LedgerAssumption, TypedParts DEF Crash, CountsTyped, Calm
  <2>2. QED
      BY <1>1, <1>6, <2>1, Crashed, IdleState, LedgerAssumption
      DEF Crash, stores, AloneStep, Ends, SamePositions
<1>7. QED
    BY <1>2, <1>3, <1>4, <1>5, <1>6 DEF Next, Undisturbed

-----------------------------------------------------------------------------
(***************************************************************************)
(* A closed position stays closed.  All that the maker alone has copied of *)
(* a position, and the row it is about to write, belongs to an opened one; *)
(* a draft that closes it is the last that is written of it, because then  *)
(* the cache is empty and the copy is given up.                            *)
(***************************************************************************)
IsOpened(c) ==
    c # None => c.status = "opened" /\ position[c.id].status = "opened"

DraftReplaces ==
    Writing =>
        /\ position[Maker.draft.id].status = "opened"
        /\ Maker.then # "idle" => Maker.draft.status = "opened"
        /\ Maker.pc = "write" => openedCache = None

KeepsOpened ==
    NoSwaps /\ IsOpened(openedCache) /\ IsOpened(Maker.copy) /\ DraftReplaces

\* A closed position is not written, and an opened one is closed at most.
ClosedRest ==
    \A p \in PositionIds :
        /\ position[p].status = "closed" => position'[p] = position[p]
        /\ position'[p].status = "opened" => position[p].status \in {"opened", "none"}

\* The maker leaves its place, but not for a swap.
LEMMA AloneStaysOut ==
    ASSUME Typed, Undisturbed, NoSwaps, [Next]_vars
    PROVE  NoSwaps'
<1>1. AloneStep /\ PollersIdle
    BY AloneSteps
<1>2. Maker'.pc \notin {"swapping", "armed", "makeSwap", "createSwap"}
    BY <1>1 DEF NoSwaps, AloneStep, Stays, Ends, GoesOn, Knows, Selects, Fills, Rewrites,
       Closes, Drops, Writes, Buys, Commissions, Grows, Sells
<1>3. QED
    BY <1>1, <1>2 DEF NoSwaps, PollersIdle

\* While the rows rest, what is opened stays opened.
LEMMA OpenedRests ==
    ASSUME NEW c, IsOpened(c), UNCHANGED position
    PROVE  c # None => c.status = "opened" /\ position'[c.id].status = "opened"
BY DEF IsOpened

LEMMA KeepsOpenedStep ==
    ASSUME Typed, Undisturbed, KeepsOpened, [Next]_vars
    PROVE  KeepsOpened' /\ ClosedRest
<1>1. AloneStep /\ NoSwaps'
    BY AloneSteps, AloneStaysOut DEF KeepsOpened
<1>2. /\ NoSwaps /\ IsOpened(openedCache) /\ IsOpened(Maker.copy) /\ DraftReplaces
      /\ PositionsTyped /\ AgentsTyped
    BY TypedParts DEF KeepsOpened
<1>3. /\ openedCache \in Copies \cup {None}
      /\ Maker.copy \in Copies \cup {None} /\ Maker.draft \in Copies \cup {None}
      /\ position \in [PositionIds -> PositionRows]
    BY <1>2, StateFields, MakerIsAgent DEF PositionsTyped, AgentsTyped, Maker
<1>4. UNCHANGED position => ClosedRest
  <2>1. \A p \in PositionIds : position[p].status \in {"none", "opened", "closed"}
      BY <1>3 DEF PositionRows
  <2>2. QED
      BY <2>1 DEF ClosedRest
<1>5. ASSUME Stays \/ Ends \/ GoesOn \/ Knows
      PROVE  KeepsOpened' /\ ClosedRest
  <2>1. SamePositions /\ UNCHANGED openedCache
      BY <1>5 DEF Stays, Ends, GoesOn, Knows
  <2>2. Maker'.copy \in {Maker.copy, openedCache, None}
      BY <1>5 DEF Stays, Ends, GoesOn, Knows, KeepsCopies
  <2>3. DraftReplaces'
    <3>1. Maker' = Maker \/ Maker'.pc \notin {"delete", "write"}
        BY <1>5 DEF Stays, Ends, GoesOn, Knows
    <3>2. QED
        BY <1>2, <2>1, <3>1 DEF DraftReplaces, Writing, SamePositions
  <2>4. QED
      BY <1>1, <1>2, <1>4, <2>1, <2>2, <2>3 DEF KeepsOpened, IsOpened, SamePositions
<1>6. CASE Selects
  <2>1. PICK p \in OpenedPositions : Maker'.copy = CopyOf(p)
      BY <1>6 DEF Selects
  <2>2. CopyOf(p).id = p /\ CopyOf(p).status = "opened" /\ position[p].status = "opened"
      BY DEF CopyOf, OpenedPositions
  <2>3. IsOpened(Maker.copy)'
      BY <1>6, <2>1, <2>2 DEF IsOpened, Selects, SamePositions
  <2>4. QED
      BY <1>1, <1>2, <1>4, <1>6, <2>3
      DEF Selects, SamePositions, KeepsOpened, IsOpened, DraftReplaces, Writing
<1>7. CASE Fills
    BY <1>1, <1>2, <1>4, <1>7
    DEF Fills, SamePositions, KeepsOpened, IsOpened, DraftReplaces, Writing
<1>8. CASE Rewrites \/ Closes
  <2>1. /\ SamePositions /\ UNCHANGED openedCache /\ Maker'.copy = Maker.copy
        /\ Maker'.pc = "delete" /\ Maker.copy # None
        /\ Maker'.draft.id = Maker.copy.id
        /\ Maker'.then = "idle" \/ Maker'.draft = Maker.copy
      BY <1>8, CopyFields DEF Rewrites, Closes
  <2>2. DraftReplaces'
      BY <1>2, <2>1 DEF DraftReplaces, Writing, IsOpened, SamePositions
  <2>3. QED
      BY <1>1, <1>2, <1>4, <2>1, <2>2 DEF KeepsOpened, IsOpened, SamePositions
<1>9. CASE Drops
    BY <1>1, <1>2, <1>4, <1>9
    DEF Drops, SamePositions, KeepsCopies, KeepsOpened, IsOpened, DraftReplaces, Writing
<1>10. CASE Writes
  <2>1. /\ openedCache = None /\ openedCache' = None
        /\ Maker'.pc \notin {"delete", "write"}
        /\ position[Maker.draft.id].status = "opened"
        /\ Maker.draft.id \in PositionIds
        /\ Maker.then = "idle" \/ Maker.draft.status = "opened"
      BY <1>2, <1>10, CopyFields DEF Writes, DraftReplaces, Writing
  <2>2. /\ position'[Maker.draft.id].status = Maker.draft.status
        /\ \A p \in PositionIds : p # Maker.draft.id => position'[p] = position[p]
      BY <1>3, <1>10, <2>1 DEF Writes, RowOf
  <2>3. ClosedRest
    <3>1. \A p \in PositionIds : position[p].status \in {"none", "opened", "closed"}
        BY <1>3 DEF PositionRows
    <3>2. QED
        BY <2>1, <2>2, <3>1 DEF ClosedRest
  <2>4. IsOpened(Maker.copy)'
    <3>1. CASE Maker'.copy = None
        BY <3>1 DEF IsOpened
    <3>2. CASE Maker'.copy = Maker.copy /\ Maker.then # "idle"
        BY <1>2, <1>3, <2>1, <2>2, <3>2, CopyFields DEF IsOpened
    <3>3. QED
        BY <1>10, <3>1, <3>2 DEF Writes, KeepsCopies
  <2>5. QED
      BY <1>1, <2>1, <2>3, <2>4 DEF KeepsOpened, IsOpened, DraftReplaces, Writing
<1>11. CASE Buys
  <2>1. PICK p \in PositionIds :
            /\ position[p].status = "none"
            /\ position' = [position EXCEPT ![p] =
                    [status |-> "opened", exec |-> job.seen.executed, swap |-> FALSE]]
      BY <1>11 DEF Buys
  <2>2. \A q \in PositionIds : q # p => position'[q] = position[q]
      BY <1>3, <2>1
  <2>3. ClosedRest
    <3>1. \A q \in PositionIds : position[q].status \in {"none", "opened", "closed"}
        BY <1>3 DEF PositionRows
    <3>2. QED
        BY <2>1, <2>2, <3>1 DEF ClosedRest
  <2>4. \A c \in Copies \cup {None} : IsOpened(c) =>
            (c # None => c.status = "opened" /\ position'[c.id].status = "opened")
      BY <2>1, <2>2, CopyFields DEF IsOpened
  <2>5. QED
      BY <1>1, <1>2, <1>3, <1>11, <2>3, <2>4
      DEF Buys, KeepsCopies, KeepsOpened, IsOpened, DraftReplaces, Writing
<1>12. CASE Commissions
    BY <1>1, <1>2, <1>4, <1>12
    DEF Commissions, SamePositions, KeepsCopies, KeepsOpened, IsOpened, DraftReplaces,
        Writing
<1>13. CASE Grows
  <2>1. /\ Maker'.draft.id = Maker.copy.id /\ Maker'.draft.status = Maker.copy.status
        /\ Maker.copy # None
      BY <1>13, CopyFields DEF Grows, Grown, Copies
  <2>2. DraftReplaces'
      BY <1>2, <1>13, <2>1 DEF Grows, DraftReplaces, Writing, IsOpened
  <2>3. QED
      BY <1>1, <1>2, <1>4, <1>13, <2>2 DEF Grows, KeepsOpened, IsOpened
<1>14. CASE Sells
    BY <1>1, <1>2, <1>4, <1>14
    DEF Sells, KeepsCopies, KeepsOpened, IsOpened, DraftReplaces, Writing
<1>15. QED
    BY <1>1, <1>5, <1>6, <1>7, <1>8, <1>9, <1>10, <1>11, <1>12, <1>13, <1>14
    DEF AloneStep

LEMMA KeepsOpenedInit == Init => KeepsOpened
<1> SUFFICES ASSUME Init PROVE KeepsOpened
    OBVIOUS
<1>1. /\ Maker = IdleAgent /\ openedCache = None
      /\ \A w \in Pollers : agent[w] = IdleAgent
    BY MakerIsAgent DEF Init, Maker
<1>2. QED
    BY <1>1, IdleState DEF KeepsOpened, NoSwaps, IsOpened, DraftReplaces, Writing

\* The maker alone holds and caches opened positions only.
THEOREM LedgerKeepsOpened == ASSUME Undisturbed PROVE Spec => []KeepsOpened
<1>1. Typed /\ KeepsOpened /\ [Next]_vars => KeepsOpened'
    BY KeepsOpenedStep
<1>2. QED
    BY <1>1, KeepsOpenedInit, LedgerTyped, PTL DEF Spec

\* "Can not update closed order": what the maker closed it never opens again, for any
\* number of crashes and failing requests, as long as nobody else writes the row
\* (Sell, OrderRepository.Update).
THEOREM LedgerClosedStaysClosed == ASSUME Undisturbed PROVE Spec => ClosedStaysClosed
<1> DEFINE Rest == \A p \in PositionIds :
                       position[p].status = "closed" => position'[p].status = "closed"
<1>1. Typed /\ KeepsOpened /\ [Next]_vars => [Rest]_vars
    BY KeepsOpenedStep DEF ClosedRest
<1>2. QED
    BY <1>1, LedgerTyped, LedgerKeepsOpened, PTL DEF Spec, ClosedStaysClosed

-----------------------------------------------------------------------------
(***************************************************************************)
(* One opened position.  Unless a request fails, there is none while the   *)
(* maker is about to buy one: nobody else buys, and no row is opened again.*)
(***************************************************************************)
BuysTheFirst ==
    faults = 0 =>
        /\ OneOpenedPosition
        /\ Maker.pc = "decide" /\ Maker.copy = None => OpenedPositions = {}
        /\ job.op = "Buy" /\ Maker.pc \notin {"commission", "cleanup"}
              => OpenedPositions = {}

\* No position is opened but by a purchase.
LEMMA OpenedOnlyBought ==
    ASSUME Typed, Undisturbed, KeepsOpened, [Next]_vars, ~Buys
    PROVE  OpenedPositions' \subseteq OpenedPositions
<1>1. AloneStep
    BY AloneSteps DEF KeepsOpened
<1>2. CASE UNCHANGED position
    BY <1>2 DEF OpenedPositions
<1>3. CASE Writes
  <2>1. /\ Writing /\ position[Maker.draft.id].status = "opened"
        /\ Maker.draft.id \in PositionIds
      BY <1>3, CopyFields DEF KeepsOpened, DraftReplaces, Writes, Writing
  <2>2. \A p \in PositionIds : p # Maker.draft.id => position'[p] = position[p]
      BY <1>3, <2>1, TypedParts DEF Writes, PositionsTyped
  <2>3. QED
      BY <2>1, <2>2 DEF OpenedPositions
<1>4. QED
    BY <1>1, <1>2, <1>3 DEF AloneStep, Stays, Ends, GoesOn, Knows, Selects, Fills, Rewrites,
       Closes, Drops, Commissions, Grows, Sells, SamePositions

\* A set with less is no larger.
LEMMA OneOpenedShrinks ==
    ASSUME OneOpenedPosition, OpenedPositions' \subseteq OpenedPositions,
           IsFiniteSet(OpenedPositions)
    PROVE  OneOpenedPosition'
<1>1. /\ Cardinality(OpenedPositions') <= Cardinality(OpenedPositions)
      /\ Cardinality(OpenedPositions) \in Nat /\ Cardinality(OpenedPositions') \in Nat
    BY FS_Subset, FS_CardinalityType
<1>2. QED
    BY <1>1 DEF OneOpenedPosition

\* At most one position is opened, or none: then their number is finite.
FewOpened == IsFiniteSet(OpenedPositions)

LEMMA FewOpenedStep ==
    ASSUME Typed, Undisturbed, KeepsOpened, FewOpened, [Next]_vars
    PROVE  FewOpened'
<1>1. CASE ~Buys
    BY <1>1, OpenedOnlyBought, FS_Subset DEF FewOpened
<1>2. CASE Buys
  <2>1. PICK p \in PositionIds :
            position' = [position EXCEPT ![p] =
                [status |-> "opened", exec |-> job.seen.executed, swap |-> FALSE]]
      BY <1>2 DEF Buys
  <2>2. OpenedPositions' \subseteq OpenedPositions \cup {p}
    <3>1. \A q \in PositionIds : q # p => position'[q] = position[q]
        BY <2>1, TypedParts DEF PositionsTyped
    <3>2. QED
        BY <3>1 DEF OpenedPositions
  <2>3. IsFiniteSet(OpenedPositions \cup {p})
      BY FS_AddElement DEF FewOpened
  <2>4. QED
      BY <2>2, <2>3, FS_Subset DEF FewOpened
<1>3. QED
    BY <1>1, <1>2

LEMMA BuysTheFirstStep ==
    ASSUME Typed, Undisturbed, KeepsOpened, FewOpened, BuysTheFirst, [Next]_vars
    PROVE  BuysTheFirst'
<1> SUFFICES ASSUME faults' = 0
             PROVE  /\ OneOpenedPosition'
                    /\ Maker'.pc = "decide" /\ Maker'.copy = None => OpenedPositions' = {}
                    /\ job'.op = "Buy" /\ Maker'.pc \notin {"commission", "cleanup"}
                          => OpenedPositions' = {}
    BY DEF BuysTheFirst
<1>1. faults = 0
    BY CountsGrow, TypedParts, LedgerAssumption DEF CountsTyped
<1>2. /\ OneOpenedPosition
      /\ Maker.pc = "decide" /\ Maker.copy = None => OpenedPositions = {}
      /\ job.op = "Buy" /\ Maker.pc \notin {"commission", "cleanup"} => OpenedPositions = {}
    BY <1>1 DEF BuysTheFirst
<1>3. AloneStep /\ PositionsTyped
    BY AloneSteps, TypedParts DEF KeepsOpened
<1>4. CASE Buys
  <2>1. OpenedPositions = {}
      BY <1>2, <1>4 DEF Buys
  <2>2. PICK p \in PositionIds :
            position' = [position EXCEPT ![p] =
                [status |-> "opened", exec |-> job.seen.executed, swap |-> FALSE]]
      BY <1>4 DEF Buys
  <2>3. OpenedPositions' \subseteq {p}
    <3>1. \A q \in PositionIds : q # p => position'[q] = position[q]
        BY <1>3, <2>2 DEF PositionsTyped
    <3>2. QED
        BY <2>1, <3>1 DEF OpenedPositions
  <2> DEFINE S == {p}
  <2>4. IsFiniteSet(S) /\ Cardinality(S) = 1 /\ OpenedPositions' \subseteq S
      BY <2>3, FS_Singleton
  <2> HIDE DEF S
  <2>5. /\ Cardinality(OpenedPositions') <= Cardinality(S)
      BY <2>4, FS_Subset
  <2>6. OneOpenedPosition'
      BY <2>4, <2>5 DEF OneOpenedPosition
  <2>7. QED
      BY <1>4, <2>6 DEF Buys
<1>5. CASE ~Buys
  <2>1. OpenedPositions' \subseteq OpenedPositions
      BY <1>5, OpenedOnlyBought
  <2>2. OneOpenedPosition'
      BY <1>2, <2>1, OneOpenedShrinks DEF FewOpened
  <2>3. Maker'.pc = "decide" /\ Maker'.copy = None => OpenedPositions = {}
    <3>1. CASE Fills
        BY <1>3, <3>1, TypedParts, MakerIsAgent
        DEF Fills, AgentsTyped, AgentsHold, HoldsWhatItUses, HasCopy, Maker
    <3>2. CASE Stays
        BY <1>2, <3>2 DEF Stays
    <3>3. CASE Knows
        BY <3>3 DEF Knows
    <3>4. QED
        BY <1>3, <1>5, <3>1, <3>2, <3>3 DEF AloneStep, Ends, GoesOn, Selects, Rewrites,
           Closes, Drops, Writes, Commissions, Grows, Sells
  <2>4. job'.op = "Buy" /\ Maker'.pc \notin {"commission", "cleanup"}
            => OpenedPositions = {}
    <3>1. job'.op # "Buy" \/ job'.op = job.op \/ (GoesOn /\ Maker.pc = "decide")
        BY <1>3, <1>5 DEF AloneStep, Stays, Ends, GoesOn, Knows, Selects, Fills, Rewrites,
           Closes, Drops, Writes, Commissions, Grows, Sells, NoJob
    <3>2. CASE GoesOn /\ Maker.pc = "decide"
        BY <1>2, <3>2 DEF GoesOn, Operations
    <3>3. CASE job'.op = job.op /\ Maker.pc \in {"commission", "cleanup"}
        BY <1>3, <1>5, <3>3 DEF AloneStep, Stays, Ends, GoesOn, Knows, Selects, Fills,
           Rewrites, Closes, Drops, Writes, Commissions, Grows, Sells, NoJob
    <3>4. QED
        BY <1>2, <3>1, <3>2, <3>3
  <2>5. QED
      BY <2>1, <2>2, <2>3, <2>4
<1>6. QED
    BY <1>4, <1>5

LEMMA BuysTheFirstInit == Init => BuysTheFirst /\ FewOpened
<1> SUFFICES ASSUME Init PROVE BuysTheFirst /\ FewOpened
    OBVIOUS
<1>1. OpenedPositions = {}
    BY DEF Init, OpenedPositions
<1>2. QED
    BY <1>1, FS_EmptySet DEF BuysTheFirst, FewOpened, OneOpenedPosition

\* The maker alone buys only when no position is opened, unless a request failed.
THEOREM LedgerBuysTheFirst == ASSUME Undisturbed PROVE Spec => []BuysTheFirst
<1>1. Typed /\ KeepsOpened /\ FewOpened /\ [Next]_vars => FewOpened'
    BY FewOpenedStep
<1>2. Typed /\ KeepsOpened /\ FewOpened /\ BuysTheFirst /\ [Next]_vars => BuysTheFirst'
    BY BuysTheFirstStep
<1>3. QED
    BY <1>1, <1>2, BuysTheFirstInit, LedgerTyped, LedgerKeepsOpened, PTL DEF Spec

\* A symbol has one opened position while no request fails, for any number of crashes:
\* MakerService buys only when GetOpenedOrderCached finds none.
THEOREM LedgerOneOpenedPosition ==
    ASSUME Undisturbed PROVE Spec => [](faults = 0 => OneOpenedPosition)
<1>1. BuysTheFirst => (faults = 0 => OneOpenedPosition)
    BY DEF BuysTheFirst
<1>2. QED
    BY <1>1, LedgerBuysTheFirst, PTL

-----------------------------------------------------------------------------
(***************************************************************************)
(* The cache is the row.  Without a crash and a failing request the copies *)
(* of the maker alone are those of the row now, from the time they are     *)
(* read to the next write, and the row has what its orders bought, but for *)
(* an extra order's while it is being written.                             *)
(***************************************************************************)
Fresh(c) == c # None => c = CopyOf(c.id)

WithCopy == {"fill", "decide", "quantity", "find", "placed", "try", "wait", "save"}

CopiesFresh ==
    /\ Maker.pc = "close" \/ (Maker.pc = "delete" /\ Maker.then = "idle")
          \/ Fresh(openedCache)
    /\ Maker.pc \in WithCopy => Fresh(Maker.copy)
    /\ Writing /\ Maker.then = "find" => Maker.draft = Maker.copy /\ Fresh(Maker.copy)
    /\ Maker.pc = "close" => Maker.copy.exec = position[Maker.copy.id].exec

\* The row of p is to be written with what an extra order bought.
Growing(p) == Writing /\ Maker.then = "cleanup" /\ p = Maker.draft.id

ExecBought ==
    /\ \A p \in PositionIds : Growing(p) \/ position[p].exec = bought[p]
    /\ Writing => Maker.draft.exec = bought[Maker.draft.id]

KeepsCurrent == Calm => CopiesFresh /\ ExecBought

\* While the rows rest, a copy of them is what it was.
LEMMA CopyRests ==
    ASSUME SamePositions
    PROVE  \A c : Fresh(c) <=> (c # None => c = CopyOf(c.id)')
BY DEF SamePositions, CopyOf, Fresh

\* The fields of a fresh copy are those of the row.
LEMMA FreshFields ==
    ASSUME NEW c \in Copies, Fresh(c)
    PROVE  /\ c.exec = position[c.id].exec /\ c.status = position[c.id].status
           /\ c.swap = position[c.id].swap /\ c.sold = sold[c.id]
<1>1. c = CopyOf(c.id)
    BY CopyFields DEF Fresh
<1>2. /\ CopyOf(c.id).exec = position[c.id].exec
      /\ CopyOf(c.id).status = position[c.id].status
      /\ CopyOf(c.id).swap = position[c.id].swap /\ CopyOf(c.id).sold = sold[c.id]
    BY DEF CopyOf
<1>3. QED
    BY <1>1, <1>2

\* A row that is written from a fresh copy stays what it is.
LEMMA FreshRewrite ==
    ASSUME PositionsTyped, NEW c \in Copies, Fresh(c),
           position' = [position EXCEPT ![c.id] = RowOf(c)]
    PROVE  position' = position
<1>1. c.id \in PositionIds /\ position[c.id] \in PositionRows
    BY CopyFields DEF PositionsTyped
<1>2. RowOf(c) = position[c.id]
    BY <1>1, FreshFields DEF RowOf, PositionRows
<1>3. QED
    BY <1>1, <1>2 DEF PositionsTyped

\* The maker moves, the rows rest.
LEMMA CurrentRests ==
    ASSUME Typed, Calm', CopiesFresh, ExecBought,
           Stays \/ Ends \/ GoesOn \/ Knows \/ Selects \/ Fills \/ Commissions
    PROVE  CopiesFresh' /\ ExecBought'
<1>1. SamePositions
    BY DEF Stays, Ends, GoesOn, Knows, Selects, Fills, Commissions
<1>2. \A c : Fresh(c) <=> (c # None => c = CopyOf(c.id)')
    BY <1>1, CopyRests
<1>3. CASE Stays
    BY <1>1, <1>2, <1>3
    DEF Stays, SamePositions, CopiesFresh, ExecBought, Writing, Growing, Fresh
<1>4. CASE ~Stays
  <2>1. Maker'.pc \notin {"close", "delete", "write"} /\ Maker.pc # "close" /\ Maker.pc # "delete"
        /\ Maker.pc # "write"
      BY <1>4 DEF Stays, Ends, GoesOn, Knows, Selects, Fills, Commissions, Writing
  <2>2. Fresh(openedCache)
      BY <2>1 DEF CopiesFresh
  <2>3. Maker.pc \in WithCopy => Fresh(Maker.copy)
      BY DEF CopiesFresh
  <2>4. Fresh(openedCache)'
    <3>1. CASE openedCache' = openedCache \/ openedCache' = None
        BY <1>1, <2>2, <3>1 DEF Fresh, CopyOf, SamePositions
    <3>2. CASE Fills
        BY <1>1, <2>3, <3>2 DEF Fills, WithCopy, Fresh, CopyOf, SamePositions
    <3>3. QED
        BY <1>4, <3>1, <3>2 DEF Ends, GoesOn, Knows, Selects, Commissions
  <2>5. Maker'.pc \in WithCopy => Fresh(Maker.copy)'
    <3>1. CASE Selects
      <4>1. PICK p \in OpenedPositions : Maker'.copy = CopyOf(p)
          BY <3>1 DEF Selects
      <4>2. CopyOf(p).id = p /\ CopyOf(p)' = CopyOf(p)
          BY <1>1 DEF CopyOf, SamePositions
      <4>3. QED
          BY <1>1, <4>1, <4>2 DEF Fresh, CopyOf, SamePositions
    <3>2. CASE Knows
        BY <1>1, <2>2, <3>2 DEF Knows, Fresh, CopyOf, SamePositions
    <3>3. CASE Fills \/ GoesOn
      <4>1. Maker'.pc \in WithCopy => Maker.pc \in WithCopy
          BY <2>1, <3>3 DEF Fills, GoesOn, WithCopy
      <4>2. Maker'.copy = Maker.copy
          BY <3>3 DEF Fills, GoesOn, KeepsCopies
      <4>3. QED
          BY <1>1, <2>3, <4>1, <4>2 DEF Fresh, CopyOf, SamePositions
    <3>4. QED
        BY <1>4, <3>1, <3>2, <3>3 DEF Ends, Commissions, WithCopy
  <2>6. CopiesFresh'
      BY <2>1, <2>4, <2>5 DEF CopiesFresh, Fresh, Writing
  <2>7. ExecBought'
      BY <1>1, <2>1 DEF ExecBought, Writing, Growing, SamePositions
  <2>8. QED
      BY <2>6, <2>7
<1>5. QED
    BY <1>3, <1>4

\* The row is to be written, its cache is dropped.
LEMMA CurrentBegins ==
    ASSUME Typed, CopiesFresh, ExecBought, Rewrites \/ Closes \/ Drops
    PROVE  CopiesFresh' /\ ExecBought'
<1>1. SamePositions /\ PositionsTyped
    BY TypedParts DEF Rewrites, Closes, Drops
<1>2. \A c : Fresh(c) <=> (c # None => c = CopyOf(c.id)')
    BY <1>1, CopyRests
<1>3. CASE Rewrites
  <2>1. Fresh(openedCache) /\ Fresh(Maker.copy) /\ Maker.copy \in Copies
      BY <1>3 DEF Rewrites, CopiesFresh, WithCopy
  <2>2. Maker.copy.exec = bought[Maker.copy.id]
      BY <1>3, <2>1, FreshFields, CopyFields DEF Rewrites, ExecBought, Growing, Writing
  <2>3. CopiesFresh'
      BY <1>2, <1>3, <2>1 DEF Rewrites, CopiesFresh, Fresh, Writing, WithCopy
  <2>4. ExecBought'
      BY <1>1, <1>3, <2>2 DEF Rewrites, ExecBought, Growing, Writing, SamePositions
  <2>5. QED
      BY <2>3, <2>4
<1>4. CASE Closes
  <2>1. Maker.copy.exec = bought[Maker.copy.id]
      BY <1>4, CopyFields DEF Closes, CopiesFresh, ExecBought, Growing, Writing
  <2>2. CopiesFresh'
      BY <1>4 DEF Closes, CopiesFresh, Fresh, Writing, WithCopy
  <2>3. ExecBought'
      BY <1>1, <1>4, <2>1 DEF Closes, ExecBought, Growing, Writing, SamePositions
  <2>4. QED
      BY <2>2, <2>3
<1>5. CASE Drops
  <2>1. CopiesFresh'
      BY <1>2, <1>5 DEF Drops, KeepsCopies, CopiesFresh, Fresh, Writing, WithCopy
  <2>2. ExecBought'
      BY <1>1, <1>5 DEF Drops, KeepsCopies, ExecBought, Growing, Writing, SamePositions
  <2>3. QED
      BY <2>1, <2>2
<1>6. QED
    BY <1>3, <1>4, <1>5

LEMMA CurrentWrites ==
    ASSUME Typed, KeepsOpened, CopiesFresh, ExecBought, Writes
    PROVE  CopiesFresh' /\ ExecBought'
<1>1. /\ PositionsTyped /\ Writing /\ openedCache' = None
      /\ Maker.draft \in Copies /\ Maker.draft.id \in PositionIds
      /\ Maker'.pc \in {"idle", "find", "cleanup"}
      /\ Maker'.pc = "find" => Maker.then = "find"
    BY TypedParts, CopyFields DEF Writes, KeepsOpened, DraftReplaces, Writing
<1>2. /\ position'[Maker.draft.id].exec = Maker.draft.exec
      /\ \A p \in PositionIds : p # Maker.draft.id => position'[p] = position[p]
    BY <1>1 DEF Writes, RowOf, PositionsTyped
<1>3. \A p \in PositionIds : position'[p].exec = bought'[p]
    BY <1>1, <1>2 DEF Writes, ExecBought, Growing
<1>4. Maker.then = "find" => Maker'.copy = Maker.copy /\ position' = position /\ sold' = sold
                             /\ Fresh(Maker.copy)
    BY <1>1, FreshRewrite DEF Writes, KeepsCopies, CopiesFresh
<1>5. Maker'.pc \in WithCopy => Fresh(Maker.copy)'
  <2>1. CASE Maker'.pc = "find"
      BY <1>1, <1>4, <2>1 DEF Fresh, CopyOf
  <2>2. QED
      BY <1>1, <2>1 DEF WithCopy
<1>6. CopiesFresh'
    BY <1>1, <1>5 DEF CopiesFresh, Fresh, Writing
<1>7. ExecBought'
    BY <1>1, <1>3 DEF ExecBought, Writing
<1>8. QED
    BY <1>6, <1>7

\* The order is booked.
LEMMA CurrentBooks ==
    ASSUME Typed, KeepsOpened, CopiesFresh, ExecBought, Buys \/ Grows \/ Sells
    PROVE  CopiesFresh' /\ ExecBought'
<1>1. /\ PositionsTyped /\ Maker.pc = "save"
      /\ Fresh(openedCache) /\ Fresh(Maker.copy)
      /\ \A p \in PositionIds : position[p].exec = bought[p]
      /\ openedCache \in Copies \cup {None}
    BY TypedParts
    DEF Buys, Grows, Sells, CopiesFresh, ExecBought, Growing, Writing, WithCopy,
        PositionsTyped
<1>2. CASE Buys
  <2>1. PICK p \in PositionIds :
            /\ position[p].status = "none"
            /\ position' = [position EXCEPT ![p] =
                    [status |-> "opened", exec |-> job.seen.executed, swap |-> FALSE]]
            /\ bought' = [bought EXCEPT ![p] = job.seen.executed]
      BY <1>2 DEF Buys
  <2>2. /\ \A q \in PositionIds : q # p => position'[q] = position[q] /\ bought'[q] = bought[q]
        /\ position'[p].exec = job.seen.executed /\ bought'[p] = job.seen.executed
      BY <1>1, <2>1 DEF PositionsTyped
  <2>3. openedCache # None => openedCache.id \in PositionIds /\ openedCache.id # p
      BY <1>1, <2>1, CopyFields DEF KeepsOpened, IsOpened
  <2>4. Fresh(openedCache)'
      BY <1>1, <1>2, <2>2, <2>3 DEF Buys, Fresh, CopyOf
  <2>5. QED
      BY <1>1, <1>2, <2>2, <2>4
      DEF Buys, CopiesFresh, ExecBought, Growing, Writing, WithCopy
<1>3. CASE Grows
  <2>1. /\ Maker.copy \in Copies /\ Maker.copy.id \in PositionIds
        /\ Maker.copy.exec = bought[Maker.copy.id]
      BY <1>1, <1>3, FreshFields, CopyFields DEF Grows
  <2>2. job.seen.executed \in Nat
      BY <1>1, BusyWithOrder, OrderFields DEF Busy
  <2>3. /\ Maker'.draft.id = Maker.copy.id
        /\ Maker'.draft.exec = bought'[Maker.copy.id]
        /\ \A p \in PositionIds : p # Maker.copy.id => bought'[p] = bought[p]
      BY <1>1, <1>3, <2>1, <2>2, GrownFields DEF Grows, PositionsTyped
  <2>4. Fresh(openedCache)'
      BY <1>1, <1>3 DEF Grows, Fresh, CopyOf
  <2>5. QED
      BY <1>1, <1>3, <2>3, <2>4
      DEF Grows, CopiesFresh, ExecBought, Growing, Writing, WithCopy
<1>4. CASE Sells
  <2>1. Maker.copy.exec = position[Maker.copy.id].exec
      BY <1>1, <1>4, FreshFields DEF Sells
  <2>2. QED
      BY <1>1, <1>4, <2>1
      DEF Sells, KeepsCopies, CopiesFresh, ExecBought, Growing, Writing, WithCopy
<1>5. QED
    BY <1>2, <1>3, <1>4

\* What was calm after a step was so before.
LEMMA CalmBefore ==
    ASSUME Typed, [Next]_vars, Calm'
    PROVE  Calm
BY CountsGrow, TypedParts, LedgerAssumption DEF CountsTyped, Calm

LEMMA KeepsCurrentStep ==
    ASSUME Typed, Undisturbed, KeepsOpened, KeepsCurrent, [Next]_vars
    PROVE  KeepsCurrent'
<1> SUFFICES ASSUME Calm' PROVE CopiesFresh' /\ ExecBought'
    BY DEF KeepsCurrent
<1>1. CopiesFresh /\ ExecBought /\ AloneStep
    BY CalmBefore, AloneSteps DEF KeepsCurrent, KeepsOpened
<1>2. QED
    BY <1>1, CurrentRests, CurrentBegins, CurrentWrites, CurrentBooks DEF AloneStep

LEMMA KeepsCurrentInit == Init => KeepsCurrent
<1> SUFFICES ASSUME Init PROVE KeepsCurrent
    OBVIOUS
<1>1. Maker = IdleAgent /\ openedCache = None
    BY MakerIsAgent DEF Init, Maker
<1>2. \A p \in PositionIds : position[p].exec = bought[p]
    BY DEF Init
<1>3. QED
    BY <1>1, <1>2, IdleState
    DEF KeepsCurrent, CopiesFresh, ExecBought, Fresh, Growing, Writing, WithCopy

\* Without a crash and a failing request the copies of the maker alone are fresh.
THEOREM LedgerKeepsCurrent == ASSUME Undisturbed PROVE Spec => []KeepsCurrent
<1>1. Typed /\ KeepsOpened /\ KeepsCurrent /\ [Next]_vars => KeepsCurrent'
    BY KeepsCurrentStep
<1>2. QED
    BY <1>1, KeepsCurrentInit, LedgerTyped, LedgerKeepsOpened, PTL DEF Spec

\* Between two operations of the maker alone the cached position is its row, sold
\* quantity included, and the row has all that was bought (GetOpenedOrderCached, Update,
\* BuyExtra), unless the process died or a request failed.
THEOREM LedgerCacheIsCurrent ==
    ASSUME Undisturbed PROVE Spec => [](crashes = 0 /\ faults = 0 => CacheIsCurrent)
<1>1. KeepsCurrent => (crashes = 0 /\ faults = 0 => CacheIsCurrent)
    BY DEF KeepsCurrent, Calm, CopiesFresh, ExecBought, CacheIsCurrent, Fresh, Growing,
       Writing
<1>2. QED
    BY <1>1, LedgerKeepsCurrent, PTL

-----------------------------------------------------------------------------
(***************************************************************************)
(* Never sold more than bought.  A new order to sell is for no more than   *)
(* what is left of the position, when the minimum is one lot; an order     *)
(* that is found again was saved or executed nothing, because without a    *)
(* crash and a failing request the maker leaves no order behind.           *)
(***************************************************************************)
Done(o) ==
    IsSettled(orders[o]) /\ (rows[o] > 0 \/ ~HasExecutedQuantity(orders[o]))

OthersDone == \A o \in OrderIds : orders[o] # None /\ o # job.id => Done(o)

WithinRemaining ==
    Maker.pc \in Busy /\ job.op = "Sell" /\ rows[job.id] = 0 =>
        Done(job.id) \/ orders[job.id].orig <= RemainingToSell(Maker.copy)

\* The maker has sold p and is about to find out whether it is sold out, or to close it.
SellingOut(p) ==
    \/ Maker.pc = "close" /\ p = Maker.copy.id
    \/ Writing /\ Maker.then = "idle" /\ p = Maker.draft.id /\ Maker.draft.status = "closed"

SoldLess ==
    \A p \in PositionIds :
        /\ sold[p] <= bought[p]
        /\ position[p].status = "opened" => sold[p] < bought[p] \/ SellingOut(p)

KeepsWithin == Calm => OthersDone /\ WithinRemaining /\ SoldLess

\* The order that leaves the maker's hands is done.
LEMMA LeftIsDone ==
    ASSUME Typed, Followed, Calm, Calm', job.id # None, JobLeft \/ JobDropped
    PROVE  Done(job.id)
<1>1. job.id \in OrderIds /\ crashes + faults = 0 /\ crashes' + faults' = 0
    BY TypedParts DEF OrdersTyped, Jobs, Calm
<1>2. ASSUME rows[job.id] # 0 PROVE Done(job.id)
  <2>1. rows[job.id] > 0
      BY <1>1, <1>2, TypedParts DEF OrdersTyped
  <2>2. QED
      BY <1>1, <2>1 DEF Followed, RowsAreFinal, Done
<1>3. ASSUME Maker.pc \notin Busy PROVE Done(job.id)
    BY <1>2, <1>3 DEF Followed, JobFollowed
<1>4. CASE JobLeft
    BY <1>1, <1>3, <1>4 DEF JobLeft
<1>5. CASE JobDropped
  <2>1. CASE Maker.pc = "try" /\ FoundVoid(job.seen)
    <3>1. Follows(job.seen, orders[job.id])
        BY <2>1 DEF Followed, JobFollowed, Busy
    <3>2. job.seen = orders[job.id]
        BY <2>1, <3>1, SettledIsFinal DEF FoundVoid
    <3>3. QED
        BY <2>1, <3>2 DEF FoundVoid, Done
  <2>2. CASE Maker.pc = "wait" /\ IsSettled(orders[job.id])
             /\ ~HasExecutedQuantity(orders[job.id])
      BY <2>2 DEF Done
  <2>3. CASE Maker.pc = "save" /\ rows[job.id] # 0
      BY <1>2, <2>3
  <2>4. CASE Maker.pc = "cleanup"
      BY <1>3, <2>4 DEF Busy
  <2>5. QED
      BY <1>1, <1>5, <2>1, <2>2, <2>3, <2>4 DEF JobDropped
<1>6. QED
    BY <1>4, <1>5

LEMMA OthersDoneStep ==
    ASSUME Typed, Followed, OthersDone, Calm, Calm', [Next]_vars
    PROVE  OthersDone'
<1>1. OrderStep /\ job \in Jobs /\ rows \in [OrderIds -> Nat]
    BY OrderSteps, TypedParts DEF OrdersTyped
<1>2. CASE UNCHANGED <<orders, rows>> /\ job'.id = job.id
    BY <1>2 DEF OthersDone, Done
<1>3. CASE JobLeft \/ JobDropped
  <2>1. UNCHANGED <<orders, rows>>
      BY <1>3 DEF JobLeft, JobDropped
  <2>2. job.id # None => Done(job.id)
      BY <1>3, LeftIsDone
  <2>3. \A o \in OrderIds : orders[o] # None => Done(o)
      BY <2>2, LedgerAssumption DEF OthersDone
  <2>4. QED
      BY <2>1, <2>3 DEF OthersDone, Done
<1>4. CASE JobSaved
  <2>1. \A o \in OrderIds : o # job.id => rows'[o] = rows[o]
      BY <1>1, <1>4 DEF JobSaved, Insert
  <2>2. QED
      BY <1>4, <2>1 DEF JobSaved, OthersDone, Done
<1>5. CASE JobSeen
  <2>1. job'.id = job.id
      BY <1>1, <1>5 DEF JobSeen, Jobs
  <2>2. QED
      BY <1>2, <1>5, <2>1 DEF JobSeen
<1>6. CASE FindCached \/ FindOpened
  <2>1. job.id = None /\ UNCHANGED <<orders, rows>>
      BY <1>6, TypedParts DEF FindCached, FindOpened, stores, JobFits, IsLooking, Looking
  <2>2. QED
      BY <2>1, LedgerAssumption DEF OthersDone, Done
<1>7. CASE Place
  <2>1. job.id = None
      BY <1>7, TypedParts DEF Place, JobFits, IsLooking, Looking
  <2>2. PICK o \in OrderIds : /\ \A x \in OrderIds : x # o => orders'[x] = orders[x]
                              /\ job'.id = o /\ UNCHANGED rows
      BY <1>7, Placed
  <2>3. QED
      BY <2>1, <2>2, LedgerAssumption DEF OthersDone, Done
<1>8. ASSUME NEW o \in OrderIds, Exchange(o) PROVE OthersDone'
  <2>1. /\ orders[o] # None /\ IsLive(orders[o]) /\ UNCHANGED <<rows, job>>
        /\ \A x \in OrderIds : x # o => orders'[x] = orders[x]
      BY <1>8, Exchanged, TypedParts DEF Exchange, OrdersTyped, Progress
  <2>2. o = job.id
      BY <2>1, SettledIsFinal DEF OthersDone, Done
  <2>3. QED
      BY <2>1, <2>2 DEF OthersDone, Done
<1>9. QED
    BY <1>1, <1>2, <1>3, <1>4, <1>5, <1>6, <1>7, <1>8
    DEF OrderStep, OrdersQuiet, JobTried, CachePlaced, Boot

\* While the maker is busy with an order it keeps its copy.
LEMMA BusyKeepsCopy ==
    ASSUME AloneStep, Maker.pc \in Busy \/ Maker.pc = "find", Maker'.pc \in Busy
    PROVE  Maker'.copy = Maker.copy
BY DEF AloneStep, Stays, Ends, GoesOn, Knows, Selects, Fills, Rewrites, Closes, Drops,
   Writes, Buys, Commissions, Grows, Sells, KeepsCopies, Busy

\* A new order to sell is for what is left of the position, at most.
LEMMA PlacesWithinRemaining ==
    ASSUME Typed, MinQuantity = 1, KeepsOpened, CopiesFresh, ExecBought, SoldLess,
           Place, job.op = "Sell"
    PROVE  \A orig \in Quantities : orig <= RemainingToSell(Maker.copy)
<1>1. Maker.pc = "find" /\ Maker.copy \in Copies /\ PositionsTyped
  <2>1. Maker.pc = "find" /\ Maker.copy # None
      BY TypedParts DEF Place, JobFits
  <2>2. QED
      BY <2>1, TypedParts, StateFields, MakerIsAgent DEF AgentsTyped, Maker
<1>2. /\ Maker.copy.exec = position[Maker.copy.id].exec
      /\ Maker.copy.sold = sold[Maker.copy.id]
      /\ position[Maker.copy.id].status = "opened"
      /\ Maker.copy.id \in PositionIds
    BY <1>1, FreshFields, CopyFields DEF CopiesFresh, WithCopy, KeepsOpened, IsOpened
<1>3. Maker.copy.exec = bought[Maker.copy.id] /\ sold[Maker.copy.id] < bought[Maker.copy.id]
    BY <1>1, <1>2 DEF ExecBought, Growing, SoldLess, SellingOut, Writing
<1>4. /\ RemainingToSell(Maker.copy) = bought[Maker.copy.id] - sold[Maker.copy.id]
      /\ bought[Maker.copy.id] \in Nat /\ sold[Maker.copy.id] \in Nat
    BY <1>1, <1>2, <1>3 DEF RemainingToSell, PositionsTyped
<1>5. RemainingToSell(Maker.copy) >= 1 /\ RemainingToSell(Maker.copy) \in Int
    BY <1>3, <1>4
<1> DEFINE remaining == RemainingToSell(Maker.copy)
<1>6. Quantities = MinQuantity .. (IF remaining > MinQuantity THEN remaining ELSE MinQuantity)
    BY DEF Quantities
<1> HIDE DEF remaining
<1>7. remaining >= 1 /\ remaining \in Int
    BY <1>5 DEF remaining
<1>8. \A orig \in Quantities : orig <= remaining
    BY <1>6, <1>7
<1>9. QED
    BY <1>8 DEF remaining

LEMMA WithinRemainingStep ==
    ASSUME Typed, Undisturbed, MinQuantity = 1, Followed, KeepsOpened, CopiesFresh,
           ExecBought, OthersDone, WithinRemaining, SoldLess, Calm, Calm', [Next]_vars
    PROVE  WithinRemaining'
<1> SUFFICES ASSUME Maker'.pc \in Busy, job'.op = "Sell", rows'[job'.id] = 0
             PROVE  Done(job.id)' \/ orders'[job'.id].orig <= RemainingToSell(Maker.copy)'
    BY DEF WithinRemaining
<1>1. OrderStep /\ AloneStep /\ job \in Jobs
    BY OrderSteps, AloneSteps, TypedParts DEF KeepsOpened, OrdersTyped
<1>2. ASSUME Maker'.copy = Maker.copy
      PROVE  RemainingToSell(Maker.copy)' = RemainingToSell(Maker.copy)
    BY <1>2 DEF RemainingToSell
<1>3. CASE Maker.pc \in Busy /\ UNCHANGED <<orders, rows>> /\ job'.id = job.id
           /\ job'.op = job.op
    BY <1>1, <1>2, <1>3, BusyKeepsCopy DEF WithinRemaining, Done
<1>4. CASE OrdersQuiet \/ JobTried \/ JobSeen \/ CachePlaced
  <2>1. UNCHANGED <<orders, rows>> /\ Maker.pc \in Busy
      BY <1>4 DEF OrdersQuiet, JobTried, JobSeen, CachePlaced, Busy
  <2>2. job'.id = job.id /\ job'.op = job.op
      BY <1>1, <1>4 DEF OrdersQuiet, JobTried, JobSeen, CachePlaced, Jobs
  <2>3. QED
      BY <1>3, <2>1, <2>2
<1>5. CASE JobLeft \/ JobDropped \/ JobSaved
    BY <1>5 DEF JobLeft, JobDropped, JobSaved
<1>6. CASE Boot
    BY <1>6, AloneFinishes DEF Boot, Busy
<1>7. CASE FindCached \/ FindOpened
  <2>1. job.id = None /\ UNCHANGED <<orders, rows>>
      BY <1>7, TypedParts DEF FindCached, FindOpened, stores, JobFits, IsLooking, Looking
  <2>2. job'.id \in OrderIds /\ orders[job'.id] # None
    <3>1. CASE FindCached
      <4>1. job'.id = orderCache[SideOfJob].id /\ orderCache[SideOfJob] # None
          BY <1>1, <3>1 DEF FindCached, Jobs
      <4>2. QED
          BY <4>1, SideOfJobIsSide, EntryFields, TypedParts DEF OrdersTyped, OrdersExist
    <3>2. CASE FindOpened
        BY <1>1, <3>2 DEF FindOpened, LiveOrders, Jobs
    <3>3. QED
        BY <1>7, <3>1, <3>2
  <2>3. Done(job'.id)
      BY <2>1, <2>2, LedgerAssumption DEF OthersDone
  <2>4. QED
      BY <2>1, <2>3 DEF Done
<1>8. CASE Place
  <2>1. PICK o \in OrderIds, new \in ExchangeOrders :
            /\ new.orig \in Quantities /\ orders'[o] = new
            /\ job'.id = o /\ job'.op = job.op
      BY <1>8, Placed
  <2>2. Maker'.copy = Maker.copy
      BY <1>1, <1>8, BusyKeepsCopy DEF Place
  <2>3. orders'[job'.id].orig <= RemainingToSell(Maker.copy)
      BY <1>8, <2>1, PlacesWithinRemaining
  <2>4. QED
      BY <1>2, <2>2, <2>3
<1>9. ASSUME NEW o \in OrderIds, Exchange(o)
      PROVE  Done(job.id)' \/ orders'[job'.id].orig <= RemainingToSell(Maker.copy)'
  <2>1. /\ orders'[o].orig = orders[o].orig /\ IsLive(orders[o])
        /\ \A x \in OrderIds : x # o => orders'[x] = orders[x]
        /\ UNCHANGED <<rows, job>> /\ Maker' = Maker
      BY <1>9, Exchanged, TypedParts DEF Exchange, OrdersTyped, Progress, Maker
  <2>2. job.id \in OrderIds
      BY <2>1, BusyWithOrder
  <2>3. Done(job.id) \/ orders[job.id].orig <= RemainingToSell(Maker.copy)
      BY <2>1 DEF WithinRemaining
  <2>4. CASE o = job.id
    <3>1. ~Done(job.id)
        BY <2>1, <2>4, SettledIsFinal DEF Done
    <3>2. QED
        BY <1>2, <2>1, <2>3, <2>4, <3>1
  <2>5. CASE o # job.id
      BY <1>2, <2>1, <2>2, <2>3, <2>5 DEF Done
  <2>6. QED
      BY <2>4, <2>5
<1>10. QED
    BY <1>1, <1>4, <1>5, <1>6, <1>7, <1>8, <1>9 DEF OrderStep

\* The last order to sell brings no more than what was left.
LEMMA SellsWithin ==
    ASSUME Typed, Followed, KeepsOpened, CopiesFresh, ExecBought, WithinRemaining,
           SoldLess, Sells
    PROVE  SoldLess'
<1>1. /\ Maker.pc = "save" /\ Maker.copy \in Copies /\ Maker.copy.id \in PositionIds
      /\ PositionsTyped /\ job.seen \in ExchangeOrders /\ job.id \in OrderIds
      /\ orders[job.id] \in ExchangeOrders
    BY BusyWithOrder, CopyFields, TypedParts DEF Sells, Busy
<1>2. job.seen = orders[job.id] /\ HasExecutedQuantity(job.seen)
    BY <1>1, SettledIsFinal DEF Followed, JobFollowed, Busy
<1>3. job.seen.executed <= RemainingToSell(Maker.copy)
  <2>1. ~Done(job.id)
      BY <1>2 DEF Done, Sells
  <2>2. job.seen.orig <= RemainingToSell(Maker.copy)
      BY <1>1, <1>2, <2>1 DEF WithinRemaining, Sells, Busy
  <2>3. job.seen.executed <= job.seen.orig /\ job.seen.executed \in Nat
        /\ job.seen.orig \in Nat
      BY <1>1, OrderFields DEF ExchangeOrders, WellFormed
  <2>4. Maker.copy.exec \in Nat /\ Maker.copy.sold \in Nat
      BY <1>1, CopyFields
  <2>5. QED
      BY <2>2, <2>3, <2>4 DEF RemainingToSell
<1>4. /\ Maker.copy.exec = bought[Maker.copy.id]
      /\ Maker.copy.sold = sold[Maker.copy.id]
    BY <1>1, FreshFields DEF CopiesFresh, ExecBought, Growing, Writing, WithCopy
<1>5. /\ sold'[Maker.copy.id] = sold[Maker.copy.id] + job.seen.executed
      /\ \A p \in PositionIds : p # Maker.copy.id => sold'[p] = sold[p]
    BY <1>1 DEF Sells, PositionsTyped
<1>6. sold'[Maker.copy.id] <= bought[Maker.copy.id]
    BY <1>1, <1>3, <1>4, <1>5, OrderFields DEF RemainingToSell, PositionsTyped
<1>7. UNCHANGED <<position, bought>> /\ Maker'.pc = "close" /\ Maker'.copy = Maker.copy
    BY DEF Sells, KeepsCopies
<1>8. QED
    BY <1>1, <1>5, <1>6, <1>7 DEF SoldLess, SellingOut, Writing

\* A position that is not sold out has something left.
LEMMA NotSoldOut ==
    ASSUME NEW exec \in Nat, NEW total \in Nat, ~IsSoldOut(exec, total)
    PROVE  total < exec
BY LedgerAssumption DEF IsSoldOut

LEMMA SoldLessStep ==
    ASSUME Typed, Undisturbed, Followed, CopiesBacked, KeepsOpened, CopiesFresh,
           ExecBought, WithinRemaining, SoldLess, Calm', [Next]_vars
    PROVE  SoldLess'
<1>1. AloneStep /\ PositionsTyped
    BY AloneSteps, TypedParts DEF KeepsOpened
<1>2. CASE Stays \/ Ends \/ GoesOn \/ Knows \/ Selects \/ Fills \/ Rewrites \/ Commissions
  <2>1. SamePositions
      BY <1>2 DEF Stays, Ends, GoesOn, Knows, Selects, Fills, Rewrites, Commissions
  <2>2. \A p \in PositionIds : SellingOut(p) => SellingOut(p)'
    <3>1. Maker' = Maker \/ Maker.pc \notin {"close", "delete", "write"}
          \/ (Maker.pc = "write" /\ Maker.then = "find")
        BY <1>2 DEF Stays, Ends, GoesOn, Knows, Selects, Fills, Rewrites, Commissions,
           Writing
    <3>2. QED
        BY <3>1 DEF SellingOut, Writing
  <2>3. QED
      BY <2>1, <2>2 DEF SoldLess, SamePositions
<1>3. CASE Drops
    BY <1>3 DEF Drops, KeepsCopies, SoldLess, SamePositions, SellingOut, Writing
<1>4. CASE Closes
  <2>1. /\ Maker.copy \in Copies /\ Maker.copy.id \in PositionIds
        /\ Maker.copy.exec = bought[Maker.copy.id]
      BY <1>4, CopyFields DEF Closes, CopiesFresh, ExecBought, Growing, Writing
  <2>2. \/ Maker'.draft.status = "closed"
        \/ sold[Maker.copy.id] < bought[Maker.copy.id]
      BY <1>1, <1>4, <2>1, NotSoldOut DEF Closes, PositionsTyped
  <2>3. \A p \in PositionIds : p # Maker.copy.id => ~SellingOut(p)
      BY <1>4 DEF Closes, SellingOut, Writing
  <2>4. QED
      BY <1>4, <2>2, <2>3 DEF Closes, SoldLess, SamePositions, SellingOut, Writing
<1>5. CASE Writes
  <2>1. Maker.draft \in Copies /\ Maker.draft.id \in PositionIds /\ Maker.pc = "write"
      BY <1>5, CopyFields DEF Writes
  <2>2. /\ position'[Maker.draft.id].status = Maker.draft.status
        /\ \A p \in PositionIds : p # Maker.draft.id => position'[p] = position[p]
      BY <1>1, <1>5, <2>1 DEF Writes, RowOf, PositionsTyped
  <2>3. position[Maker.draft.id].status = "opened"
      BY <2>1 DEF KeepsOpened, DraftReplaces, Writing
  <2>4. UNCHANGED <<bought, sold>>
      BY <1>5 DEF Writes
  <2>5. \A p \in PositionIds : position'[p].status = "opened"
            => position[p].status = "opened" /\ ~SellingOut(p)
      BY <2>1, <2>2, <2>3 DEF SellingOut
  <2>6. QED
      BY <2>4, <2>5 DEF SoldLess
<1>6. CASE Buys
  <2>1. PICK p \in PositionIds :
            /\ position[p].status = "none"
            /\ position' = [position EXCEPT ![p] =
                    [status |-> "opened", exec |-> job.seen.executed, swap |-> FALSE]]
            /\ bought' = [bought EXCEPT ![p] = job.seen.executed]
      BY <1>6 DEF Buys
  <2>2. job.seen.executed > 0 /\ job.seen.executed \in Nat
    <3>1. Maker.pc = "save"
        BY <1>6 DEF Buys
    <3>2. QED
        BY <3>1, BusyWithOrder, OrderFields
        DEF Followed, JobFollowed, HasExecutedQuantity, Busy
  <2>3. sold[p] = 0
    <3>1. bought[p] = 0 /\ sold[p] <= bought[p] /\ sold[p] \in Nat
        BY <1>1, <2>1 DEF CopiesBacked, RowsBacked, SoldLess, PositionsTyped
    <3>2. QED
        BY <3>1
  <2>4. /\ bought'[p] = job.seen.executed /\ UNCHANGED sold
        /\ \A q \in PositionIds : q # p => position'[q] = position[q] /\ bought'[q] = bought[q]
      BY <1>1, <1>6, <2>1 DEF Buys, PositionsTyped
  <2>5. \A q \in PositionIds : ~SellingOut(q)
      BY <1>6 DEF Buys, SellingOut, Writing
  <2>6. QED
      BY <2>2, <2>3, <2>4, <2>5 DEF SoldLess
<1>7. CASE Grows
  <2>1. /\ Maker.copy.id \in PositionIds /\ job.seen.executed \in Nat
        /\ Maker.pc = "save"
      BY <1>7, BusyWithOrder, OrderFields, CopyFields DEF Grows, Busy
  <2>2. /\ bought'[Maker.copy.id] = bought[Maker.copy.id] + job.seen.executed
        /\ \A p \in PositionIds : p # Maker.copy.id => bought'[p] = bought[p]
      BY <1>1, <1>7, <2>1 DEF Grows, PositionsTyped
  <2>3. \A p \in PositionIds : /\ bought'[p] >= bought[p]
                               /\ bought[p] \in Nat /\ bought'[p] \in Nat /\ sold[p] \in Nat
      BY <1>1, <2>1, <2>2 DEF PositionsTyped
  <2>4. UNCHANGED <<position, sold>> /\ \A p \in PositionIds : ~SellingOut(p)
      BY <1>7, <2>1 DEF Grows, SellingOut, Writing
  <2>5. \A p \in PositionIds :
            /\ sold'[p] <= bought'[p]
            /\ position'[p].status = "opened" => sold'[p] < bought'[p]
      BY <2>3, <2>4 DEF SoldLess
  <2>6. QED
      BY <2>5 DEF SoldLess
<1>8. QED
    BY <1>1, <1>2, <1>3, <1>4, <1>5, <1>6, <1>7, SellsWithin DEF AloneStep

LEMMA KeepsWithinStep ==
    ASSUME Typed, Undisturbed, MinQuantity = 1, Followed, CopiesBacked, KeepsOpened,
           KeepsCurrent, KeepsWithin, [Next]_vars
    PROVE  KeepsWithin'
<1> SUFFICES ASSUME Calm' PROVE OthersDone' /\ WithinRemaining' /\ SoldLess'
    BY DEF KeepsWithin
<1>1. /\ Calm /\ CopiesFresh /\ ExecBought /\ OthersDone /\ WithinRemaining /\ SoldLess
    BY CalmBefore DEF KeepsCurrent, KeepsWithin
<1>2. QED
    BY <1>1, OthersDoneStep, WithinRemainingStep, SoldLessStep

LEMMA KeepsWithinInit == Init => KeepsWithin
<1> SUFFICES ASSUME Init PROVE KeepsWithin
    OBVIOUS
<1>1. Maker = IdleAgent /\ job = NoJob
    BY MakerIsAgent DEF Init, Maker
<1>2. /\ \A o \in OrderIds : orders[o] = None
      /\ \A p \in PositionIds : sold[p] = 0 /\ bought[p] = 0 /\ position[p].status = "none"
    BY DEF Init
<1>3. QED
    BY <1>1, <1>2, IdleState
    DEF KeepsWithin, OthersDone, WithinRemaining, SoldLess, Busy

\* Without a crash and a failing request the maker alone leaves no order behind and
\* has no order to sell that is for more than is left of its position.
THEOREM LedgerKeepsWithin ==
    ASSUME Undisturbed, MinQuantity = 1 PROVE Spec => []KeepsWithin
<1>1. Init => CopiesBacked
    BY IdleState DEF Init, CopiesBacked, RowsBacked, Backed
<1>2. Typed /\ CopiesBacked /\ [Next]_vars => CopiesBacked'
    BY BackedStep
<1>3. /\ Typed /\ Followed /\ CopiesBacked /\ KeepsOpened /\ KeepsCurrent /\ KeepsWithin
      /\ [Next]_vars
      => KeepsWithin'
    BY KeepsWithinStep
<1>4. QED
    BY <1>1, <1>2, <1>3, KeepsWithinInit, LedgerTyped, LedgerFollowed, LedgerKeepsOpened,
       LedgerKeepsCurrent, PTL DEF Spec

\* "User can have own asset which bot is not allowed to sell!": a position's SELL orders
\* never sum up to more than was bought for it, when the maker works alone, the minimum
\* is one lot, and there was no crash and no failing request.  A larger minimum is sold
\* although less was bought (FormatQuantity).
THEOREM LedgerSoldWithinBought ==
    ASSUME Undisturbed, MinQuantity = 1
    PROVE  Spec => [](crashes = 0 /\ faults = 0 => SoldWithinBought)
<1>1. KeepsWithin => (crashes = 0 /\ faults = 0 => SoldWithinBought)
    BY DEF KeepsWithin, Calm, SoldLess, SoldWithinBought
<1>2. QED
    BY <1>1, LedgerKeepsWithin, PTL
=============================================================================
