------------------------- MODULE WaitExecutionProofs ------------------------
(***************************************************************************)
(* Proofs about WaitExecution, for every quantity, every bound of the      *)
(* timer, of the nested calls and of the failures.                         *)
(***************************************************************************)
EXTENDS WaitExecution, TLAPS

-----------------------------------------------------------------------------
(***************************************************************************)
(* The inductive invariant.                                                *)
(***************************************************************************)

\* The copy is the order, or what it was before the exchange worked on it.
CopyIsOld == Follows(held, order)

\* A result is there only on the way out, and it is final.
ResultIsFinal ==
    /\ waiter.result # "none" <=>
          waiter.pc \in {"return", "returned"} \/ (waiter.pc = "reply" /\ waiter.then = "return")
    /\ waiter.result = "ok" =>
          IsSettled(order) /\ HasExecutedQuantity(order) /\ held = order
    /\ waiter.result = "error" /\ faults = 0 =>
          IsSettled(order) /\ ~HasExecutedQuantity(order)
    /\ waiter.pc = "recover" /\ faults = 0 => IsSettled(order)

CacheIsCopy ==
    /\ waiter.pc = "find" => cached = held
    /\ waiter.pc = "returned" =>
          cached = NoOrder \/ (waiter.result = "ok" /\ cached = order)

\* The call is somewhere between its first and its last nested call, whose channels
\* are open.
DepthInRange ==
    /\ waiter.pc \in {"find", "returned"} <=> waiter.depth = 0
    /\ waiter.pc = "reply" /\ waiter.then = "enter" => waiter.depth < MaxAttempts
    /\ waiter.pc \in {"receive", "query", "cancel", "recover", "reply"} => open[waiter.depth]

\* Calls not yet made have no poller, and no two pollers are in their loops.
Active(d) == poller[d].pc \in {"run", "send", "receive"}

NotYet(d) == d > waiter.depth \/ (d = waiter.depth /\ waiter.pc = "enter")

NoneBeforeItsCall ==
    waiter.pc \notin {"return", "returned"} =>
        \A d \in Attempts : NotYet(d) => poller[d].pc = "off"

OneActive == \A d, e \in Attempts : Active(d) /\ Active(e) => d = e

\* A poller waits for the answer to a cancel only while the waiter works on it, and
\* is then told to stop.
CancelIsAnswered ==
    \A d \in Attempts :
        poller[d].pc = "receive" /\ poller[d].at \in CancelSignals =>
            /\ waiter.depth = d
            /\ \/ waiter.pc \in {"cancel", "recover"}
               \/ waiter.pc = "reply" /\ waiter.then # "receive"

TimerInRange ==
    \A d \in Attempts :
        /\ poller[d].pc \in {"send", "receive"} /\ poller[d].at = "tick" => timer < TimerLimit
        /\ poller[d].pc = "run" /\ poller[d].at = "ttl" => timer = 0

IInv ==
    /\ TypeOK
    /\ CopyIsOld
    /\ ResultIsFinal
    /\ CacheIsCopy
    /\ DepthInRange
    /\ OnePollerPerOrder
    /\ NoneBeforeItsCall
    /\ OneActive
    /\ CancelIsAnswered
    /\ TimerInRange

-----------------------------------------------------------------------------
USE BoundsAssumption, QtyAssumption

\* An order that goes on from where another has gone on to follows the first.
LEMMA FollowsOn ==
    ASSUME NEW o \in Orders, NEW p \in Orders, NEW q \in Orders,
           Follows(o, p), Progress(p, q)
    PROVE  Follows(o, q)
BY DEF Orders, Follows, Progress, IsLive, IsNew

\* A settled order goes on to nothing.
LEMMA SettledStays ==
    ASSUME NEW o \in Orders, NEW p, IsSettled(o)
    PROVE  ~Progress(o, p)
BY DEF Orders, Progress, IsLive, IsSettled

LEMMA LiveOrSettled ==
    ASSUME NEW o \in Orders
    PROVE  IsLive(o) <=> ~IsSettled(o)
BY DEF Orders, IsLive, IsSettled, Statuses

\* A canceled order is one of the orders, and follows the order before.
LEMMA Canceled ==
    ASSUME NEW o \in Orders, IsLive(o)
    PROVE  LET p == [o EXCEPT !.status = "CANCELED"] IN
           /\ p \in Orders
           /\ Progress(o, p)
           /\ IsSettled(p)
           /\ HasExecutedQuantity(p) <=> HasExecutedQuantity(o)
BY DEF Orders, IsLive, Statuses, WellFormed, Progress, IsNew, IsSettled, HasExecutedQuantity

LEMMA InitInv == Init => IInv
<1> SUFFICES ASSUME Init PROVE IInv
    OBVIOUS
<1>1. TypeOK
  BY DEF Init, TypeOK, WaiterStates, PollerStates, Halted, Attempts
<1>2. CopyIsOld /\ ResultIsFinal /\ CacheIsCopy /\ DepthInRange
  BY DEF Init, CopyIsOld, ResultIsFinal, CacheIsCopy, DepthInRange
<1>3. OnePollerPerOrder /\ NoneBeforeItsCall /\ OneActive /\ CancelIsAnswered /\ TimerInRange
  BY DEF Init, OnePollerPerOrder, NoneBeforeItsCall, OneActive, Active, CancelIsAnswered,
         TimerInRange, Halted, Attempts
<1> QED
  BY <1>1, <1>2, <1>3 DEF IInv

LEMMA ExchangeInv == IInv /\ Exchange => IInv'
<1> SUFFICES ASSUME IInv, Exchange PROVE IInv'
    OBVIOUS
<1>1. TypeOK'
  BY DEF IInv, TypeOK, Exchange
<1>2. CopyIsOld'
  BY FollowsOn DEF IInv, TypeOK, Exchange, CopyIsOld
<1>3. ResultIsFinal' /\ CacheIsCopy'
  BY SettledStays DEF IInv, TypeOK, Exchange, ResultIsFinal, CacheIsCopy
<1>4. DepthInRange' /\ OnePollerPerOrder' /\ NoneBeforeItsCall' /\ OneActive'
      /\ CancelIsAnswered' /\ TimerInRange'
  BY DEF IInv, Exchange, DepthInRange, OnePollerPerOrder, NoneBeforeItsCall, NotYet,
         OneActive, Active, CancelIsAnswered, TimerInRange
<1> QED
  BY <1>1, <1>2, <1>3, <1>4 DEF IInv

-----------------------------------------------------------------------------
(***************************************************************************)
(* The waiter's steps.                                                     *)
(***************************************************************************)

\* A settled copy is the order.
LEMMA SettledCopy ==
    ASSUME IInv, IsSettled(held)
    PROVE  order = held
BY SettledStays DEF IInv, TypeOK, CopyIsOld, Follows

\* What is found done is settled, and executed something.
LEMMA DoneIsSettled ==
    ASSUME held \in Orders, FoundDone
    PROVE  IsSettled(held) /\ HasExecutedQuantity(held)
BY DEF Orders, WellFormed, FoundDone, IsFilled, IsCanceled, IsSettled, HasExecutedQuantity

\* The waiter's steps between Enter and Return leave the pollers alone.
LEMMA WaiterMoves ==
    ASSUME IInv,
           waiter.pc \in {"receive", "query", "cancel", "recover"},
           waiter'.depth = waiter.depth,
           waiter'.pc # "enter",
           UNCHANGED <<poller, timer>>
    PROVE  OnePollerPerOrder' /\ NoneBeforeItsCall' /\ OneActive' /\ TimerInRange'
BY DEF IInv, OnePollerPerOrder, NoneBeforeItsCall, NotYet, OneActive, Active, TimerInRange

\* After a cancel was asked for, the waiter keeps the poller waiting until it can
\* tell it to stop.
LEMMA CancelGoesOn ==
    ASSUME IInv,
           waiter.pc \in {"query", "cancel", "recover"},
           waiter'.depth = waiter.depth,
           waiter.pc # "query" => \/ waiter'.pc = "recover"
                                  \/ waiter'.pc = "reply" /\ waiter'.then # "receive",
           UNCHANGED poller
    PROVE  CancelIsAnswered'
BY DEF IInv, CancelIsAnswered

LEMMA FindInv == IInv /\ Find => IInv'
<1> SUFFICES ASSUME IInv, Find PROVE IInv'
    OBVIOUS
<1>1. /\ waiter \in WaiterStates /\ waiter.pc = "find" /\ cached = held
      /\ waiter.result = "none" /\ held \in Orders
      /\ 1 \in 0..MaxAttempts /\ waiter.depth = 0
  BY DEF IInv, TypeOK, Find, CacheIsCopy, ResultIsFinal, DepthInRange
<1>2. UNCHANGED <<order, held, cancelRequest, poller, open, timer, faults>>
  BY DEF Find
<1>3. \/ /\ waiter' = [waiter EXCEPT !.pc = "returned", !.result = "ok"]
         /\ cached' = cached /\ FoundDone
      \/ /\ waiter' = [waiter EXCEPT !.pc = "returned", !.result = "error"]
         /\ cached' = NoOrder /\ IsSettled(held) /\ ~HasExecutedQuantity(held)
      \/ /\ waiter' = [waiter EXCEPT !.pc = "enter", !.depth = 1]
         /\ cached' = cached
  BY DEF Find, DeleteBinanceOrder
<1>4. /\ waiter' \in WaiterStates
      /\ \/ /\ waiter'.pc = "returned" /\ waiter'.result = "ok" /\ cached' = held
            /\ order = held /\ IsSettled(held) /\ HasExecutedQuantity(held)
         \/ /\ waiter'.pc = "returned" /\ waiter'.result = "error" /\ cached' = NoOrder
            /\ order = held /\ IsSettled(held) /\ ~HasExecutedQuantity(held)
         \/ waiter'.pc = "enter" /\ waiter'.result = "none" /\ cached' = held
      /\ waiter'.depth = IF waiter'.pc = "enter" THEN 1 ELSE 0
  BY <1>1, <1>3, SettledCopy, DoneIsSettled DEF WaiterStates
<1>5. TypeOK' /\ CopyIsOld'
  BY <1>1, <1>2, <1>4 DEF IInv, TypeOK, CopyIsOld
<1>6. ResultIsFinal' /\ CacheIsCopy'
  BY <1>2, <1>4 DEF ResultIsFinal, CacheIsCopy
<1>7. DepthInRange' /\ CancelIsAnswered' /\ TimerInRange'
  BY <1>1, <1>2, <1>4 DEF IInv, DepthInRange, CancelIsAnswered, TimerInRange
<1>8. \A d \in Attempts : poller[d].pc = "off"
  BY <1>1 DEF IInv, NoneBeforeItsCall, NotYet, Attempts
<1>9. OnePollerPerOrder' /\ NoneBeforeItsCall' /\ OneActive'
  BY <1>2, <1>4, <1>8 DEF OnePollerPerOrder, NoneBeforeItsCall, OneActive, Active, Attempts
<1> QED
  BY <1>5, <1>6, <1>7, <1>9 DEF IInv

LEMMA EnterInv == IInv /\ Enter => IInv'
<1> SUFFICES ASSUME IInv, Enter PROVE IInv'
    OBVIOUS
<1> DEFINE d == waiter.depth
<1>1. /\ waiter \in WaiterStates /\ waiter.pc = "enter" /\ waiter.result = "none"
      /\ d \in Attempts
      /\ open \in [Attempts -> BOOLEAN]
      /\ poller \in [Attempts -> PollerStates]
      /\ faults \in 0..MaxFaults
  BY DEF IInv, TypeOK, Enter, ResultIsFinal, DepthInRange, WaiterStates, Attempts
<1>2. /\ UNCHANGED <<order, held, cached, cancelRequest>>
      /\ open' = [open EXCEPT ![d] = TRUE] /\ timer' = 0
  BY DEF Enter
<1>3. \/ /\ waiter' = [waiter EXCEPT !.pc = "receive"]
         /\ poller' = [poller EXCEPT ![d] = [pc |-> "run", at |-> "top"]]
         /\ faults' = faults
      \/ /\ waiter' = [waiter EXCEPT !.pc = "return", !.result = "error"]
         /\ poller' = poller
         /\ faults < MaxFaults /\ faults' = faults + 1
  BY DEF Enter, RequestFails, Leave
<1>4. /\ waiter' \in WaiterStates /\ waiter'.depth = d
      /\ \/ /\ waiter'.pc = "receive" /\ waiter'.result = "none"
            /\ poller'[d] = [pc |-> "run", at |-> "top"]
         \/ /\ waiter'.pc = "return" /\ waiter'.result = "error" /\ faults' # 0
            /\ poller' = poller
  <2>1. CASE waiter' = [waiter EXCEPT !.pc = "receive"]
             /\ poller' = [poller EXCEPT ![d] = [pc |-> "run", at |-> "top"]]
    BY <1>1, <2>1 DEF WaiterStates
  <2>2. CASE /\ waiter' = [waiter EXCEPT !.pc = "return", !.result = "error"]
             /\ poller' = poller
             /\ faults < MaxFaults /\ faults' = faults + 1
    <3>1. faults' # 0
      BY <1>1, <2>2
    <3>2. waiter' \in WaiterStates /\ waiter'.depth = d
          /\ waiter'.pc = "return" /\ waiter'.result = "error"
      BY <1>1, <2>2 DEF WaiterStates
    <3> QED
      BY <2>2, <3>1, <3>2
  <2> QED
    BY <1>3, <2>1, <2>2
<1>5. \A e \in Attempts : e # d => poller'[e] = poller[e]
  BY <1>1, <1>3
<1>6. [pc |-> "run", at |-> "top"] \in PollerStates
  BY DEF PollerStates, Stages
<1>7. TypeOK'
  <2>1. poller' \in [Attempts -> PollerStates]
    BY <1>1, <1>3, <1>6
  <2>2. open' \in [Attempts -> BOOLEAN] /\ faults' \in 0..MaxFaults /\ timer' \in 0..TimerLimit
    BY <1>1, <1>2, <1>3
  <2> QED
    BY <1>2, <1>4, <2>1, <2>2 DEF IInv, TypeOK
<1>8. CopyIsOld' /\ ResultIsFinal' /\ CacheIsCopy'
  BY <1>2, <1>4 DEF IInv, CopyIsOld, ResultIsFinal, CacheIsCopy
<1>9. DepthInRange'
  BY <1>1, <1>2, <1>4 DEF IInv, DepthInRange, Attempts
<1>10. OnePollerPerOrder' /\ NoneBeforeItsCall'
  BY <1>1, <1>4, <1>5 DEF IInv, OnePollerPerOrder, NoneBeforeItsCall, NotYet, Attempts
<1>11. \A e \in Attempts : ~Active(e)
  BY <1>1 DEF IInv, OnePollerPerOrder, NoneBeforeItsCall, NotYet, Active, Attempts
<1>12. OneActive' /\ CancelIsAnswered' /\ TimerInRange'
  BY <1>1, <1>2, <1>4, <1>5, <1>11 DEF IInv, OneActive, Active, CancelIsAnswered, TimerInRange
<1> QED
  BY <1>7, <1>8, <1>9, <1>10, <1>12 DEF IInv

LEMMA QueryInv == IInv /\ Query => IInv'
<1> SUFFICES ASSUME IInv, Query PROVE IInv'
    OBVIOUS
<1>1. /\ waiter \in WaiterStates /\ waiter.pc = "query" /\ waiter.result = "none"
      /\ order \in Orders
  BY DEF IInv, TypeOK, Query, ResultIsFinal
<1>2. /\ UNCHANGED <<order, cancelRequest, poller, open, timer, faults>>
      /\ held' = order /\ cached' = order
  BY DEF Query, TakeAnswer
<1>3. /\ waiter' \in WaiterStates /\ waiter'.depth = waiter.depth
      /\ \/ waiter'.pc = "reply" /\ waiter'.then = "receive" /\ waiter'.result = "none"
         \/ /\ \/ waiter'.pc = "return"
               \/ waiter'.pc = "reply" /\ waiter'.then = "return"
            /\ IsSettled(order)
            /\ waiter'.result = IF HasExecutedQuantity(order) THEN "ok" ELSE "error"
  BY <1>1, LiveOrSettled DEF Query, ReplyThen, Leave, StopThen, Result, WaiterStates
<1>4. TypeOK' /\ CopyIsOld'
  BY <1>1, <1>2, <1>3 DEF IInv, TypeOK, CopyIsOld, Follows
<1>5. ResultIsFinal' /\ CacheIsCopy' /\ DepthInRange'
  BY <1>1, <1>2, <1>3 DEF IInv, ResultIsFinal, CacheIsCopy, DepthInRange
<1>6. OnePollerPerOrder' /\ NoneBeforeItsCall' /\ OneActive' /\ TimerInRange' /\ CancelIsAnswered'
  BY <1>1, <1>2, <1>3, WaiterMoves, CancelGoesOn
<1> QED
  BY <1>4, <1>5, <1>6 DEF IInv

LEMMA QueryFailsInv == IInv /\ QueryFails => IInv'
<1> SUFFICES ASSUME IInv, QueryFails PROVE IInv'
    OBVIOUS
<1>1. /\ waiter \in WaiterStates /\ waiter.pc = "query" /\ waiter.result = "none"
      /\ faults \in 0..MaxFaults
  BY DEF IInv, TypeOK, QueryFails, ResultIsFinal
<1>2. UNCHANGED <<order, held, cached, cancelRequest, poller, open, timer>>
  BY DEF QueryFails
<1>3. /\ waiter' \in WaiterStates /\ waiter'.depth = waiter.depth /\ waiter'.pc = "reply"
      /\ faults' \in 0..MaxFaults
      /\ \/ waiter'.then = "receive" /\ waiter'.result = "none"
         \/ /\ waiter'.then = "return" /\ waiter'.result = "error"
            /\ faults' = 0 => IsSettled(order) /\ ~HasExecutedQuantity(order)
  <2>1. /\ faults' \in 0..MaxFaults
        /\ faults' = 0 => IsSettled(order) /\ ~HasExecutedQuantity(order) /\ StopThen("error")
    BY <1>1 DEF QueryFails, RequestFails
  <2>2. StopThen("error") \/ ReplyThen("receive")
    BY DEF QueryFails
  <2>3. /\ waiter' \in WaiterStates /\ waiter'.depth = waiter.depth /\ waiter'.pc = "reply"
        /\ \/ waiter'.then = "receive" /\ waiter'.result = "none"
           \/ waiter'.then = "return" /\ waiter'.result = "error"
    BY <1>1, <2>2 DEF ReplyThen, StopThen, WaiterStates
  <2> QED
    BY <2>1, <2>3
<1>4. TypeOK' /\ CopyIsOld'
  BY <1>2, <1>3 DEF IInv, TypeOK, CopyIsOld
<1>5. ResultIsFinal' /\ CacheIsCopy' /\ DepthInRange'
  BY <1>1, <1>2, <1>3 DEF IInv, ResultIsFinal, CacheIsCopy, DepthInRange
<1>6. OnePollerPerOrder' /\ NoneBeforeItsCall' /\ OneActive' /\ TimerInRange' /\ CancelIsAnswered'
  BY <1>1, <1>2, <1>3, WaiterMoves, CancelGoesOn
<1> QED
  BY <1>4, <1>5, <1>6 DEF IInv

LEMMA CancelInv == IInv /\ Cancel => IInv'
<1> SUFFICES ASSUME IInv, Cancel PROVE IInv'
    OBVIOUS
<1>1. /\ waiter \in WaiterStates /\ waiter.pc = "cancel" /\ waiter.result = "none"
      /\ order \in Orders /\ IsLive(order)
  BY DEF IInv, TypeOK, Cancel, ResultIsFinal
<1>2. /\ UNCHANGED <<cached, cancelRequest, poller, open, timer, faults>>
      /\ order' = [order EXCEPT !.status = "CANCELED"] /\ held' = order'
  BY DEF Cancel, TakeAnswer
<1>3. order' \in Orders /\ IsSettled(order') /\ (HasExecutedQuantity(order') <=> HasExecutedQuantity(order))
  BY <1>1, <1>2, Canceled
<1>4. /\ waiter' \in WaiterStates /\ waiter'.depth = waiter.depth
      /\ waiter'.pc = "reply" /\ waiter'.then = "return"
      /\ waiter'.result = IF HasExecutedQuantity(order) THEN "ok" ELSE "error"
  BY <1>1 DEF Cancel, StopThen, Result, WaiterStates
<1>5. TypeOK' /\ CopyIsOld'
  BY <1>2, <1>3, <1>4 DEF IInv, TypeOK, CopyIsOld, Follows
<1>6. ResultIsFinal'
  BY <1>2, <1>3, <1>4 DEF ResultIsFinal, IsSettled, HasExecutedQuantity
<1>7. CacheIsCopy' /\ DepthInRange'
  BY <1>1, <1>2, <1>4 DEF IInv, CacheIsCopy, DepthInRange
<1>8. OnePollerPerOrder' /\ NoneBeforeItsCall' /\ OneActive' /\ TimerInRange' /\ CancelIsAnswered'
  BY <1>1, <1>2, <1>4, WaiterMoves, CancelGoesOn
<1> QED
  BY <1>5, <1>6, <1>7, <1>8 DEF IInv

LEMMA CancelRefusedInv == IInv /\ CancelRefused => IInv'
<1> SUFFICES ASSUME IInv, CancelRefused PROVE IInv'
    OBVIOUS
<1>1. /\ waiter \in WaiterStates /\ waiter.pc = "cancel" /\ waiter.result = "none"
      /\ faults \in 0..MaxFaults
  BY DEF IInv, TypeOK, CancelRefused, ResultIsFinal
<1>2. UNCHANGED <<order, held, cached, cancelRequest, poller, open, timer>>
  BY DEF CancelRefused
<1>3. /\ waiter' \in WaiterStates /\ waiter'.depth = waiter.depth
      /\ waiter'.pc = "recover" /\ waiter'.result = "none"
      /\ faults' \in 0..MaxFaults
      /\ faults' = 0 => IsSettled(order)
  BY <1>1 DEF CancelRefused, RequestFails, WaiterStates
<1>4. TypeOK' /\ CopyIsOld'
  BY <1>2, <1>3 DEF IInv, TypeOK, CopyIsOld
<1>5. ResultIsFinal' /\ CacheIsCopy' /\ DepthInRange'
  BY <1>1, <1>2, <1>3 DEF IInv, ResultIsFinal, CacheIsCopy, DepthInRange
<1>6. OnePollerPerOrder' /\ NoneBeforeItsCall' /\ OneActive' /\ TimerInRange' /\ CancelIsAnswered'
  BY <1>1, <1>2, <1>3, WaiterMoves, CancelGoesOn
<1> QED
  BY <1>4, <1>5, <1>6 DEF IInv

LEMMA RecoverInv == IInv /\ Recover => IInv'
<1> SUFFICES ASSUME IInv, Recover PROVE IInv'
    OBVIOUS
<1>1. /\ waiter \in WaiterStates /\ waiter.pc = "recover" /\ waiter.result = "none"
      /\ order \in Orders
  BY DEF IInv, TypeOK, Recover, ResultIsFinal
<1>2. /\ UNCHANGED <<order, cached, cancelRequest, poller, open, timer, faults>>
      /\ held' = order
  BY DEF Recover, TakeAnswer
<1>3. /\ waiter' \in WaiterStates /\ waiter'.depth = waiter.depth /\ waiter'.pc = "reply"
      /\ \/ waiter'.then = "enter" /\ waiter'.result = "none" /\ waiter.depth < MaxAttempts
         \/ /\ waiter'.then = "return" /\ IsSettled(order)
            /\ waiter'.result = IF HasExecutedQuantity(order) THEN "ok" ELSE "error"
  BY <1>1, LiveOrSettled DEF Recover, Retry, ReplyThen, StopThen, Result, WaiterStates
<1>4. TypeOK' /\ CopyIsOld'
  BY <1>1, <1>2, <1>3 DEF IInv, TypeOK, CopyIsOld, Follows
<1>5. ResultIsFinal' /\ CacheIsCopy' /\ DepthInRange'
  BY <1>1, <1>2, <1>3 DEF IInv, ResultIsFinal, CacheIsCopy, DepthInRange
<1>6. OnePollerPerOrder' /\ NoneBeforeItsCall' /\ OneActive' /\ TimerInRange' /\ CancelIsAnswered'
  BY <1>1, <1>2, <1>3, WaiterMoves, CancelGoesOn
<1> QED
  BY <1>4, <1>5, <1>6 DEF IInv

LEMMA RecoverFailsInv == IInv /\ RecoverFails => IInv'
<1> SUFFICES ASSUME IInv, RecoverFails PROVE IInv'
    OBVIOUS
<1>1. /\ waiter \in WaiterStates /\ waiter.pc = "recover" /\ waiter.result = "none"
      /\ faults \in 0..MaxFaults
  BY DEF IInv, TypeOK, RecoverFails, ResultIsFinal
<1>2. UNCHANGED <<order, held, cached, cancelRequest, poller, open, timer>>
  BY DEF RecoverFails
<1>3. /\ waiter' \in WaiterStates /\ waiter'.depth = waiter.depth
      /\ waiter'.pc = "reply" /\ waiter'.then = "return" /\ waiter'.result = "error"
      /\ faults' \in 0..MaxFaults /\ faults' # 0
  <2>1. faults' \in 0..MaxFaults /\ faults' # 0
    BY <1>1 DEF RecoverFails, RequestFails
  <2>2. StopThen("error")
    BY DEF RecoverFails
  <2> QED
    BY <1>1, <2>1, <2>2 DEF StopThen, WaiterStates
<1>4. TypeOK' /\ CopyIsOld'
  BY <1>2, <1>3 DEF IInv, TypeOK, CopyIsOld
<1>5. ResultIsFinal' /\ CacheIsCopy' /\ DepthInRange'
  BY <1>1, <1>2, <1>3 DEF IInv, ResultIsFinal, CacheIsCopy, DepthInRange
<1>6. OnePollerPerOrder' /\ NoneBeforeItsCall' /\ OneActive' /\ TimerInRange' /\ CancelIsAnswered'
  BY <1>1, <1>2, <1>3, WaiterMoves, CancelGoesOn
<1> QED
  BY <1>4, <1>5, <1>6 DEF IInv

LEMMA ReturnInv == IInv /\ Return => IInv'
<1> SUFFICES ASSUME IInv, Return PROVE IInv'
    OBVIOUS
<1>1. /\ waiter \in WaiterStates /\ waiter.pc = "return"
      /\ waiter.depth \in Attempts /\ waiter.depth - 1 \in 0..MaxAttempts
      /\ open \in [Attempts -> BOOLEAN]
  BY DEF IInv, TypeOK, Return, DepthInRange, WaiterStates, Attempts
<1>2. /\ UNCHANGED <<order, held, cancelRequest, poller, timer, faults>>
      /\ cached' = NoOrder /\ open' = [open EXCEPT ![waiter.depth] = FALSE]
  BY DEF Return, DeleteBinanceOrder, CloseChannels
<1>3. /\ waiter' \in WaiterStates
      /\ waiter'.depth = waiter.depth - 1
      /\ waiter'.result = waiter.result
      /\ \/ waiter'.pc = "returned" /\ waiter'.depth = 0
         \/ waiter'.pc = "return" /\ waiter'.depth >= 1
  <2>1. CASE waiter.depth = 1
    <3>1. waiter' = [waiter EXCEPT !.depth = 0, !.pc = "returned"]
      BY <2>1 DEF Return
    <3>2. 0 \in 0..MaxAttempts
      OBVIOUS
    <3>3. waiter' \in WaiterStates
      BY <1>1, <3>1, <3>2 DEF WaiterStates
    <3>4. waiter'.depth = 0 /\ waiter'.result = waiter.result /\ waiter'.pc = "returned"
      BY <1>1, <3>1 DEF WaiterStates
    <3> QED
      BY <2>1, <3>3, <3>4
  <2>2. CASE waiter.depth # 1
    <3>1. waiter' = [waiter EXCEPT !.depth = @ - 1, !.pc = "return"]
      BY <1>1, <2>2 DEF Return
    <3>2. waiter.depth - 1 >= 1
      BY <1>1, <2>2 DEF Attempts
    <3>3. waiter' \in WaiterStates
      BY <1>1, <3>1 DEF WaiterStates
    <3>4. waiter'.depth = waiter.depth - 1 /\ waiter'.result = waiter.result /\ waiter'.pc = "return"
      BY <1>1, <3>1 DEF WaiterStates
    <3> QED
      BY <3>2, <3>3, <3>4
  <2> QED
    BY <2>1, <2>2
<1>4. TypeOK' /\ CopyIsOld'
  BY <1>1, <1>2, <1>3 DEF IInv, TypeOK, CopyIsOld
<1>5. ResultIsFinal' /\ CacheIsCopy' /\ DepthInRange'
  BY <1>1, <1>2, <1>3 DEF IInv, ResultIsFinal, CacheIsCopy, DepthInRange
<1>6. OnePollerPerOrder' /\ NoneBeforeItsCall' /\ OneActive' /\ TimerInRange' /\ CancelIsAnswered'
  BY <1>1, <1>2, <1>3 DEF IInv, OnePollerPerOrder, NoneBeforeItsCall, OneActive, Active,
                          TimerInRange, CancelIsAnswered, Attempts
<1> QED
  BY <1>4, <1>5, <1>6 DEF IInv

LEMMA ReceiveInv == ASSUME IInv, NEW d \in Attempts, Receive(d) PROVE IInv'
<1>1. /\ waiter \in WaiterStates /\ waiter.pc = "receive" /\ waiter.result = "none"
      /\ waiter.depth = d
      /\ poller \in [Attempts -> PollerStates]
      /\ poller[d].pc = "send"
  BY DEF IInv, TypeOK, Receive, ResultIsFinal
<1>2. /\ UNCHANGED <<order, held, cached, cancelRequest, open, timer, faults>>
      /\ poller' = [poller EXCEPT ![d].pc = "receive"]
  BY DEF Receive
<1>3. /\ poller' \in [Attempts -> PollerStates]
      /\ poller'[d].pc = "receive" /\ poller'[d].at = poller[d].at
      /\ \A e \in Attempts : e # d => poller'[e] = poller[e]
  BY <1>1, <1>2 DEF PollerStates
<1>4. poller[d].at \in Signals
  BY <1>1 DEF PollerStates
<1>5. /\ waiter' \in WaiterStates /\ waiter'.depth = d /\ waiter'.result = "none"
      /\ \/ waiter'.pc = "reply" /\ waiter'.then = "receive" /\ poller[d].at = "tick"
         \/ waiter'.pc = "query" /\ poller[d].at \in StatusSignals
         \/ waiter'.pc = "cancel" /\ poller[d].at \in CancelSignals
  BY <1>1, <1>4 DEF Receive, Obey, ReplyThen, WaiterStates, Signals
<1>6. TypeOK' /\ CopyIsOld'
  BY <1>2, <1>3, <1>5 DEF IInv, TypeOK, CopyIsOld
<1>7. ResultIsFinal' /\ CacheIsCopy' /\ DepthInRange'
  BY <1>1, <1>2, <1>5 DEF IInv, ResultIsFinal, CacheIsCopy, DepthInRange
<1>8. OnePollerPerOrder' /\ NoneBeforeItsCall'
  BY <1>1, <1>3, <1>5 DEF IInv, OnePollerPerOrder, NoneBeforeItsCall, NotYet, Attempts
<1>9. OneActive' /\ TimerInRange'
  BY <1>1, <1>2, <1>3 DEF IInv, OneActive, Active, TimerInRange
<1>10. CancelIsAnswered'
  BY <1>1, <1>3, <1>5 DEF IInv, CancelIsAnswered, StatusSignals, CancelSignals
<1> QED
  BY <1>6, <1>7, <1>8, <1>9, <1>10 DEF IInv

-----------------------------------------------------------------------------
(***************************************************************************)
(* The poller's steps.                                                     *)
(***************************************************************************)

\* A step of the active poller d leads within its loop, to a signal or to its end.
PollerMoves(d) ==
    /\ Active(d)
    /\ poller' = [poller EXCEPT ![d] = poller'[d]]
    /\ poller'[d] \in PollerStates
    /\ poller'[d].pc \in {"run", "send", "done", "makeSwap", "lockBuy", "panicked"}
    /\ timer' \in 0..TimerLimit
    /\ poller'[d].pc = "send" /\ poller'[d].at = "tick" => timer' < TimerLimit
    /\ poller'[d].pc = "run" /\ poller'[d].at = "ttl" => timer' = 0

\* It disturbs none of the invariants about the pollers.
LEMMA PollerMovesInv ==
    ASSUME IInv, NEW d \in Attempts, PollerMoves(d)
    PROVE  /\ poller' \in [Attempts -> PollerStates]
           /\ OneActive'
           /\ TimerInRange'
           /\ \A e \in Attempts : e # d => poller'[e] = poller[e]
<1>1. poller \in [Attempts -> PollerStates]
  BY DEF IInv, TypeOK
<1>2. poller' \in [Attempts -> PollerStates] /\ \A e \in Attempts : e # d => poller'[e] = poller[e]
  BY <1>1 DEF PollerMoves
<1>3. \A e \in Attempts : e # d => ~Active(e)
  BY DEF IInv, OneActive, PollerMoves
<1>4. OneActive'
  BY <1>2, <1>3 DEF OneActive, Active
<1>5. TimerInRange'
  BY <1>2, <1>3 DEF PollerMoves, TimerInRange, Active
<1> QED
  BY <1>2, <1>4, <1>5

\* What is left is the waiter's side.
LEMMA PollInv ==
    ASSUME IInv, NEW d \in Attempts, PollerMoves(d),
           UNCHANGED <<order, held, cached, waiter, open, faults>>,
           cancelRequest' \in BOOLEAN
    PROVE  IInv'
<1>1. /\ poller' \in [Attempts -> PollerStates] /\ OneActive' /\ TimerInRange'
      /\ \A e \in Attempts : e # d => poller'[e] = poller[e]
  BY PollerMovesInv
<1>2. TypeOK'
  BY <1>1 DEF IInv, TypeOK, PollerMoves
<1>3. CopyIsOld' /\ ResultIsFinal' /\ CacheIsCopy' /\ DepthInRange'
  BY DEF IInv, CopyIsOld, ResultIsFinal, CacheIsCopy, DepthInRange
<1>4. OnePollerPerOrder' /\ NoneBeforeItsCall' /\ CancelIsAnswered'
  BY <1>1 DEF IInv, OnePollerPerOrder, NoneBeforeItsCall, NotYet, CancelIsAnswered,
              PollerMoves, Active
<1> QED
  BY <1>1, <1>2, <1>3, <1>4 DEF IInv

\* An answer other than "stop" sends the poller back into its loop.
LEMMA ResumeMoves ==
    ASSUME IInv, NEW d \in Attempts, Resume(d),
           poller[d].pc = "receive", poller[d].at \notin CancelSignals
    PROVE  PollerMoves(d)
<1>1. /\ poller \in [Attempts -> PollerStates] /\ timer \in 0..TimerLimit
      /\ poller[d].at \in StatusSignals \cup {"tick"}
      /\ poller[d].at = "tick" => timer < TimerLimit
  BY DEF IInv, TypeOK, TimerInRange, PollerStates, Signals
<1>2. /\ \/ /\ poller[d].at = "timerStatus" /\ GoTo(d, "ttl") /\ timer' = 0
         \/ poller[d].at = "tick" /\ GoTo(d, "top") /\ timer' = timer + 1
         \/ /\ \E stage \in {"top", "nextSwap", "user"} : GoTo(d, stage)
            /\ timer' = timer
         \/ /\ \E place \in {"swapCancel", "riskCancel"} : Signal(d, place)
            /\ timer' = timer
  BY <1>1 DEF Resume, TimerAfter, StatusSignals
<1>3. timer' \in 0..TimerLimit
  BY <1>1, <1>2
<1>4. \/ /\ \E stage \in Stages : poller' = [poller EXCEPT ![d] = [pc |-> "run", at |-> stage]]
                                  /\ (stage = "ttl" => timer' = 0)
      \/ \E place \in CancelSignals : poller' = [poller EXCEPT ![d] = [pc |-> "send", at |-> place]]
  BY <1>2 DEF GoTo, Signal, Stages, CancelSignals
<1> QED
  BY <1>1, <1>3, <1>4 DEF PollerMoves, Active, PollerStates, Signals, CancelSignals

\* So does a stage of the loop.
LEMMA StageMoves ==
    ASSUME IInv, NEW d \in Attempts,
           \/ Top(d) \/ Swap(d) \/ Risk(d) \/ Profit(d) \/ Extra(d) \/ Timer(d) \/ Ttl(d)
           \/ SendClosed(d) \/ User(d)
    PROVE  PollerMoves(d)
<1>1. poller \in [Attempts -> PollerStates] /\ timer \in 0..TimerLimit
  BY DEF IInv, TypeOK
<1>2. Active(d)
  BY DEF Top, Swap, Risk, Profit, Extra, Timer, Ttl, SendClosed, User, At, Active
<1>3. /\ timer' \in 0..TimerLimit
      /\ \/ \E stage \in Stages \ {"ttl"} : GoTo(d, stage)
         \/ \E place \in Signals : Signal(d, place) /\ (place = "tick" => timer' < TimerLimit)
         \/ Halt(d, "panicked")
  <2>1. CASE Top(d)
    BY <1>1, <2>1 DEF Top, Stages, Signals, StatusSignals
  <2>2. CASE Swap(d) \/ Risk(d)
    BY <1>1, <2>2 DEF Swap, Risk, Stages, Signals, StatusSignals
  <2>3. CASE Profit(d) \/ Extra(d)
    BY <1>1, <2>3 DEF Profit, Extra, Stages, Signals, CancelSignals
  <2>4. CASE Timer(d)
    BY <1>1, <2>4 DEF Timer, Signals, StatusSignals, CancelSignals
  <2>5. CASE Ttl(d)
    <3>1. timer = 0
      BY <2>5 DEF IInv, TimerInRange, Ttl, At
    <3> QED
      BY <1>1, <2>5, <3>1 DEF Ttl, Stages, Signals, CancelSignals
  <2>6. CASE SendClosed(d)
    BY <1>1, <2>6 DEF SendClosed
  <2>7. CASE User(d)
    BY <1>1, <2>7 DEF User, Stages, Signals, CancelSignals
  <2> QED
    BY <2>1, <2>2, <2>3, <2>4, <2>5, <2>6, <2>7
<1>4. \/ \E stage \in Stages \ {"ttl"} : poller' = [poller EXCEPT ![d] = [pc |-> "run", at |-> stage]]
      \/ \E place \in Signals : /\ poller' = [poller EXCEPT ![d] = [pc |-> "send", at |-> place]]
                                /\ (place = "tick" => timer' < TimerLimit)
      \/ poller' = [poller EXCEPT ![d] = [pc |-> "panicked", at |-> "none"]]
  BY <1>3 DEF GoTo, Signal, Halt, Halted
<1> QED
  BY <1>1, <1>2, <1>3, <1>4 DEF PollerMoves, PollerStates

LEMMA ReceiveClosedInv ==
    ASSUME IInv, NEW d \in Attempts, ReceiveClosed(d)
    PROVE  PollerMoves(d)
<1>1. poller[d].at \notin CancelSignals
  BY DEF IInv, CancelIsAnswered, DepthInRange, ReceiveClosed
<1> QED
  BY <1>1, ResumeMoves DEF ReceiveClosed

LEMMA FinishInv ==
    ASSUME IInv, NEW d \in Attempts, Finish(d),
           UNCHANGED <<order, held, cached, cancelRequest, waiter, open, faults>>
    PROVE  IInv'
<1>1. /\ poller \in [Attempts -> PollerStates] /\ timer' = timer
      /\ poller[d].pc \in {"makeSwap", "lockBuy"}
      /\ poller' = [poller EXCEPT ![d] = [pc |-> "done", at |-> "none"]]
  BY DEF IInv, TypeOK, Finish, Halt, Halted
<1>2. /\ poller' \in [Attempts -> PollerStates] /\ poller'[d].pc = "done"
      /\ \A e \in Attempts : e # d => poller'[e] = poller[e]
  BY <1>1 DEF PollerStates
<1>3. TypeOK' /\ CopyIsOld' /\ ResultIsFinal' /\ CacheIsCopy' /\ DepthInRange'
  BY <1>1, <1>2 DEF IInv, TypeOK, CopyIsOld, ResultIsFinal, CacheIsCopy, DepthInRange
<1>4. OnePollerPerOrder' /\ NoneBeforeItsCall' /\ OneActive' /\ CancelIsAnswered' /\ TimerInRange'
  BY <1>1, <1>2 DEF IInv, OnePollerPerOrder, NoneBeforeItsCall, NotYet, OneActive, Active,
                    CancelIsAnswered, TimerInRange
<1> QED
  BY <1>3, <1>4 DEF IInv

\* "stop" ends the poller, and the waiter leaves or starts the next nested call.
LEMMA StopInv ==
    ASSUME IInv, NEW d \in Attempts, Reply(d), waiter.then # "receive"
    PROVE  IInv'
<1>1. /\ waiter \in WaiterStates /\ waiter.pc = "reply" /\ waiter.depth = d
      /\ waiter.then \in {"return", "enter"}
      /\ poller \in [Attempts -> PollerStates] /\ poller[d].pc = "receive"
  BY DEF IInv, TypeOK, Reply, WaiterStates
<1>2. /\ UNCHANGED <<order, held, cached, cancelRequest, open, timer, faults>>
      /\ \E pc \in {"makeSwap", "lockBuy", "done"} :
            poller' = [poller EXCEPT ![d] = [pc |-> pc, at |-> "none"]]
  BY <1>1 DEF Reply, Stop, Halt, Halted
<1>3. /\ poller' \in [Attempts -> PollerStates]
      /\ poller'[d].pc \in {"makeSwap", "lockBuy", "done"}
      /\ \A e \in Attempts : e # d => poller'[e] = poller[e]
  BY <1>1, <1>2 DEF PollerStates
<1>4. /\ waiter' \in WaiterStates /\ waiter'.result = waiter.result
      /\ \/ waiter.then = "return" /\ waiter'.pc = "return" /\ waiter'.depth = d
         \/ waiter.then = "enter" /\ waiter'.pc = "enter" /\ waiter'.depth = d + 1
  <2>1. CASE waiter.then = "return"
    <3>1. waiter' = [waiter EXCEPT !.pc = "return", !.depth = d]
      BY <1>1, <2>1 DEF Reply
    <3> QED
      BY <1>1, <2>1, <3>1 DEF WaiterStates
  <2>2. CASE waiter.then = "enter"
    <3>1. waiter' = [waiter EXCEPT !.pc = "enter", !.depth = d + 1]
      BY <1>1, <2>2 DEF Reply
    <3>2. d + 1 \in 0..MaxAttempts
      BY <1>1, <2>2 DEF IInv, DepthInRange, Attempts
    <3>3. waiter' \in WaiterStates
      BY <1>1, <3>1, <3>2 DEF WaiterStates
    <3>4. waiter'.pc = "enter" /\ waiter'.depth = d + 1 /\ waiter'.result = waiter.result
      BY <1>1, <3>1 DEF WaiterStates
    <3> QED
      BY <2>2, <3>3, <3>4
  <2> QED
    BY <1>1, <2>1, <2>2
<1>5. TypeOK' /\ CopyIsOld'
  BY <1>2, <1>3, <1>4 DEF IInv, TypeOK, CopyIsOld
<1>6. waiter.then = "enter" => waiter.result = "none"
  BY <1>1 DEF IInv, ResultIsFinal, WaiterStates
<1>7. ResultIsFinal' /\ CacheIsCopy'
  BY <1>1, <1>2, <1>4, <1>6 DEF IInv, ResultIsFinal, CacheIsCopy
<1>8. DepthInRange' /\ OnePollerPerOrder' /\ NoneBeforeItsCall'
  BY <1>1, <1>3, <1>4 DEF IInv, DepthInRange, OnePollerPerOrder, NoneBeforeItsCall, NotYet, Attempts
<1>9. OneActive' /\ TimerInRange' /\ CancelIsAnswered'
  BY <1>1, <1>2, <1>3 DEF IInv, OneActive, Active, TimerInRange, CancelIsAnswered
<1> QED
  BY <1>5, <1>7, <1>8, <1>9 DEF IInv

\* "continue" sends the poller on, and the waiter receives again.
LEMMA ContinueInv ==
    ASSUME IInv, NEW d \in Attempts, Reply(d), waiter.then = "receive"
    PROVE  IInv'
<1>1. /\ waiter \in WaiterStates /\ waiter.pc = "reply" /\ waiter.depth = d
      /\ waiter.result = "none" /\ poller[d].pc = "receive"
  BY DEF IInv, TypeOK, Reply, ResultIsFinal
<1>2. poller[d].at \notin CancelSignals
  BY <1>1 DEF IInv, CancelIsAnswered
<1>3. /\ Resume(d)
      /\ UNCHANGED <<order, held, cached, cancelRequest, open, faults>>
      /\ waiter' = [waiter EXCEPT !.pc = "receive", !.depth = d]
  BY <1>1 DEF Reply
<1>4. PollerMoves(d)
  BY <1>1, <1>2, <1>3, ResumeMoves
<1>5. /\ poller' \in [Attempts -> PollerStates] /\ OneActive' /\ TimerInRange'
      /\ \A e \in Attempts : e # d => poller'[e] = poller[e]
  BY <1>4, PollerMovesInv
<1>6. waiter' \in WaiterStates /\ waiter'.depth = d /\ waiter'.pc = "receive" /\ waiter'.result = "none"
  BY <1>1, <1>3 DEF WaiterStates
<1>7. TypeOK' /\ CopyIsOld'
  BY <1>3, <1>4, <1>5, <1>6 DEF IInv, TypeOK, CopyIsOld, PollerMoves
<1>8. ResultIsFinal' /\ CacheIsCopy' /\ DepthInRange'
  BY <1>1, <1>3, <1>6 DEF IInv, ResultIsFinal, CacheIsCopy, DepthInRange
<1>9. OnePollerPerOrder' /\ NoneBeforeItsCall' /\ CancelIsAnswered'
  BY <1>1, <1>4, <1>5, <1>6 DEF IInv, OnePollerPerOrder, NoneBeforeItsCall, NotYet,
                                CancelIsAnswered, PollerMoves, Attempts
<1> QED
  BY <1>5, <1>7, <1>8, <1>9 DEF IInv

-----------------------------------------------------------------------------
LEMMA StepInv == IInv /\ [Next]_vars => IInv'
<1> SUFFICES ASSUME IInv, [Next]_vars PROVE IInv'
    OBVIOUS
<1>1. CASE Exchange
  BY <1>1, ExchangeInv
<1>2. CASE SetCancelRequest
  BY <1>2 DEF SetCancelRequest, IInv, TypeOK, CopyIsOld, ResultIsFinal, CacheIsCopy,
              DepthInRange, OnePollerPerOrder, NoneBeforeItsCall, NotYet, OneActive, Active,
              CancelIsAnswered, TimerInRange
<1>3. CASE Waiter
  <2>1. CASE Find \/ Enter \/ Query \/ QueryFails
    BY <2>1, FindInv, EnterInv, QueryInv, QueryFailsInv
  <2>2. CASE Cancel \/ CancelRefused \/ Recover \/ RecoverFails \/ Return
    BY <2>2, CancelInv, CancelRefusedInv, RecoverInv, RecoverFailsInv, ReturnInv
  <2>3. CASE \E d \in Attempts : Receive(d) \/ Reply(d)
    BY <2>3, ReceiveInv, StopInv, ContinueInv
  <2> QED
    BY <1>3, <2>1, <2>2, <2>3 DEF Waiter
<1>4. CASE \E d \in Attempts : Poller(d)
  <2> PICK d \in Attempts : Poll(d) \/ User(d)
    BY <1>4 DEF Poller
  <2>1. CASE User(d)
    <3>1. UNCHANGED <<order, held, cached, waiter, open, faults>> /\ cancelRequest' \in BOOLEAN
      BY <2>1 DEF User, ConsumeCancelRequest
    <3> QED
      BY <2>1, <3>1, StageMoves, PollInv
  <2>2. CASE Poll(d)
    <3>1. /\ UNCHANGED <<order, held, cached, cancelRequest, waiter, open, faults>>
          /\ cancelRequest' \in BOOLEAN
      BY <2>2 DEF Poll, IInv, TypeOK
    <3>2. CASE Finish(d)
      BY <3>1, <3>2, FinishInv
    <3>3. CASE ~Finish(d)
      <4>1. PollerMoves(d)
        BY <2>2, <3>3, StageMoves, ReceiveClosedInv DEF Poll
      <4> QED
        BY <3>1, <4>1, PollInv
    <3> QED
      BY <3>2, <3>3
  <2> QED
    BY <2>1, <2>2
<1>5. CASE UNCHANGED vars
  BY <1>5 DEF vars, IInv, TypeOK, CopyIsOld, ResultIsFinal, CacheIsCopy, DepthInRange,
              OnePollerPerOrder, NoneBeforeItsCall, NotYet, OneActive, Active,
              CancelIsAnswered, TimerInRange
<1> QED
  BY <1>1, <1>2, <1>3, <1>4, <1>5 DEF Next, Terminated

LEMMA Invariant == Spec => []IInv
BY InitInv, StepInv, PTL DEF Spec

-----------------------------------------------------------------------------
(***************************************************************************)
(* The theorems.                                                           *)
(***************************************************************************)

\* Every variable of the two goroutines keeps its type; the timer never passes its
\* limit, nor the nesting its bound (waitExecution).
THEOREM TypeCorrect == Spec => []TypeOK
<1>1. IInv => TypeOK
  BY DEF IInv
<1> QED
  BY <1>1, Invariant, PTL

\* What tryLimitOrder hands back without an error is settled, and exact.
THEOREM SuccessCorrect == Spec => []SuccessIsFinal
<1>1. IInv => SuccessIsFinal
  BY DEF IInv, ResultIsFinal, SuccessIsFinal
<1> QED
  BY <1>1, Invariant, PTL

\* An error of tryLimitOrder forgets nothing the exchange executed, unless a request
\* failed.
THEOREM ErrorCorrect == Spec => []ErrorForgetsNothing
<1>1. IInv => ErrorForgetsNothing
  BY DEF IInv, ResultIsFinal, ErrorForgetsNothing
<1> QED
  BY <1>1, Invariant, PTL

\* However often waitExecution nests, the pollers of the outer calls are stopped.
THEOREM PollerAlone == Spec => []OnePollerPerOrder
<1>1. IInv => OnePollerPerOrder
  BY DEF IInv
<1> QED
  BY <1>1, Invariant, PTL

\* The Redis copy of an order that was given up does not outlive the call.
THEOREM CacheCorrect == Spec => []CacheEndsWithTheCall
<1>1. IInv => CacheEndsWithTheCall
  BY DEF IInv, CacheIsCopy, CacheEndsWithTheCall
<1> QED
  BY <1>1, Invariant, PTL

-----------------------------------------------------------------------------
(***************************************************************************)
(* The two goroutines do what OrderOutcome allows, and nothing else: the   *)
(* safety of KeepsThePromise.                                              *)
(***************************************************************************)
LEMMA OutcomeSame ==
    ASSUME NEW o
    PROVE  /\ Outcome!IsSettled(o) <=> IsSettled(o)
           /\ Outcome!HasExecutedQuantity(o) <=> HasExecutedQuantity(o)
           /\ Outcome!Orders = Orders
           /\ \A p : Outcome!Progress(o, p) <=> Progress(o, p)
BY DEF Outcome!IsSettled, IsSettled, Outcome!HasExecutedQuantity, HasExecutedQuantity,
       Outcome!Orders, Orders, Outcome!Sides, Sides, Outcome!Statuses, Statuses,
       Outcome!WellFormed, WellFormed, Outcome!Progress, Progress, Outcome!IsLive, IsLive,
       Outcome!IsNew, IsNew

LEMMA InitKeeps == Init => Outcome!OutcomeInit
BY OutcomeSame DEF Init, Outcome!OutcomeInit, Decided

\* A step that leaves the order alone and a decided outcome as it is decides, fails
\* or stutters.
LEMMA QuietStepKeeps ==
    ASSUME IInv, IInv', order' = order, faults' \in {faults, faults + 1},
           Decided => Decided' /\ waiter'.result = waiter.result /\ held' = held /\ faults' = faults,
           ~Decided /\ Decided' /\ waiter'.result = "ok" => faults' = faults
    PROVE  Outcome!OutcomeNext \/ UNCHANGED Outcome!outcomeVars
<1>1. waiter \in WaiterStates /\ waiter' \in WaiterStates /\ faults \in Nat /\ order \in Orders
  BY DEF IInv, TypeOK
<1>2. CASE Decided
  BY <1>2 DEF Outcome!outcomeVars, Decided
<1>3. CASE ~Decided /\ ~Decided'
  BY <1>3 DEF Outcome!OutcomeNext, Outcome!Fault, Outcome!outcomeVars
<1>4. CASE ~Decided /\ Decided'
  <2>1. waiter'.result \in {"ok", "error"}
    BY <1>1, <1>4 DEF IInv, ResultIsFinal, Decided, WaiterStates
  <2>2. CASE waiter'.result = "ok"
    <3>1. IsSettled(order) /\ HasExecutedQuantity(order) /\ held' = order
      BY <2>2 DEF IInv, ResultIsFinal
    <3>2. Outcome!Conclude
      BY <1>4, <2>2, <3>1, OutcomeSame DEF Outcome!Conclude
    <3> QED
      BY <3>2 DEF Outcome!OutcomeNext
  <2>3. CASE waiter'.result = "error" /\ faults' = 0
    <3>1. IsSettled(order) /\ ~HasExecutedQuantity(order) /\ faults = 0
      BY <1>1, <2>3 DEF IInv, ResultIsFinal
    <3>2. order.executed = 0
      BY <1>1, <3>1 DEF Orders, HasExecutedQuantity
    <3>3. Outcome!Conclude
      BY <1>4, <2>3, <3>1, <3>2, OutcomeSame DEF Outcome!Conclude
    <3> QED
      BY <3>3 DEF Outcome!OutcomeNext
  <2>4. CASE waiter'.result = "error" /\ faults' # 0
    <3>1. faults' > 0
      BY <1>1, <2>4
    <3>2. Outcome!GiveUp
      BY <1>4, <2>4, <3>1 DEF Outcome!GiveUp
    <3> QED
      BY <3>2 DEF Outcome!OutcomeNext
  <2> QED
    BY <2>1, <2>2, <2>3, <2>4
<1> QED
  BY <1>2, <1>3, <1>4

\* The exchange's own step, and the bot's cancel, which is one to OrderOutcome
LEMMA ExchangeKeeps ==
    ASSUME IInv, order' \in Orders, Progress(order, order'), ~Decided => ~Decided',
           Decided => UNCHANGED <<waiter, held>>, UNCHANGED faults
    PROVE  Outcome!OutcomeNext
<1>1. Outcome!Exchange
  BY OutcomeSame DEF Outcome!Exchange, Decided
<1> QED
  BY <1>1 DEF Outcome!OutcomeNext

LEMMA WaiterKeeps ==
    ASSUME IInv, IInv', Waiter
    PROVE  Outcome!OutcomeNext \/ UNCHANGED Outcome!outcomeVars
<1>1. waiter \in WaiterStates /\ order \in Orders /\ faults \in Nat
  BY DEF IInv, TypeOK
<1>2. CASE Cancel
  <2>1. order' \in Orders /\ Progress(order, order')
    BY <1>1, <1>2, Canceled DEF Cancel
  <2>2. ~Decided /\ ~Decided' /\ faults' = faults
    BY <1>1, <1>2 DEF Cancel, StopThen, Decided, WaiterStates
  <2> QED
    BY <2>1, <2>2, ExchangeKeeps
<1>3. CASE Find \/ Query
  <2>1. order' = order /\ faults' = faults /\ ~Decided
    BY <1>3 DEF Find, Query, Decided
  <2> QED
    BY <2>1, QuietStepKeeps
<1>4. CASE QueryFails \/ CancelRefused \/ Recover \/ RecoverFails
  <2>1. order' = order /\ faults' \in {faults, faults + 1} /\ ~Decided
    BY <1>4 DEF QueryFails, CancelRefused, Recover, RecoverFails, RequestFails, Decided
  <2>2. ~Decided'
    BY <1>1, <1>4 DEF QueryFails, CancelRefused, Recover, RecoverFails, StopThen, ReplyThen,
                      Retry, Decided, WaiterStates
  <2> QED
    BY <2>1, <2>2, QuietStepKeeps
<1>5. CASE Enter
  <2>1. order' = order /\ faults' \in {faults, faults + 1} /\ ~Decided
    BY <1>5 DEF Enter, RequestFails, Decided
  <2>2. waiter'.pc = "receive" \/ waiter'.result = "error"
    BY <1>1, <1>5 DEF Enter, Leave, WaiterStates
  <2>3. ~Decided /\ Decided' /\ waiter'.result = "ok" => faults' = faults
    BY <2>2 DEF Decided
  <2> QED
    BY <2>1, <2>3, QuietStepKeeps
<1>6. CASE Return
  <2>1. waiter' = [waiter EXCEPT !.depth = @ - 1,
                                 !.pc = IF waiter.depth = 1 THEN "returned" ELSE @]
    BY <1>6 DEF Return
  <2>2. waiter.pc = "return" /\ waiter'.pc \in {"return", "returned"}
        /\ waiter'.result = waiter.result
    BY <1>1, <1>6, <2>1 DEF Return, WaiterStates
  <2>3. order' = order /\ held' = held /\ faults' = faults
    BY <1>6 DEF Return
  <2> QED
    BY <1>1, <2>2, <2>3, QuietStepKeeps DEF Decided
<1>7. ASSUME NEW d \in Attempts, Receive(d) \/ Reply(d)
      PROVE  Outcome!OutcomeNext \/ UNCHANGED Outcome!outcomeVars
  <2>1. order' = order /\ faults' = faults /\ ~Decided
    BY <1>7 DEF Receive, Reply, Decided
  <2> QED
    BY <2>1, QuietStepKeeps
<1> QED
  BY <1>2, <1>3, <1>4, <1>5, <1>6, <1>7 DEF Waiter

LEMMA StepKeeps ==
    ASSUME IInv, IInv', [Next]_vars
    PROVE  Outcome!OutcomeNext \/ UNCHANGED Outcome!outcomeVars
<1>0. faults \in Nat
  BY DEF IInv, TypeOK
<1>1. CASE Exchange
  BY <1>1, ExchangeKeeps DEF Exchange, Decided
<1>2. CASE Waiter
  BY <1>2, WaiterKeeps
<1>3. CASE UNCHANGED <<order, held, waiter, faults>>
  BY <1>3 DEF Outcome!outcomeVars, Decided
<1>4. Next => Exchange \/ Waiter \/ UNCHANGED <<order, held, waiter, faults>>
  BY DEF Next, SetCancelRequest, Poller, Poll, User, Terminated, vars
<1> QED
  BY <1>1, <1>2, <1>3, <1>4 DEF vars

\* Every behaviour of the two goroutines is one that OrderOutcome allows: one verdict,
\* exact when it is a success, an unfounded error only after a failed request.
THEOREM KeepsThePromiseSafely == Spec => Outcome!OutcomeInit /\ [][Outcome!OutcomeNext]_(Outcome!outcomeVars)
<1>1. IInv /\ IInv' /\ [Next]_vars => [Outcome!OutcomeNext]_(Outcome!outcomeVars)
  BY StepKeeps
<1> QED
  BY <1>1, InitKeeps, Invariant, PTL DEF Spec
=============================================================================
