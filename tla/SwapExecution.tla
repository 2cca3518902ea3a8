--------------------------- MODULE SwapExecution ----------------------------
(***************************************************************************)
(* SwapExecutor.Execute: a position's asset goes through three limit       *)
(* orders, asset -> assetTwo -> assetThree -> asset.  The progress is kept *)
(* in one swap_action row, written as a whole after each change of the     *)
(* copy Execute works on; every error of that write is ignored.  The bot   *)
(* may crash between two requests; it then calls Execute again while the   *)
(* position is in swap mode.                                               *)
(*                                                                         *)
(* Assets are numbered 0 (asset), 1 (assetTwo), 2 (assetThree) and one lot *)
(* of each trades for one lot of the next: what a moved price brings more  *)
(* or less is not counted.  Prices, percentages and clocks                 *)
(* are choices; so is IsNearlyFilled of a partly filled order.  Of the     *)
(* three chain types (SSB, SBB, SBS) only the flow of assets is kept,      *)
(* which is the same.  MakeSwap takes the whole free balance of the asset  *)
(* as StartQuantity, so that the wallet starts with Qty lots of asset 0.   *)
(***************************************************************************)
EXTENDS ExchangeOrder, Sequences, FiniteSets

CONSTANTS
    Spare,          \* what the account holds of asset 1 and of asset 2 besides
    MaxAttempts,    \* IOC orders of one rollback or forced leg (100 in the code)
    MaxCancels,     \* bound: orders that die at the exchange, and times Execute gives up a leg
    MaxFaults,      \* bound: failing requests
    MaxCrashes      \* bound: crashes

ASSUME SwapBoundsAssumption ==
    /\ Spare \in Nat
    /\ MaxAttempts \in Nat \ {0}
    /\ MaxCancels \in Nat
    /\ MaxFaults \in Nat
    /\ MaxCrashes \in Nat

VARIABLES
    orders,         \* the swap's orders at the exchange, in the order placed
    free,           \* free[a]: the account's balance of asset a, locked funds apart
    row,            \* the swap_action row
    position,       \* orders.swap: the position is in swap mode
    exec,           \* the goroutine in Execute, with the action it works on
    cancels, faults, crashes

vars == <<orders, free, row, position, exec, cancels, faults, crashes>>

Assets == 0..2
Legs == 1..3
None == 0                                          \* a nil external id

\* Mutant: a canceled action is taken up again.
ActiveOrCanceled == {"pending", "process", "canceled"}

Active == {"pending", "process"}
Ended == {"success", "canceled"}

NewAction == [status |-> "pending", id |-> [l \in Legs |-> None]]
NoCopy == [status |-> "none", executed |-> 0]
Idle == [pc |-> "idle", then |-> "idle", leg |-> 1, action |-> NewAction,
         held |-> [l \in Legs |-> NoCopy], balance |-> 0, attempt |-> 0]

Init ==
    /\ orders = << >>
    /\ free = [a \in Assets |-> IF a = 0 THEN Qty ELSE Spare]
    /\ row = NewAction
    /\ position = TRUE
    /\ exec = Idle
    /\ cancels = 0 /\ faults = 0 /\ crashes = 0

-----------------------------------------------------------------------------
(***************************************************************************)
(* The exchange                                                            *)
(***************************************************************************)
Source(o) == IF o.back THEN 1 ELSE o.leg - 1
Target(o) == IF o.back THEN 0 ELSE o.leg % 3
IsDead(o) == IsCanceled(o) \/ IsExpired(o)

\* The wallet w after order o became p: what it bought, and what a dead order
\* gives back.
Booked(w, o, p) ==
    [w EXCEPT ![Target(o)] = @ + (p.executed - o.executed),
              ![Source(o)] = @ + IF IsDead(p) THEN o.qty - p.executed ELSE 0]

\* What order o may be after the exchange has worked on it
Later(o) ==
    [leg : {o.leg}, back : {o.back}, tif : {o.tif}, qty : {o.qty},
     status : Statuses, executed : o.executed..o.qty]

\* The exchange executes the order, or it dies there: cancelled by the account's
\* owner, or expired.
Exchange ==
    \E n \in DOMAIN orders : \E p \in Later(orders[n]) :
        /\ p # orders[n]
        /\ IsLive(orders[n]) /\ WellFormed(p, p.qty)
        /\ IsDead(p) => cancels < MaxCancels
        /\ cancels' = IF IsDead(p) THEN cancels + 1 ELSE cancels
        /\ orders' = [orders EXCEPT ![n] = p]
        /\ free' = Booked(free, orders[n], p)
        /\ UNCHANGED <<row, position, exec, faults, crashes>>

\* The exchange takes an order of q lots and answers with what it has become: a
\* GTC order may go on, an IOC order is filled at once or expires.
Accepted(l, q, back, tif) ==
    LET o == [leg |-> l, back |-> back, tif |-> tif, qty |-> q, status |-> "NEW", executed |-> 0]
    IN  { p \in Later(o) :
            /\ WellFormed(p, q)
            /\ p.status \in IF tif = "GTC" THEN {"NEW", "PARTIALLY_FILLED", "FILLED"}
                                           ELSE {"FILLED", "EXPIRED"} }

Take(p) ==
    LET o == [p EXCEPT !.status = "NEW", !.executed = 0]
    IN  /\ free[Source(p)] >= p.qty
        /\ orders' = Append(orders, p)
        /\ free' = Booked([free EXCEPT ![Source(p)] = @ - p.qty], o, p)

\* It refuses an order that the free balance does not cover; any request may fail.
Fault == faults < MaxFaults /\ faults' = faults + 1
RefusedFor(a, q) ==
    \/ free[a] < q /\ UNCHANGED faults
    \/ Fault

\* Mutant: every quantity is the minimum.
FormatToMinimum(q) == 1

\* Formatter.FormatQuantity raises a quantity to the symbol's minimum.
FormatQuantity(q) == IF q < 1 THEN 1 ELSE q
Lesser(m, n) == IF m < n THEN m ELSE n

-----------------------------------------------------------------------------
(***************************************************************************)
(* Steps of Execute                                                        *)
(***************************************************************************)
Goto(pc) == exec' = [exec EXCEPT !.pc = pc]
Leave == exec' = Idle

\* UpdateSwapAction(action) with the copy `action`, then go on at `then`
SaveThen(action, then) ==
    exec' = [exec EXCEPT !.pc = "save", !.action = action, !.then = then]

Save ==
    /\ exec.pc = "save"
    /\ \/ row' = exec.action /\ UNCHANGED faults
       \/ Fault /\ UNCHANGED row
    /\ IF exec.then = "idle" THEN Leave ELSE Goto(exec.then)
    /\ UNCHANGED <<orders, free, position, cancels, crashes>>

\* GetActiveSwapAction.  No row: the position leaves its swap mode.
Begin ==
    /\ exec.pc = "idle" /\ position
    /\ \/ /\ row.status \in Active
          /\ exec' = IF row.status = "pending"
                     THEN [Idle EXCEPT !.pc = "save", !.then = "chain",
                                       !.action = [row EXCEPT !.status = "process"]]
                     ELSE [Idle EXCEPT !.pc = "chain", !.action = row]
          /\ UNCHANGED faults
       \/ row.status \notin Active /\ Goto("leaveSwapMode") /\ UNCHANGED faults
       \/ Fault /\ UNCHANGED exec
    /\ UNCHANGED <<orders, free, row, position, cancels, crashes>>

GetSwapChainById ==
    /\ exec.pc = "chain"
    /\ \/ Goto("leg") /\ UNCHANGED faults
       \/ Leave /\ Fault
    /\ UNCHANGED <<orders, free, row, position, cancels, crashes>>

\* order.Swap = false; OrderRepository.Update(order), its error ignored
LeaveSwapMode ==
    /\ exec.pc = "leaveSwapMode"
    /\ \/ position' = FALSE /\ UNCHANGED faults
       \/ Fault /\ UNCHANGED position
    /\ Leave
    /\ UNCHANGED <<orders, free, row, cancels, crashes>>

-----------------------------------------------------------------------------
(***************************************************************************)
(* ExecuteSwapOne, ExecuteSwapTwo, ExecuteSwapThree                        *)
(***************************************************************************)
\* StartQuantity for the first leg; then what the leg before brought, no more than the
\* balance.
LegQuantity(l) ==
    IF l = 1 THEN Qty ELSE FormatQuantity(Lesser(exec.held[l - 1].executed, free[l - 1]))

\* Mutant: a leg that has executed anything is done.
AfterAnyFill(p) == IF p.executed > 0 THEN "legDone" ELSE "watch"

AfterAnswer(p) == IF IsFilled(p) THEN "legDone" ELSE "watch"
Holding(p) == [exec.held EXCEPT ![exec.leg] = [status |-> p.status, executed |-> p.executed]]

\* Mutant: the external id goes to the next leg.
WithIdOfNext(n) == [exec.action EXCEPT !.id[(exec.leg % 3) + 1] = n]

WithId(n) == [exec.action EXCEPT !.id[exec.leg] = n]

\* Mutant: a cancelled leg leaves the action active.
StillActive(action) == action

Canceled(action) == [action EXCEPT !.status = "canceled"]

\* Two errors are ignored, and make the order smaller.  Without the balance it counts as
\* 0, and the minimum is ordered; without the swap pair (106, 281, 441) its limits are 0,
\* and what is not whole in the quantity, and in the price, is cut off.
PlaceLeg ==
    LET l == exec.leg
    IN  /\ exec.pc = "leg" /\ exec.action.id[l] = None
        /\ \E q \in 1..LegQuantity(l) : \E p \in Accepted(l, q, FALSE, "GTC") :
             /\ Take(p)
             /\ exec' = [exec EXCEPT !.pc = "save", !.then = AfterAnswer(p),
                                     !.action = WithId(Len(orders) + 1), !.held = Holding(p)]
             /\ IF q = LegQuantity(l) THEN UNCHANGED faults ELSE Fault
        /\ UNCHANGED <<row, position, cancels, crashes>>

\* A refused first leg cancels the action; a refused later one is tried again by
\* the next Execute.
LegRefused ==
    LET l == exec.leg
    IN  /\ exec.pc = "leg" /\ exec.action.id[l] = None
        /\ RefusedFor(l - 1, LegQuantity(l))
        /\ IF l = 1 THEN SaveThen(Canceled(exec.action), "leaveSwapMode") ELSE Leave
        /\ UNCHANGED <<orders, free, row, position, cancels, crashes>>

Ordered == orders[exec.action.id[exec.leg]]

\* Mutants: an expired order is still waited for, a partly filled one is given up.
OnlyCanceled(o) == IsCanceled(o)
GoneOrPartly(o) == IsCanceled(o) \/ IsExpired(o) \/ IsPartiallyFilled(o)

Gone(o) == IsCanceled(o) \/ IsExpired(o)

\* The leg was ordered by an earlier Execute.
ResumeLeg ==
    /\ exec.pc = "leg" /\ exec.action.id[exec.leg] # None
    /\ \/ /\ Gone(Ordered)
          /\ SaveThen(WithId(None), "idle")
          /\ UNCHANGED faults
       \/ /\ ~Gone(Ordered)
          /\ exec' = [exec EXCEPT !.pc = "save", !.then = AfterAnswer(Ordered),
                                  !.held = Holding(Ordered)]
          /\ UNCHANGED faults
       \/ Leave /\ Fault
    /\ UNCHANGED <<orders, free, row, position, cancels, crashes>>

\* One round of the waiting loop: query, save, judge.  A failed query is repeated
\* at once.
Watch ==
    /\ exec.pc = "watch"
    /\ \/ /\ exec' = [exec EXCEPT !.pc = "save", !.then = "judge", !.held = Holding(Ordered)]
          /\ UNCHANGED faults
       \/ Fault /\ UNCHANGED exec
    /\ UNCHANGED <<orders, free, row, position, cancels, crashes>>

\* What a leg does that stays NEW for too long
GiveUp(l) == CASE l = 1 -> "cancelOne" [] l = 2 -> "rollback" [] l = 3 -> "force"

Judge ==
    LET o == exec.held[exec.leg]
    IN  /\ exec.pc = "judge"
        /\ \/ IsFilled(o) /\ Goto("legDone")
           \/ Gone(o) /\ exec.leg = 1 /\ SaveThen(Canceled(exec.action), "leaveSwapMode")
           \/ Gone(o) /\ exec.leg # 1 /\ SaveThen(WithId(None), "idle")
           \/ IsNew(o) /\ cancels < MaxCancels /\ Goto(GiveUp(exec.leg))
           \/ /\ ~IsFilled(o) /\ ~Gone(o)
              /\ exec.leg = 3 => ~IsPartiallyFilled(o)
              /\ Goto("watch")
           \/ /\ exec.leg = 3 /\ IsPartiallyFilled(o)      \* EndQuantity is saved too;
              /\ \/ SaveThen(exec.action, "watch")          \* nearly filled for 4 hours:
                 \/ SaveThen(exec.action, "legDone")        \* "check it later"
        /\ cancels' = IF exec'.pc \in {"cancelOne", "rollback", "force"} THEN cancels + 1 ELSE cancels
        /\ UNCHANGED <<orders, free, row, position, faults, crashes>>

\* The next leg, or the end of the swap
LegDone ==
    /\ exec.pc = "legDone"
    /\ IF exec.leg < 3
       THEN exec' = [exec EXCEPT !.pc = "leg", !.leg = @ + 1]
       ELSE SaveThen([exec.action EXCEPT !.status = "success"], "leaveSwapMode")
    /\ UNCHANGED <<orders, free, row, position, cancels, faults, crashes>>

-----------------------------------------------------------------------------
(***************************************************************************)
(* Giving up: CancelOrder, then what each leg does about it                *)
(***************************************************************************)
CancelOrdered ==
    LET p == [Ordered EXCEPT !.status = "CANCELED"]
    IN  /\ IsLive(Ordered)
        /\ orders' = [orders EXCEPT ![exec.action.id[exec.leg]] = p]
        /\ free' = Booked(free, Ordered, p)

CancelRefused ==
    /\ \/ IsSettled(Ordered) /\ UNCHANGED faults
       \/ Fault
    /\ UNCHANGED <<orders, free>>

\* Leg one: the whole action ends, whatever the cancelled order had executed.
CancelOne ==
    /\ exec.pc = "cancelOne"
    /\ \/ CancelOrdered /\ SaveThen(Canceled(exec.action), "leaveSwapMode") /\ UNCHANGED faults
       \/ CancelRefused /\ Goto("watch")
    /\ UNCHANGED <<row, position, cancels, crashes>>

\* TryRollbackSwapTwo and TryForceSwapThree first ask whether they would pay, which the
\* price decides; the rollback reads the balance now, while the order still locks its
\* funds.
Consider ==
    /\ exec.pc \in {"rollback", "force"}
    /\ \/ exec' = [exec EXCEPT !.pc = "cancelLeg", !.balance = free[exec.leg - 1]]
       \/ Goto("watch")                                     \* it does not pay, or an error
    /\ UNCHANGED <<orders, free, row, position, cancels, faults, crashes>>

CancelLeg ==
    /\ exec.pc = "cancelLeg"
    /\ \/ /\ CancelOrdered /\ UNCHANGED faults
          /\ exec' = [exec EXCEPT !.pc = IF exec.leg = 2 THEN "tryRollback" ELSE "readBalance",
                                  !.attempt = 1]
       \/ CancelRefused /\ Goto("watch")
    /\ UNCHANGED <<row, position, cancels, crashes>>

\* The forced leg reads the balance after the cancel.
ReadBalance ==
    /\ exec.pc = "readBalance"
    /\ \/ exec' = [exec EXCEPT !.pc = "tryForce", !.balance = free[2]] /\ UNCHANGED faults
       \/ Goto("watch") /\ Fault
    /\ UNCHANGED <<orders, free, row, position, cancels, crashes>>

Attempted == IF exec.attempt < MaxAttempts
             THEN exec' = [exec EXCEPT !.attempt = @ + 1]
             ELSE Goto("watch")

\* Mutant: the new order and the end of the action are not saved.
DoneUnsaved(p) == exec' = [exec EXCEPT !.pc = "saveOrPanic"]

\* action.Status = success, the leg's external id replaced
Done(p) == exec' = [exec EXCEPT !.pc = "saveOrPanic",
                       !.action = [WithId(Len(orders) + 1) EXCEPT !.status = "success"]]

\* What it would bring is compared with StartQuantity: the price decides, also for a
\* quantity that the balance has cut.  Nothing at all is refused.
TryRollback ==
    LET q == Lesser(exec.held[1].executed, exec.balance)
    IN  /\ exec.pc = "tryRollback"
        /\ \/ Goto("watch") /\ UNCHANGED <<orders, free, faults>>      \* notional, percent
           \/ /\ q > 0
              /\ \E p \in Accepted(2, q, TRUE, "IOC") :
                    /\ Take(p) /\ UNCHANGED faults
                    /\ IF IsFilled(p) THEN Done(p) ELSE Attempted
           \/ q > 0 /\ RefusedFor(1, q) /\ Goto("watch") /\ UNCHANGED <<orders, free>>
    /\ UNCHANGED <<row, position, cancels, crashes>>

\* The same check of the percent. An error of LimitOrder is not looked at: its empty
\* answer is "not filled".
TryForce ==
    LET q == Lesser(exec.held[2].executed, exec.balance)
    IN  /\ exec.pc = "tryForce"
        /\ \/ Goto("watch") /\ UNCHANGED <<orders, free, faults>>      \* percent too low
           \/ /\ q > 0
              /\ \E p \in Accepted(3, q, FALSE, "IOC") :
                    /\ Take(p) /\ UNCHANGED faults
                    /\ IF IsFilled(p) THEN Done(p) ELSE Attempted
           \/ q > 0 /\ RefusedFor(2, q) /\ Attempted /\ UNCHANGED <<orders, free>>
    /\ UNCHANGED <<row, position, cancels, crashes>>

\* A failing save panics here: the process ends and is started again.
SaveOrPanic ==
    /\ exec.pc = "saveOrPanic"
    /\ \/ row' = exec.action /\ UNCHANGED <<faults, crashes>>
       \/ Fault /\ crashes < MaxCrashes /\ crashes' = crashes + 1 /\ UNCHANGED row
    /\ Leave
    /\ UNCHANGED <<orders, free, position, cancels>>

-----------------------------------------------------------------------------
Crash ==
    /\ crashes < MaxCrashes /\ exec.pc # "idle"
    /\ crashes' = crashes + 1
    /\ Leave
    /\ UNCHANGED <<orders, free, row, position, cancels, faults>>

\* The position is out of its swap mode: Execute is not called again.
Terminated == exec.pc = "idle" /\ ~position /\ UNCHANGED vars

Execute ==
    \/ Begin \/ GetSwapChainById \/ Save \/ LeaveSwapMode
    \/ PlaceLeg \/ LegRefused \/ ResumeLeg \/ Watch \/ Judge \/ LegDone
    \/ CancelOne \/ Consider \/ CancelLeg \/ ReadBalance
    \/ TryRollback \/ TryForce \/ SaveOrPanic

Next == Execute \/ Exchange \/ Crash \/ Terminated

Spec == Init /\ [][Next]_vars /\ WF_vars(Execute)

-----------------------------------------------------------------------------
(***************************************************************************)
(* Properties                                                              *)
(***************************************************************************)
Placed == { orders[n] : n \in DOMAIN orders }
Those(P(_)) == { n \in DOMAIN orders : P(orders[n]) }

LegOrders ==
    { o \in [leg : Legs, back : BOOLEAN, tif : {"GTC", "IOC"}, qty : 1..Qty,
             status : Statuses, executed : 0..Qty] : WellFormed(o, o.qty) }
Actions == [status : Active \cup Ended, id : [Legs -> 0..Len(orders)]]
Places == {"idle", "save", "chain", "leg", "watch", "judge", "legDone", "cancelOne", "rollback",
           "force", "cancelLeg", "readBalance", "tryRollback", "tryForce", "saveOrPanic",
           "leaveSwapMode"}

\* Every variable has its type: the rows and the copy name orders that exist, and
\* Execute never asks for an order under a nil external id.
TypeOK ==
    /\ orders \in Seq(LegOrders)
    /\ free \in [Assets -> Nat]
    /\ row \in Actions
    /\ position \in BOOLEAN
    /\ exec \in [pc : Places, then : Places, leg : Legs, action : Actions,
                 held : [Legs -> [status : Statuses \cup {"none"}, executed : 0..Qty]],
                 balance : Nat, attempt : 0..MaxAttempts]
    /\ exec.pc \in {"watch", "judge", "cancelOne", "cancelLeg"} => exec.action.id[exec.leg] # None
    /\ cancels \in 0..MaxCancels /\ faults \in 0..MaxFaults /\ crashes \in 0..MaxCrashes

\* A leg is ordered only after the leg before it was filled, whatever crashes,
\* fails or is cancelled meanwhile (the early returns of Execute, 55-74).
LegsInOrder ==
    \A o \in Placed : o.leg > 1 =>
        \E p \in Placed : p.leg = o.leg - 1 /\ ~p.back /\ IsFilled(p)

\* The order of a leg is remembered before the next is placed: a live order is left
\* behind only by a crash between LimitOrder and UpdateSwapAction (107-142), or when five
\* requests fail, the leg's every save, that of the end of the action and that of the
\* position (its third leg is nearly filled).
OneLiveOrder == Cardinality(Those(IsLive)) <= 1 + crashes + faults \div 5

\* A leg that was filled is not ordered again, save once for each crash or failed
\* request (an error of UpdateSwapAction is ignored).
LegTradedOnce ==
    \A l \in Legs :
        Cardinality({ n \in Those(IsFilled) : orders[n].leg = l /\ ~orders[n].back })
            <= 1 + crashes + faults

\* While an action is active its position stays in swap mode, so that Execute is
\* called again: the action is ended first, then the position (87-88).  Otherwise
\* MakeSwap would find the action for ever and the position could not be swapped.
SwapModeCoversAction == row.status \in Active => position \/ faults > 0

\* An ended action stays ended, and orders nothing more.
EndedActionRests ==
    [][row.status \in Ended => row' = row /\ orders' \in Seq(LegOrders) /\ Len(orders') = Len(orders)]_vars

\* When nothing fails and no order dies partly executed, a success has sold all that
\* each leg earned and left nothing in the two other assets; unless it was sold back at
\* a price so good that less than the earnings of leg one brought StartQuantity, all the
\* balance read while leg two locked them (621-653).
SuccessIsComplete ==
    /\ row.status = "success" /\ faults = 0 /\ crashes = 0
    /\ \A o \in Placed : IsFilled(o) \/ (IsDead(o) /\ ~HasExecutedQuantity(o))
    /\ \A o \in Placed : o.back => o.qty = Qty
    => free = [a \in Assets |-> IF a = 0 THEN Qty ELSE Spare]

\* A leg that was filled while the row has no external id of it: Execute orders it again,
\* of what the leg before earned and the account no longer holds.
LegForgotten(l) == row.id[l] = None /\ \E o \in Placed : o.leg = l /\ ~o.back /\ IsFilled(o)

\* If the exchange settles every order and the process does not crash, the swap ends and
\* the position leaves its swap mode, whatever request fails, unless a failed save left
\* the second or the third leg forgotten for good (319 and 464, 467 and 87).
SettledSwapEnds ==
    []<>(\A o \in Placed : IsSettled(o)) /\ [](crashes = 0)
        => <>[](~position) \/ \E l \in {2, 3} : <>[]LegForgotten(l)

\* "Calculate how much we earn, and sell it!" (265): what the account held of the
\* other two assets before the swap is not spent.
OwnAssetsUntouched ==
    (\A o \in Placed : IsSettled(o)) => \A a \in {1, 2} : free[a] >= Spare

\* "Do not cancel order, but check it later..." (582): a swap that ended with
\* success has no order left to check.
SuccessIsSettled == row.status = "success" => \A o \in Placed : IsSettled(o)

\* "Swap one process cancelled, cancel all the operation!" (218): a cancelled swap
\* has traded nothing.
CanceledTradedNothing ==
    row.status = "canceled" => \A o \in Placed : ~HasExecutedQuantity(o)
=============================================================================
