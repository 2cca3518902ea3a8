------------------------- MODULE SwapExecutionProofs --------------------------
(***************************************************************************)
(* Proofs about SwapExecution, for every quantity, every balance of the    *)
(* other assets and every number of failures, crashes and attempts.        *)
(***************************************************************************)
EXTENDS SwapExecution, FiniteSetTheorems, SequenceTheorems, TLAPS

-----------------------------------------------------------------------------
(***************************************************************************)
(* The inductive invariant                                                 *)
(***************************************************************************)
\* Where the leg Execute works on has an order
AtOrder == {"watch", "judge", "legDone", "cancelOne", "rollback", "force", "cancelLeg",
            "readBalance", "tryRollback", "tryForce"}
\* ... whose copy has just been read
AtCopy == {"judge", "legDone"}

\* Where Execute is, or will be when it has saved
Heading == IF exec.pc = "save" THEN exec.then ELSE exec.pc

HasOrder == Heading \in AtOrder => exec.action.id[exec.leg] # None

\* Where Execute goes on from a save, and which leg a leg's own way out belongs to
Resumed == {"idle", "chain", "leaveSwapMode", "watch"} \cup AtCopy
LegOfPlace ==
    /\ exec.pc = "save" => exec.then \in Resumed
    /\ exec.pc = "tryRollback" => exec.leg = 2
    /\ exec.pc \in {"readBalance", "tryForce"} => exec.leg = 3
    /\ exec.pc = "rollback" => exec.leg = 2
    /\ exec.pc = "force" => exec.leg = 3
    /\ exec.pc = "cancelLeg" => exec.leg \in {2, 3}

\* External ids name orders of their legs; only a rollback that is done puts the order
\* that sells back in the place of the second leg, and then the action is ended.
Names(os, action) ==
    \A l \in Legs : action.id[l] # None =>
        os[action.id[l]].leg = l /\ ~os[action.id[l]].back
IdsNameLegs ==
    /\ row.status \in Active => Names(orders, row)
    /\ exec.pc # "saveOrPanic" => Names(orders, exec.action)

\* A copy that says the order is filled is right, and Execute leaves a leg for the next
\* only with such a copy.
CopyIsRight ==
    Heading \in AtCopy /\ exec.held[exec.leg].status = "FILLED" =>
        IsFilled(orders[exec.action.id[exec.leg]])
DoneIsFilled ==
    Heading = "legDone" /\ exec.leg < 3 => exec.held[exec.leg].status = "FILLED"

\* The legs before the current one were filled.
FilledLeg(os, l) == \E n \in 1..Len(os) : os[n].leg = l /\ ~os[n].back /\ IsFilled(os[n])
LegsBehind == \A l \in Legs : l < exec.leg => FilledLeg(orders, l)
InOrder(os) == \A n \in 1..Len(os) : os[n].leg > 1 => FilledLeg(os, os[n].leg - 1)

\* An action ends on the way out of Execute.
EndIsTheEnd ==
    /\ exec.pc \notin {"idle", "leaveSwapMode"} => row.status \in Active
    /\ exec.pc = "save" /\ exec.action.status \in Ended => exec.then = "leaveSwapMode"
    /\ exec.pc \notin {"save", "saveOrPanic", "idle", "leaveSwapMode"} => exec.action.status \in Active
    /\ exec.pc = "saveOrPanic" => exec.action.status \in Ended

\* The position leaves its swap mode after its action.
ModeFollowsAction ==
    /\ exec.pc = "save" /\ exec.then = "leaveSwapMode" => exec.action.status \in Ended
    /\ exec.pc = "leaveSwapMode" => row.status \in Ended \/ faults > 0
    /\ ~position => exec.pc = "idle" /\ (row.status \in Ended \/ faults > 0)

Control == HasOrder /\ LegOfPlace /\ DoneIsFilled /\ EndIsTheEnd /\ ModeFollowsAction
OrderFacts == InOrder(orders) /\ IdsNameLegs /\ CopyIsRight /\ LegsBehind

IInv == TypeOK /\ Control /\ OrderFacts

-----------------------------------------------------------------------------
(***************************************************************************)
(* Lists of orders                                                         *)
(***************************************************************************)
USE QtyAssumption, SwapBoundsAssumption

\* Orders stay where they are and what they are for, and a filled one stays filled.
Keeps(os, ps) ==
    /\ Len(os) <= Len(ps)
    /\ \A n \in 1..Len(os) :
          /\ ps[n].leg = os[n].leg /\ ps[n].back = os[n].back
          /\ IsFilled(os[n]) => IsFilled(ps[n])

ActionsOf(os) == [status : Active \cup Ended, id : [Legs -> 0..Len(os)]]

LEMMA Unchanged == ASSUME NEW os \in Seq(LegOrders) PROVE Keeps(os, os)
BY DEF Keeps

\* Appending an order keeps the others.
LEMMA Appended ==
    ASSUME NEW os \in Seq(LegOrders), NEW p \in LegOrders
    PROVE  LET ps == Append(os, p) IN
           /\ ps \in Seq(LegOrders) /\ Len(ps) = Len(os) + 1
           /\ ps[Len(os) + 1] = p /\ Keeps(os, ps)
BY AppendProperties DEF Keeps

\* So does changing one that is not filled, whatever becomes of it.
LEMMA Changed ==
    ASSUME NEW os \in Seq(LegOrders), NEW n \in 1..Len(os), NEW p \in LegOrders,
           p.leg = os[n].leg, p.back = os[n].back, IsLive(os[n])
    PROVE  LET ps == [os EXCEPT ![n] = p] IN
           /\ ps \in Seq(LegOrders) /\ Len(ps) = Len(os) /\ Keeps(os, ps)
<1> DEFINE ps == [os EXCEPT ![n] = p]
<1>1. ps \in Seq(LegOrders) /\ Len(ps) = Len(os) /\ \A i \in 1..Len(os) : ps[i] = IF i = n THEN p ELSE os[i]
  BY ExceptSeq
<1>2. ~IsFilled(os[n])
  BY DEF IsLive, IsFilled
<1> HIDE DEF ps
<1>3. Keeps(os, ps)
  BY <1>1, <1>2 DEF Keeps
<1> QED
  BY <1>1, <1>3 DEF ps

\* What the kept orders say of an action's external ids and of a leg still holds.
LEMMA NamesKept ==
    ASSUME NEW os \in Seq(LegOrders), NEW ps \in Seq(LegOrders), Keeps(os, ps),
           NEW a \in ActionsOf(os), Names(os, a)
    PROVE  Names(ps, a)
BY DEF Keeps, ActionsOf, Names, Legs, None

LEMMA ActionsKept ==
    ASSUME NEW os \in Seq(LegOrders), NEW ps \in Seq(LegOrders), Keeps(os, ps)
    PROVE  ActionsOf(os) \subseteq ActionsOf(ps)
<1>1. 0..Len(os) \subseteq 0..Len(ps)
  BY DEF Keeps
<1> QED
  BY <1>1 DEF ActionsOf

LEMMA FilledKept ==
    ASSUME NEW os \in Seq(LegOrders), NEW ps \in Seq(LegOrders), Keeps(os, ps),
           NEW l, FilledLeg(os, l)
    PROVE  FilledLeg(ps, l)
BY DEF Keeps, FilledLeg

\* Legs stay in order when every new order has the leg before it filled.
LEMMA InOrderKept ==
    ASSUME NEW os \in Seq(LegOrders), NEW ps \in Seq(LegOrders), Keeps(os, ps), InOrder(os),
           \A n \in (Len(os) + 1)..Len(ps) : ps[n].leg > 1 => FilledLeg(os, ps[n].leg - 1)
    PROVE  InOrder(ps)
<1> SUFFICES ASSUME NEW n \in 1..Len(ps), ps[n].leg > 1 PROVE FilledLeg(ps, ps[n].leg - 1)
  BY DEF InOrder
<1>1. FilledLeg(os, ps[n].leg - 1)
  BY DEF InOrder, Keeps
<1> QED
  BY <1>1, FilledKept

-----------------------------------------------------------------------------
(***************************************************************************)
(* The exchange                                                            *)
(***************************************************************************)
LEMMA LaterIsOrder ==
    ASSUME NEW o \in LegOrders, NEW p \in Later(o), WellFormed(p, p.qty)
    PROVE  /\ p \in LegOrders
           /\ p.leg = o.leg /\ p.back = o.back /\ p.qty = o.qty /\ p.tif = o.tif
           /\ p.executed >= o.executed
<1>1. p.executed \in o.executed..o.qty /\ o.executed \in 0..Qty /\ o.qty \in 1..Qty
  BY DEF Later, LegOrders
<1>2. p.executed \in 0..Qty
  BY <1>1
<1> QED
  BY <1>1, <1>2 DEF Later, LegOrders

LEMMA NewIsOrder ==
    ASSUME NEW l \in Legs, NEW back \in BOOLEAN, NEW tif \in {"GTC", "IOC"}, NEW q \in 1..Qty
    PROVE  [leg |-> l, back |-> back, tif |-> tif, qty |-> q, status |-> "NEW", executed |-> 0] \in LegOrders
BY DEF LegOrders, WellFormed, Statuses

LEMMA AcceptedIsOrder ==
    ASSUME NEW l \in Legs, NEW back \in BOOLEAN, NEW tif \in {"GTC", "IOC"}, NEW q \in 1..Qty,
           NEW p \in Accepted(l, q, back, tif)
    PROVE  p \in LegOrders /\ p.leg = l /\ p.back = back
<1> DEFINE o == [leg |-> l, back |-> back, tif |-> tif, qty |-> q, status |-> "NEW", executed |-> 0]
<1>1. o \in LegOrders
  BY NewIsOrder
<1>2. p \in Later(o) /\ WellFormed(p, q)
  BY DEF Accepted
<1>4. p.qty = q
  BY <1>2 DEF Later
<1>5. o.leg = l /\ o.back = back
  OBVIOUS
<1> HIDE DEF o
<1> QED
  BY <1>1, <1>2, <1>4, <1>5, LaterIsOrder

LEMMA GoesForth ==
    ASSUME NEW l \in Legs, NEW tif \in {"GTC", "IOC"}, NEW q \in 1..Qty, NEW p \in Accepted(l, q, FALSE, tif)
    PROVE  p \in LegOrders /\ p.leg = l /\ ~p.back
<1>1. FALSE \in BOOLEAN
  OBVIOUS
<1>2. p \in LegOrders /\ p.leg = l /\ p.back = FALSE
  BY <1>1, AcceptedIsOrder, Zenon
<1> QED
  BY <1>2

LEMMA ForcesLeg ==
    ASSUME NEW q \in 1..Qty, NEW p \in Accepted(3, q, FALSE, "IOC")
    PROVE  p \in LegOrders /\ p.leg = 3
<1>1. 3 \in Legs /\ "IOC" \in {"GTC", "IOC"}
  BY DEF Legs
<1> QED
  BY <1>1, GoesForth, Zenon

LEMMA SellsBack ==
    ASSUME NEW q \in 1..Qty, NEW p \in Accepted(2, q, TRUE, "IOC")
    PROVE  p \in LegOrders /\ p.leg = 2
<1>1. TRUE \in BOOLEAN /\ 2 \in Legs /\ "IOC" \in {"GTC", "IOC"}
  BY DEF Legs
<1> QED
  BY <1>1, AcceptedIsOrder, Zenon

\* What an order brings is added, what a dead one did not sell comes back.
LEMMA BookedIsBalance ==
    ASSUME NEW w \in [Assets -> Nat], NEW o \in LegOrders, NEW p \in LegOrders,
           p.qty = o.qty, p.executed >= o.executed
    PROVE  Booked(w, o, p) \in [Assets -> Nat]
<1>1. Source(o) \in Assets /\ Target(o) \in Assets
  BY DEF Source, Target, Assets, LegOrders, Legs
<1>2. p.executed - o.executed \in Nat /\ p.qty - p.executed \in Nat
  BY DEF LegOrders, WellFormed
<1>3. (IF IsDead(p) THEN o.qty - p.executed ELSE 0) \in Nat
  BY <1>2
<1> QED
  BY <1>1, <1>2, <1>3 DEF Booked

LEMMA TakeKeeps ==
    ASSUME orders \in Seq(LegOrders), free \in [Assets -> Nat], NEW p \in LegOrders, Take(p)
    PROVE  /\ orders' = Append(orders, p)
           /\ orders' \in Seq(LegOrders) /\ Len(orders') = Len(orders) + 1
           /\ orders'[Len(orders) + 1] = p /\ Keeps(orders, orders')
           /\ free' \in [Assets -> Nat]
<1> DEFINE o == [p EXCEPT !.status = "NEW", !.executed = 0]
           w == [free EXCEPT ![Source(p)] = @ - p.qty]
<1>1. Source(p) \in Assets
  BY DEF Source, Assets, LegOrders, Legs
<1>2. free[Source(p)] - p.qty \in Nat
  BY <1>1 DEF Take, LegOrders
<1>3. w \in [Assets -> Nat]
  BY <1>1, <1>2
<1>4. o \in LegOrders /\ p.qty = o.qty /\ p.executed >= o.executed
  <2>1. o \in [leg : Legs, back : BOOLEAN, tif : {"GTC", "IOC"}, qty : 1..Qty,
               status : Statuses, executed : 0..Qty]
    <3>1. p \in [leg : Legs, back : BOOLEAN, tif : {"GTC", "IOC"}, qty : 1..Qty,
                  status : Statuses, executed : 0..Qty]
      BY DEF LegOrders
    <3>2. "NEW" \in Statuses /\ 0 \in 0..Qty
      BY DEF Statuses
    <3> QED
      BY <3>1, <3>2
  <2>2. o.executed = 0 /\ o.status = "NEW" /\ o.qty = p.qty /\ p.qty \in 1..Qty /\ p.executed \in Nat
    BY DEF LegOrders
  <2> HIDE DEF o
  <2> QED
    BY <2>1, <2>2 DEF LegOrders, WellFormed
<1>5. free' = Booked(w, o, p)
  BY DEF Take
<1> HIDE DEF o, w
<1>6. free' \in [Assets -> Nat]
  BY <1>3, <1>4, <1>5, BookedIsBalance
<1> QED
  BY <1>6, Appended DEF Take

\* The account cancels the order of the current leg.
LEMMA CancelKeeps ==
    ASSUME orders \in Seq(LegOrders), free \in [Assets -> Nat],
           exec.action.id[exec.leg] \in 1..Len(orders), CancelOrdered
    PROVE  /\ orders' \in Seq(LegOrders) /\ Len(orders') = Len(orders) /\ Keeps(orders, orders')
           /\ free' \in [Assets -> Nat]
<1> DEFINE n == exec.action.id[exec.leg]
           p == [orders[n] EXCEPT !.status = "CANCELED"]
<1>1. orders[n] \in LegOrders /\ IsLive(orders[n])
  BY ElementOfSeq DEF CancelOrdered, Ordered
<1>2. p \in LegOrders /\ p.leg = orders[n].leg /\ p.back = orders[n].back /\ p.qty = orders[n].qty
        /\ p.executed = orders[n].executed
  BY <1>1 DEF LegOrders, WellFormed, Statuses, IsLive
<1>3. orders' = [orders EXCEPT ![n] = p] /\ free' = Booked(free, orders[n], p)
  BY DEF CancelOrdered, Ordered
<1> HIDE DEF p, n
<1>4. orders[n].executed \in Nat
  BY <1>1 DEF LegOrders
<1>5. free' \in [Assets -> Nat]
  <2>1. p.executed >= orders[n].executed
    BY <1>2, <1>4
  <2>2. Booked(free, orders[n], p) \in [Assets -> Nat]
    BY <1>1, <1>2, <2>1, BookedIsBalance
  <2> QED
    BY <1>3, <2>2
<1>6. n \in 1..Len(orders)
  BY DEF n
<1> QED
  BY <1>1, <1>2, <1>3, <1>5, <1>6, Changed

\* What no order, action or failure is about stays as it is when the orders are kept.
LEMMA OrderFactsKept ==
    ASSUME TypeOK, Control, OrderFacts, orders' \in Seq(LegOrders), Len(orders') = Len(orders),
           Keeps(orders, orders'), row' = row, exec' = exec
    PROVE  OrderFacts'
<1>1. InOrder(orders')
  BY InOrderKept DEF TypeOK, OrderFacts
<1>2. row \in ActionsOf(orders) /\ exec.action \in ActionsOf(orders) /\ orders \in Seq(LegOrders)
  BY DEF TypeOK, Actions, ActionsOf
<1>3. IdsNameLegs'
  <2>1. row.status \in Active => Names(orders', row)
    BY <1>2, NamesKept DEF OrderFacts, IdsNameLegs
  <2>2. exec.pc # "saveOrPanic" => Names(orders', exec.action)
    BY <1>2, NamesKept DEF OrderFacts, IdsNameLegs
  <2> QED
    BY <2>1, <2>2 DEF IdsNameLegs
<1>4. LegsBehind'
  BY <1>2, FilledKept DEF OrderFacts, LegsBehind
<1>5. CopyIsRight'
  <2> SUFFICES ASSUME Heading \in AtCopy, exec.held[exec.leg].status = "FILLED"
               PROVE  IsFilled(orders'[exec.action.id[exec.leg]])
    BY DEF CopyIsRight, Heading
  <2>1. IsFilled(orders[exec.action.id[exec.leg]])
    BY DEF OrderFacts, CopyIsRight
  <2>2. exec.action.id[exec.leg] \in 1..Len(orders)
    BY <1>2 DEF Control, HasOrder, AtCopy, AtOrder, ActionsOf, None, TypeOK
  <2> QED
    BY <2>1, <2>2 DEF Keeps
<1> QED
  BY <1>1, <1>3, <1>4, <1>5 DEF OrderFacts

-----------------------------------------------------------------------------
(***************************************************************************)
(* The steps                                                               *)
(***************************************************************************)
Execs(os) ==
    [pc : Places, then : Places, leg : Legs, action : ActionsOf(os),
     held : [Legs -> [status : Statuses \cup {"none"}, executed : 0..Qty]],
     balance : Nat, attempt : 0..MaxAttempts]

LEMMA TypesAre ==
    TypeOK =>
        /\ orders \in Seq(LegOrders) /\ free \in [Assets -> Nat]
        /\ row \in ActionsOf(orders) /\ position \in BOOLEAN
        /\ exec \in Execs(orders)
        /\ cancels \in Nat /\ faults \in Nat /\ crashes \in Nat
BY DEF TypeOK, Execs, Actions, ActionsOf

\* Where Execute may go within a leg without an order of its own
LEMMA OrderOfLeg ==
    ASSUME IInv, Heading \in AtOrder
    PROVE  /\ exec.action.id[exec.leg] \in 1..Len(orders)
           /\ Ordered \in LegOrders
           /\ exec.pc # "saveOrPanic" => Ordered.leg = exec.leg /\ ~Ordered.back
<1>1. exec \in Execs(orders) /\ orders \in Seq(LegOrders)
  BY TypesAre DEF IInv
<1>2. exec.action.id[exec.leg] \in 1..Len(orders)
  BY <1>1 DEF IInv, Control, HasOrder, Execs, ActionsOf, None
<1>3. Ordered \in LegOrders
  BY <1>1, <1>2, ElementOfSeq DEF Ordered
<1>4. exec.pc # "saveOrPanic" => Ordered.leg = exec.leg /\ ~Ordered.back
  BY <1>1, <1>2 DEF IInv, OrderFacts, IdsNameLegs, Names, Ordered, Execs, None
<1> QED
  BY <1>2, <1>3, <1>4

USE DEF Heading, AtOrder, AtCopy, Resumed, Active, Ended

LEMMA InitInv == Init => IInv
<1> SUFFICES ASSUME Init PROVE IInv
  OBVIOUS
<1>1. TypeOK
  BY EmptySeq DEF Init, TypeOK, Actions, NewAction, NoCopy, Idle, Assets, Legs, Places, None, Statuses
<1>2. Control
  BY DEF Init, Idle, NewAction, Control, HasOrder, LegOfPlace, DoneIsFilled, EndIsTheEnd, ModeFollowsAction
<1>3. OrderFacts
  BY DEF Init, Idle, NewAction, OrderFacts, InOrder, IdsNameLegs, Names, CopyIsRight, LegsBehind, Legs, None
<1> QED
  BY <1>1, <1>2, <1>3 DEF IInv

LEMMA ExchangeKeeps == ASSUME IInv, Exchange PROVE IInv'
<1>0. PICK n \in DOMAIN orders : \E p \in Later(orders[n]) :
         /\ IsLive(orders[n]) /\ WellFormed(p, p.qty)
         /\ IsDead(p) => cancels < MaxCancels
         /\ cancels' = IF IsDead(p) THEN cancels + 1 ELSE cancels
         /\ orders' = [orders EXCEPT ![n] = p]
         /\ free' = Booked(free, orders[n], p)
         /\ UNCHANGED <<row, position, exec, faults, crashes>>
  BY DEF Exchange
<1>1. PICK p \in Later(orders[n]) :
         /\ IsLive(orders[n]) /\ WellFormed(p, p.qty)
         /\ IsDead(p) => cancels < MaxCancels
         /\ cancels' = IF IsDead(p) THEN cancels + 1 ELSE cancels
         /\ orders' = [orders EXCEPT ![n] = p]
         /\ free' = Booked(free, orders[n], p)
         /\ UNCHANGED <<row, position, exec, faults, crashes>>
  BY <1>0
<1>2. orders \in Seq(LegOrders) /\ n \in 1..Len(orders) /\ orders[n] \in LegOrders
  BY <1>1, TypesAre, ElementOfSeq DEF IInv
<1>3. p \in LegOrders /\ p.leg = orders[n].leg /\ p.back = orders[n].back /\ p.qty = orders[n].qty
        /\ p.executed >= orders[n].executed
  BY <1>1, <1>2, LaterIsOrder
<1>4. orders' \in Seq(LegOrders) /\ Len(orders') = Len(orders) /\ Keeps(orders, orders')
  BY <1>1, <1>2, <1>3, Changed
<1>5. free' \in [Assets -> Nat]
  BY <1>1, <1>2, <1>3, BookedIsBalance, TypesAre DEF IInv
<1>6. cancels' \in 0..MaxCancels
  <2>1. cancels \in 0..MaxCancels
    BY DEF IInv, TypeOK
  <2> QED
    BY <1>1, <2>1
<1>7. TypeOK'
  BY <1>1, <1>4, <1>5, <1>6 DEF IInv, TypeOK, Actions
<1>8. Control'
  BY <1>1 DEF IInv, Control, HasOrder, LegOfPlace, DoneIsFilled, EndIsTheEnd, ModeFollowsAction
<1>9. OrderFacts'
  BY <1>1, <1>4, OrderFactsKept DEF IInv
<1> QED
  BY <1>7, <1>8, <1>9 DEF IInv

\* Execute returns, or its process ends.
LEMMA LeaveKeeps ==
    ASSUME IInv, Leave, UNCHANGED <<orders, free, cancels>>,
           row' \in ActionsOf(orders), row'.status \in Active => Names(orders, row'),
           position' \in BOOLEAN, ~position' => row'.status \in Ended \/ faults' > 0,
           faults' \in 0..MaxFaults, crashes' \in 0..MaxCrashes
    PROVE  IInv'
<1>1. TypeOK'
  <2>1. Len(orders) \in Nat /\ orders \in Seq(LegOrders) /\ orders' = orders /\ free' \in [Assets -> Nat]
    BY DEF IInv, TypeOK
  <2>2. NewAction \in ActionsOf(orders)
    BY <2>1 DEF NewAction, ActionsOf, Active, Legs, None
  <2>3. [l \in Legs |-> NoCopy] \in [Legs -> [status : Statuses \cup {"none"}, executed : 0..Qty]]
    BY QtyAssumption DEF NoCopy
  <2>4. exec' \in [pc : Places, then : Places, leg : Legs, action : ActionsOf(orders),
                  held : [Legs -> [status : Statuses \cup {"none"}, executed : 0..Qty]],
                  balance : Nat, attempt : 0..MaxAttempts]
    BY <2>2, <2>3, SwapBoundsAssumption DEF Leave, Idle, Places, Legs
  <2>5. exec'.pc = "idle"
    BY DEF Leave, Idle
  <2>6. Actions' = ActionsOf(orders)
    BY <2>1 DEF Actions, ActionsOf
  <2>7. cancels' \in 0..MaxCancels
    BY DEF IInv, TypeOK
  <2> QED
    BY <2>1, <2>4, <2>5, <2>6, <2>7 DEF TypeOK
<1>2. Control'
  BY DEF IInv, Leave, Idle, NewAction, Control, HasOrder, LegOfPlace, DoneIsFilled, EndIsTheEnd,
         ModeFollowsAction
<1>3. OrderFacts'
  BY DEF IInv, Leave, Idle, NewAction, OrderFacts, InOrder, IdsNameLegs, Names, CopyIsRight, LegsBehind, Legs, None
<1> QED
  BY <1>1, <1>2, <1>3 DEF IInv

LEMMA SaveKeeps ==
    ASSUME IInv, Save
    PROVE  IInv'
<1>1. exec \in Execs(orders) /\ row \in ActionsOf(orders) /\ exec.pc = "save" /\ exec.then \in Resumed
        /\ position
  BY TypesAre DEF IInv, Save, Control, LegOfPlace, ModeFollowsAction
<1>2. UNCHANGED <<orders, free, position, cancels, crashes>>
  BY DEF Save
<1>3. \/ row' = exec.action /\ faults' = faults
      \/ row' = row /\ faults' = faults + 1
  BY DEF Save, Fault
<1>4. faults' \in 0..MaxFaults
  BY DEF IInv, TypeOK, Save, Fault
<1>5. row' \in ActionsOf(orders) /\ Names(orders, row')
  BY <1>1, <1>3 DEF Execs, IInv, OrderFacts, IdsNameLegs, Control, EndIsTheEnd
<1>6. CASE exec.then = "idle"
  BY <1>1, <1>2, <1>4, <1>5, <1>6, LeaveKeeps DEF Save, IInv, TypeOK
<1>7. CASE exec.then # "idle"
  <2>1. exec' = [exec EXCEPT !.pc = exec.then]
    BY <1>7 DEF Save, Goto
  <2>2. exec' \in Execs(orders) /\ exec'.pc = exec.then
    BY <1>1, <2>1 DEF Execs
  <2>3. exec'.action = exec.action /\ exec'.leg = exec.leg /\ exec'.held = exec.held
    BY <1>1, <2>1 DEF Execs
  <2>4. exec'.action.id = exec.action.id /\ exec'.then = exec.then
    BY <1>1, <2>1 DEF Execs
  <2>5. TypeOK'
    BY <1>1, <1>2, <1>4, <1>5, <1>7, <2>2, <2>3, <2>4
       DEF IInv, TypeOK, Execs, Actions, ActionsOf, Control, HasOrder
  <2>6. exec.action.status \in Active \cup Ended /\ row.status \in Active
    BY <1>1 DEF IInv, Control, EndIsTheEnd, Execs, ActionsOf
  <2>7. HasOrder' /\ LegOfPlace' /\ DoneIsFilled'
    BY <1>1, <2>2, <2>3, <2>4 DEF IInv, Control, HasOrder, LegOfPlace, DoneIsFilled
  <2>8. EndIsTheEnd'
    BY <1>1, <1>3, <1>7, <2>2, <2>3, <2>6 DEF IInv, Control, EndIsTheEnd
  <2>9. ModeFollowsAction'
    BY <1>1, <1>2, <1>3, <1>7, <2>2, <2>3, <2>6 DEF IInv, TypeOK, Control, ModeFollowsAction
  <2>10. OrderFacts'
    BY <1>1, <1>2, <1>5, <2>2, <2>3, <2>4
       DEF IInv, OrderFacts, InOrder, IdsNameLegs, Names, CopyIsRight, LegsBehind
  <2> QED
    BY <2>5, <2>7, <2>8, <2>9, <2>10 DEF IInv, Control
<1> QED
  BY <1>6, <1>7

\* Execute goes on within a leg, with the action a and whatever it has ordered.
LEMMA Moves ==
    ASSUME IInv, exec.pc \notin {"idle", "leaveSwapMode"},
           UNCHANGED <<row, position, crashes>>,
           orders' \in Seq(LegOrders), Keeps(orders, orders'), InOrder(orders'),
           free' \in [Assets -> Nat], cancels' \in 0..MaxCancels, faults' \in 0..MaxFaults,
           exec' \in Execs(orders'), exec'.leg = exec.leg,
           NEW a, exec'.action = a, exec'.pc # "saveOrPanic" => Names(orders', a),
           exec'.pc \notin {"idle", "leaveSwapMode"},
           exec'.pc = "save" =>
               exec'.then \in Resumed /\ (exec'.then = "leaveSwapMode" <=> a.status \in Ended),
           exec'.pc \notin {"save", "saveOrPanic"} => a.status \in Active,
           exec'.pc = "saveOrPanic" => a.status \in Ended,
           NEW at, at = IF exec'.pc = "save" THEN exec'.then ELSE exec'.pc,
           at \in AtOrder => a.id[exec.leg] # None,
           at \in AtCopy => (exec'.held[exec.leg].status = "FILLED" => IsFilled(orders'[a.id[exec.leg]])),
           at = "legDone" => exec.leg = 3 \/ exec'.held[exec.leg].status = "FILLED",
           LegOfPlace'
    PROVE  IInv'
<1>1. TypeOK'
  <2>1. row' \in ActionsOf(orders')
    BY TypesAre, ActionsKept DEF IInv
  <2> QED
    BY <2>1 DEF IInv, TypeOK, Actions, ActionsOf, Execs
<1>2. HasOrder' /\ DoneIsFilled'
  BY DEF HasOrder, DoneIsFilled, Execs
<1>3. EndIsTheEnd' /\ ModeFollowsAction'
  BY DEF IInv, Control, EndIsTheEnd, ModeFollowsAction
<1>4. IdsNameLegs'
  <2>1. row.status \in Active => Names(orders', row)
    BY TypesAre, NamesKept DEF IInv, OrderFacts, IdsNameLegs
  <2> QED
    BY <2>1 DEF IdsNameLegs
<1>5. LegsBehind'
  BY TypesAre, FilledKept DEF IInv, OrderFacts, LegsBehind
<1>6. CopyIsRight'
  BY DEF CopyIsRight
<1> QED
  BY <1>1, <1>2, <1>3, <1>4, <1>5, <1>6 DEF IInv, Control, OrderFacts

\* A request fails and Execute stays where it is.
LEMMA FaultKeeps ==
    ASSUME IInv, Fault, UNCHANGED <<orders, free, row, position, exec, cancels, crashes>>
    PROVE  IInv'
<1>1. faults' \in 0..MaxFaults /\ faults' > faults
  BY DEF Fault, IInv, TypeOK
<1>2. TypeOK'
  BY <1>1 DEF IInv, TypeOK, Actions
<1>3. Control'
  BY <1>1 DEF IInv, TypeOK, Control, HasOrder, LegOfPlace, DoneIsFilled, EndIsTheEnd, ModeFollowsAction
<1>4. OrderFacts'
  BY DEF IInv, OrderFacts, InOrder, IdsNameLegs, Names, CopyIsRight, LegsBehind
<1> QED
  BY <1>2, <1>3, <1>4 DEF IInv

LEMMA BeginKeeps ==
    ASSUME IInv, Begin
    PROVE  IInv'
<1>1. exec \in Execs(orders) /\ row \in ActionsOf(orders) /\ exec.pc = "idle" /\ position
  BY TypesAre DEF IInv, Begin
<1>2. UNCHANGED <<orders, free, row, position, cancels, crashes>>
  BY DEF Begin
<1>3. CASE Fault /\ UNCHANGED exec
  BY <1>2, <1>3, FaultKeeps
<1>4. CASE row.status \notin Active /\ Goto("leaveSwapMode") /\ UNCHANGED faults
  <2>1. exec' \in Execs(orders) /\ exec'.pc = "leaveSwapMode" /\ exec'.action = exec.action /\ exec'.leg = exec.leg
    BY <1>1, <1>4 DEF Goto, Execs, Places
  <2>2. TypeOK'
    BY <1>2, <1>4, <2>1 DEF IInv, TypeOK, Execs, Actions, ActionsOf
  <2>3. Control'
    BY <1>1, <1>2, <1>4, <2>1
       DEF IInv, Control, HasOrder, LegOfPlace, DoneIsFilled, EndIsTheEnd, ModeFollowsAction, ActionsOf
  <2>4. OrderFacts'
    BY <1>1, <1>2, <2>1 DEF IInv, OrderFacts, InOrder, IdsNameLegs, Names, CopyIsRight, LegsBehind
  <2> QED
    BY <2>2, <2>3, <2>4 DEF IInv
<1>5. CASE row.status \in Active /\ UNCHANGED faults
           /\ exec' = IF row.status = "pending"
                      THEN [Idle EXCEPT !.pc = "save", !.then = "chain",
                                        !.action = [row EXCEPT !.status = "process"]]
                      ELSE [Idle EXCEPT !.pc = "chain", !.action = row]
  <2>1. Idle \in Execs(orders) /\ Idle.leg = 1
    BY DEF Idle, Execs, ActionsOf, NewAction, NoCopy, Places, Legs, None
  <2>2. /\ exec' \in Execs(orders) /\ exec'.leg = 1
        /\ exec'.pc = "chain" \/ (exec'.pc = "save" /\ exec'.then = "chain")
        /\ exec'.action.id = row.id /\ exec'.action.status \in Active
    BY <1>1, <1>5, <2>1 DEF Execs, ActionsOf, Places
  <2>3. TypeOK'
    BY <1>2, <1>5, <2>2 DEF IInv, TypeOK, Execs, Actions, ActionsOf
  <2>4. Control'
    BY <1>1, <1>2, <1>5, <2>2
       DEF IInv, Control, HasOrder, LegOfPlace, DoneIsFilled, EndIsTheEnd, ModeFollowsAction
  <2>5. Names(orders, row)
    BY <1>5 DEF IInv, OrderFacts, IdsNameLegs
  <2>6. OrderFacts'
    BY <1>1, <1>2, <2>2, <2>5
       DEF IInv, OrderFacts, InOrder, IdsNameLegs, Names, CopyIsRight, LegsBehind, Legs
  <2> QED
    BY <2>3, <2>4, <2>6 DEF IInv
<1> QED
  BY <1>3, <1>4, <1>5 DEF Begin

LEMMA LeaveSwapModeKeeps ==
    ASSUME IInv, LeaveSwapMode
    PROVE  IInv'
<1>1. exec.pc = "leaveSwapMode" /\ UNCHANGED <<orders, free, row, cancels, crashes>> /\ Leave
  BY DEF LeaveSwapMode
<1>2. position' \in BOOLEAN /\ faults' \in 0..MaxFaults /\ faults' >= faults
  <2>1. position' = FALSE \/ position' = position
    BY DEF LeaveSwapMode
  <2>2. position \in BOOLEAN /\ faults \in 0..MaxFaults /\ MaxFaults \in Nat
    BY DEF IInv, TypeOK
  <2>3. faults' = faults \/ (faults < MaxFaults /\ faults' = faults + 1)
    BY DEF LeaveSwapMode, Fault
  <2>4. position' \in BOOLEAN
    BY <2>1, <2>2, Zenon
  <2>5. faults' \in 0..MaxFaults /\ faults' >= faults
    BY <2>2, <2>3
  <2> QED
    BY <2>4, <2>5
<1>3. row.status \in Ended \/ faults' > 0
  BY <1>1, <1>2 DEF IInv, TypeOK, Control, ModeFollowsAction
<1> QED
  BY <1>1, <1>2, <1>3, LeaveKeeps, TypesAre DEF IInv, TypeOK, OrderFacts, IdsNameLegs

\* What Moves asks of a step that neither places nor cancels an order
LEMMA SameOrders ==
    ASSUME IInv, UNCHANGED orders
    PROVE  orders' \in Seq(LegOrders) /\ Keeps(orders, orders') /\ InOrder(orders')
BY TypesAre, Unchanged DEF IInv, OrderFacts

\* A request that may have failed
LEMMA FaultsInRange ==
    ASSUME IInv, Fault \/ UNCHANGED faults
    PROVE  faults' \in 0..MaxFaults
BY DEF IInv, TypeOK, Fault

\* Execute goes to another place with what it holds.
LEMMA GotoKeeps ==
    ASSUME IInv, exec.pc \notin {"idle", "leaveSwapMode", "save", "saveOrPanic"},
           UNCHANGED <<row, position, crashes>>,
           orders' \in Seq(LegOrders), Keeps(orders, orders'), InOrder(orders'), free' \in [Assets -> Nat],
           cancels' \in 0..MaxCancels, faults' \in 0..MaxFaults,
           NEW pc \in {"leg", "watch", "legDone", "cancelOne", "rollback", "force", "cancelLeg", "readBalance",
                       "tryRollback", "tryForce"},
           NEW balance \in Nat, NEW attempt \in 0..MaxAttempts,
           exec' = [exec EXCEPT !.pc = pc, !.balance = balance, !.attempt = attempt],
           pc = "leg" \/ exec.pc \in AtOrder,
           pc = "legDone" => exec.pc = "judge" /\ exec.held[exec.leg].status = "FILLED",
           pc \in {"rollback", "tryRollback"} => exec.leg = 2,
           pc \in {"force", "readBalance", "tryForce"} => exec.leg = 3,
           pc = "cancelLeg" => exec.leg \in {2, 3}
    PROVE  IInv'
<1>1. exec \in Execs(orders) /\ exec \in Execs(orders')
  BY TypesAre, ActionsKept DEF IInv, Execs
<1>2. exec' \in Execs(orders') /\ exec'.pc = pc /\ exec'.leg = exec.leg /\ exec'.action = exec.action
        /\ exec'.held = exec.held
  BY <1>1 DEF Execs, Places
<1>3. Names(orders', exec.action) /\ exec.action.status \in Active
  BY <1>1, TypesAre, NamesKept DEF IInv, OrderFacts, IdsNameLegs, Control, EndIsTheEnd, Execs
<1>4. pc # "leg" => exec.action.id[exec.leg] \in 1..Len(orders)
  BY OrderOfLeg
<1>5. pc = "legDone" => IsFilled(orders'[exec.action.id[exec.leg]])
  BY <1>4 DEF IInv, OrderFacts, CopyIsRight, Keeps
<1>6. LegOfPlace'
  BY <1>2 DEF LegOfPlace
<1>7. pc # "leg" => exec.action.id[exec.leg] # None
  BY <1>4 DEF None
<1> QED
  BY <1>2, <1>3, <1>5, <1>6, <1>7, Moves, SMTT(30)

LEMMA GetChainKeeps ==
    ASSUME IInv, GetSwapChainById
    PROVE  IInv'
<1>1. exec.pc = "chain" /\ UNCHANGED <<orders, free, row, position, cancels, crashes>>
  BY DEF GetSwapChainById
<1>2. faults' \in 0..MaxFaults
  BY FaultsInRange DEF GetSwapChainById
<1>3. CASE Leave
  BY <1>1, <1>2, <1>3, LeaveKeeps, TypesAre DEF IInv, TypeOK, OrderFacts, IdsNameLegs, Control, ModeFollowsAction
<1>4. CASE Goto("leg")
  <2>1. exec' = [exec EXCEPT !.pc = "leg", !.balance = exec.balance, !.attempt = exec.attempt]
    BY <1>4, TypesAre DEF Goto, IInv, Execs
  <2> QED
    BY <1>1, <1>2, <2>1, GotoKeeps, SameOrders, TypesAre DEF IInv, TypeOK, Execs
<1> QED
  BY <1>3, <1>4 DEF GetSwapChainById

\* What the copy of order p says
LEMMA HoldingIsCopy ==
    ASSUME IInv, NEW p \in LegOrders
    PROVE  /\ Holding(p) \in [Legs -> [status : Statuses \cup {"none"}, executed : 0..Qty]]
           /\ Holding(p)[exec.leg].status = p.status
BY TypesAre DEF IInv, Execs, Holding, LegOrders

\* Execute saves the action a with an external id for the current leg or none, and
\* comes to `then` with the copies `held`.
LEMMA SavesKeeps ==
    ASSUME IInv, exec.pc \notin {"idle", "leaveSwapMode", "save", "saveOrPanic"},
           UNCHANGED <<row, position, crashes>>,
           orders' \in Seq(LegOrders), Keeps(orders, orders'), InOrder(orders'), free' \in [Assets -> Nat],
           cancels' \in 0..MaxCancels, faults' \in 0..MaxFaults,
           NEW a \in ActionsOf(orders'), Names(orders', a),
           NEW held \in [Legs -> [status : Statuses \cup {"none"}, executed : 0..Qty]],
           NEW then \in Resumed,
           exec' = [exec EXCEPT !.pc = "save", !.action = a, !.then = then, !.held = held],
           then = "leaveSwapMode" <=> a.status \in Ended,
           then \in AtOrder => a.id[exec.leg] # None,
           then \in AtCopy => (held[exec.leg].status = "FILLED" => IsFilled(orders'[a.id[exec.leg]])),
           then = "legDone" => exec.leg = 3 \/ held[exec.leg].status = "FILLED"
    PROVE  IInv'
<1>1. exec \in Execs(orders)
  BY TypesAre DEF IInv
<1>2. exec' \in Execs(orders') /\ exec'.pc = "save" /\ exec'.leg = exec.leg /\ exec'.action = a
        /\ exec'.held = held /\ exec'.then = then
  BY <1>1 DEF Execs, Places
<1>3. LegOfPlace'
  BY <1>2 DEF LegOfPlace
<1> QED
  BY <1>2, <1>3, Moves

LEMMA WatchKeeps ==
    ASSUME IInv, Watch
    PROVE  IInv'
<1>1. exec.pc = "watch" /\ UNCHANGED <<orders, free, row, position, cancels, crashes>>
  BY DEF Watch
<1>2. CASE Fault /\ UNCHANGED exec
  BY <1>1, <1>2, FaultKeeps
<1>3. CASE UNCHANGED faults /\ exec' = [exec EXCEPT !.pc = "save", !.then = "judge", !.held = Holding(Ordered)]
  <2>1. exec.action.id[exec.leg] \in 1..Len(orders) /\ Ordered \in LegOrders
    BY <1>1, OrderOfLeg
  <2>2. exec \in Execs(orders) /\ exec.action \in ActionsOf(orders) /\ exec.action.status \in Active
        /\ Names(orders, exec.action)
    BY <1>1, TypesAre DEF IInv, Execs, OrderFacts, IdsNameLegs, Control, EndIsTheEnd
  <2>3. exec' = [exec EXCEPT !.pc = "save", !.action = exec.action, !.then = "judge", !.held = Holding(Ordered)]
    BY <1>3, <2>2 DEF Execs
  <2>4. Holding(Ordered)[exec.leg].status = "FILLED" => IsFilled(orders[exec.action.id[exec.leg]])
    BY <2>1, HoldingIsCopy DEF IsFilled, Ordered
  <2>5. Holding(Ordered) \in [Legs -> [status : Statuses \cup {"none"}, executed : 0..Qty]]
    BY <2>1, HoldingIsCopy
  <2>6. faults' \in 0..MaxFaults /\ cancels' \in 0..MaxCancels /\ free' \in [Assets -> Nat]
    BY <1>1, <1>3 DEF IInv, TypeOK
  <2>7. exec.action.id[exec.leg] # None
    BY <2>1 DEF None
  <2> QED
    BY <1>1, <2>2, <2>3, <2>4, <2>5, <2>6, <2>7, SavesKeeps, SameOrders
<1> QED
  BY <1>2, <1>3 DEF Watch

\* What Execute holds while it works on a leg
LEMMA Working ==
    ASSUME IInv, exec.pc \notin {"idle", "leaveSwapMode", "save", "saveOrPanic"}
    PROVE  /\ exec \in Execs(orders) /\ exec.action \in ActionsOf(orders)
           /\ exec.action.status \in Active /\ Names(orders, exec.action)
           /\ row.status \in Active /\ position
BY TypesAre DEF IInv, Execs, OrderFacts, IdsNameLegs, Control, EndIsTheEnd, ModeFollowsAction

\* Execute returns with the row as it is.
LEMMA GivesUp ==
    ASSUME IInv, Leave, UNCHANGED <<orders, free, row, position, cancels, crashes>>, Fault \/ UNCHANGED faults,
           exec.pc \notin {"idle", "leaveSwapMode"}
    PROVE  IInv'
<1>1. faults' \in 0..MaxFaults
  BY FaultsInRange
<1>2. position
  BY DEF IInv, Control, ModeFollowsAction
<1> QED
  BY <1>1, <1>2, LeaveKeeps, TypesAre DEF IInv, TypeOK, OrderFacts, IdsNameLegs

\* An external id that names no order, or one of its leg, leaves the others as they are.
LEMMA IdIsNamed ==
    ASSUME NEW os \in Seq(LegOrders), NEW ps \in Seq(LegOrders), Keeps(os, ps),
           exec.action \in ActionsOf(os), exec.leg \in Legs, Names(os, exec.action),
           NEW n \in 0..Len(ps), n # None => ps[n].leg = exec.leg /\ ~ps[n].back
    PROVE  /\ WithId(n) \in ActionsOf(ps) /\ Names(ps, WithId(n))
           /\ WithId(n).status = exec.action.status /\ WithId(n).id[exec.leg] = n
<1>1. exec.action \in ActionsOf(ps) /\ Names(ps, exec.action)
  BY ActionsKept, NamesKept
<1>2. /\ WithId(n) \in ActionsOf(ps) /\ WithId(n).status = exec.action.status
      /\ \A l \in Legs : WithId(n).id[l] = IF l = exec.leg THEN n ELSE exec.action.id[l]
  BY <1>1 DEF WithId, ActionsOf
<1> QED
  BY <1>1, <1>2 DEF Names

LEMMA ResumeKeeps ==
    ASSUME IInv, ResumeLeg
    PROVE  IInv'
<1>1. exec.pc = "leg" /\ exec.action.id[exec.leg] # None
        /\ UNCHANGED <<orders, free, row, position, cancels, crashes>>
  BY DEF ResumeLeg
<1>2. /\ exec \in Execs(orders) /\ exec.action \in ActionsOf(orders) /\ exec.action.status \in Active
      /\ Names(orders, exec.action) /\ orders \in Seq(LegOrders)
  BY <1>1, Working, TypesAre DEF IInv
<1>3. exec.action.id[exec.leg] \in 1..Len(orders) /\ Ordered \in LegOrders
  BY <1>1, <1>2, ElementOfSeq DEF Execs, ActionsOf, None, Ordered
<1>4. cancels' \in 0..MaxCancels /\ free' \in [Assets -> Nat]
  BY <1>1 DEF IInv, TypeOK
<1>5. faults' \in 0..MaxFaults
  BY FaultsInRange DEF ResumeLeg
<1>6. CASE Leave /\ Fault
  BY <1>1, <1>6, GivesUp
<1>7. CASE SaveThen(WithId(None), "idle")
  <2>1. WithId(None) \in ActionsOf(orders) /\ Names(orders, WithId(None)) /\ WithId(None).status \in Active
    BY <1>2, Unchanged, IdIsNamed DEF Execs, None
  <2>2. exec' = [exec EXCEPT !.pc = "save", !.action = WithId(None), !.then = "idle", !.held = exec.held]
    BY <1>2, <1>7 DEF SaveThen, Execs
  <2>3. exec.held \in [Legs -> [status : Statuses \cup {"none"}, executed : 0..Qty]]
    BY <1>2 DEF Execs
  <2>4. WithId(None).status \notin Ended
    BY <2>1
  <2>5. ASSUME NEW a \in ActionsOf(orders), Names(orders, a), a.status \notin Ended, NEW then, then = "idle",
               exec' = [exec EXCEPT !.pc = "save", !.action = a, !.then = then, !.held = exec.held]
        PROVE  IInv'
    <3>1. orders' \in Seq(LegOrders) /\ Keeps(orders, orders') /\ InOrder(orders')
      BY <1>1, SameOrders
    <3>2. Names(orders', a) /\ a \in ActionsOf(orders')
      BY <1>1, <2>5
    <3>3. then \in Resumed /\ then \notin AtOrder /\ then # "leaveSwapMode" /\ exec.pc = "leg"
      BY <1>1, <2>5
    <3> QED
      BY <1>1, <1>4, <1>5, <2>3, <2>5, <3>1, <3>2, <3>3, SavesKeeps
  <2> QED
    BY <2>1, <2>2, <2>4, <2>5
<1>8. CASE exec' = [exec EXCEPT !.pc = "save", !.then = AfterAnswer(Ordered), !.held = Holding(Ordered)]
  <2>1. exec' = [exec EXCEPT !.pc = "save", !.action = exec.action, !.then = AfterAnswer(Ordered),
                             !.held = Holding(Ordered)]
    BY <1>2, <1>8 DEF Execs
  <2>2. AfterAnswer(Ordered) \in {"legDone", "watch"} /\ (AfterAnswer(Ordered) = "legDone" => IsFilled(Ordered))
    BY DEF AfterAnswer
  <2>3. /\ Holding(Ordered) \in [Legs -> [status : Statuses \cup {"none"}, executed : 0..Qty]]
        /\ Holding(Ordered)[exec.leg].status = Ordered.status
    BY <1>3, HoldingIsCopy
  <2>4. /\ AfterAnswer(Ordered) = "legDone" => Holding(Ordered)[exec.leg].status = "FILLED"
        /\ Holding(Ordered)[exec.leg].status = "FILLED" => IsFilled(orders[exec.action.id[exec.leg]])
    BY <2>2, <2>3 DEF IsFilled, Ordered
  <2> HIDE DEF Holding, AfterAnswer
  <2> QED
    BY <1>1, <1>2, <1>4, <1>5, <2>1, <2>2, <2>3, <2>4, SavesKeeps, SameOrders
<1> QED
  BY <1>6, <1>7, <1>8 DEF ResumeLeg

\* A canceled action with the same external ids
LEMMA CanceledAction ==
    ASSUME NEW os, NEW a \in ActionsOf(os), Names(os, a)
    PROVE  Canceled(a) \in ActionsOf(os) /\ Names(os, Canceled(a)) /\ Canceled(a).status \in Ended
BY DEF Canceled, ActionsOf, Names

LEMMA LegRefusedKeeps ==
    ASSUME IInv, LegRefused
    PROVE  IInv'
<1>1. exec.pc = "leg" /\ UNCHANGED <<orders, free, row, position, cancels, crashes>>
  BY DEF LegRefused
<1>2. Fault \/ UNCHANGED faults
  BY DEF LegRefused, RefusedFor
<1>3. CASE Leave
  BY <1>1, <1>2, <1>3, GivesUp
<1>4. CASE SaveThen(Canceled(exec.action), "leaveSwapMode")
  <2>1. exec \in Execs(orders) /\ exec.action \in ActionsOf(orders) /\ Names(orders, exec.action)
    BY <1>1, Working
  <2>2. exec' = [exec EXCEPT !.pc = "save", !.action = Canceled(exec.action), !.then = "leaveSwapMode",
                             !.held = exec.held]
    BY <1>4, <2>1 DEF SaveThen, Execs
  <2>3. cancels' \in 0..MaxCancels /\ free' \in [Assets -> Nat] /\ faults' \in 0..MaxFaults
    BY <1>1, <1>2, FaultsInRange DEF IInv, TypeOK
  <2>4. exec.held \in [Legs -> [status : Statuses \cup {"none"}, executed : 0..Qty]]
    BY <2>1 DEF Execs
  <2> QED
    BY <1>1, <2>1, <2>2, <2>3, <2>4, CanceledAction, SavesKeeps, SameOrders
<1> QED
  BY <1>3, <1>4 DEF LegRefused

\* Execute goes to another place and only that.
LEMMA GoesOn ==
    ASSUME IInv, exec.pc \notin {"idle", "leaveSwapMode", "save", "saveOrPanic"},
           UNCHANGED <<row, position, crashes>>,
           orders' \in Seq(LegOrders), Keeps(orders, orders'), InOrder(orders'), free' \in [Assets -> Nat],
           cancels' \in 0..MaxCancels, Fault \/ UNCHANGED faults, exec.pc \in AtOrder,
           NEW pc \in {"watch", "legDone", "cancelOne", "rollback", "force"}, Goto(pc),
           pc = "legDone" => exec.pc = "judge" /\ exec.held[exec.leg].status = "FILLED",
           pc = "rollback" => exec.leg = 2,
           pc = "force" => exec.leg = 3
    PROVE  IInv'
<1>1. exec \in Execs(orders)
  BY Working
<1>2. exec' = [exec EXCEPT !.pc = pc, !.balance = exec.balance, !.attempt = exec.attempt]
  BY <1>1 DEF Goto, Execs
<1>3. exec.balance \in Nat /\ exec.attempt \in 0..MaxAttempts
  BY <1>1 DEF Execs
<1>4. faults' \in 0..MaxFaults
  BY FaultsInRange
<1> QED
  BY <1>2, <1>3, <1>4, GotoKeeps

LEMMA JudgeKeeps ==
    ASSUME IInv, Judge
    PROVE  IInv'
<1> DEFINE o == exec.held[exec.leg]
<1>1. exec.pc = "judge" /\ UNCHANGED <<orders, free, row, position, faults, crashes>>
  BY DEF Judge
<1>2. /\ exec \in Execs(orders) /\ exec.action \in ActionsOf(orders) /\ exec.action.status \in Active
      /\ Names(orders, exec.action)
  BY <1>1, Working
<1>3. free' \in [Assets -> Nat] /\ faults' \in 0..MaxFaults /\ cancels \in 0..MaxCancels /\ MaxCancels \in Nat
  BY <1>1 DEF IInv, TypeOK
<1>4. exec.action.id[exec.leg] \in 1..Len(orders) /\ exec.action.id[exec.leg] # None
  BY <1>1, OrderOfLeg DEF None
<1>5. orders' \in Seq(LegOrders) /\ Keeps(orders, orders') /\ InOrder(orders')
  BY <1>1, SameOrders
<1>6. cancels' = IF exec'.pc \in {"cancelOne", "rollback", "force"} THEN cancels + 1 ELSE cancels
  BY DEF Judge
<1>7. ASSUME NEW pc \in {"legDone", "watch"}, Goto(pc), pc = "legDone" => IsFilled(o) PROVE IInv'
  <2>1. cancels' \in 0..MaxCancels
    BY <1>2, <1>3, <1>6, <1>7 DEF Goto, Execs
  <2> QED
    BY <1>1, <1>3, <1>5, <1>7, <2>1, GoesOn DEF IsFilled
<1>8. CASE cancels < MaxCancels /\ Goto(GiveUp(exec.leg))
  <2>1. cancels' \in 0..MaxCancels
    BY <1>3, <1>6, <1>8
  <2>2. /\ GiveUp(exec.leg) \in {"cancelOne", "rollback", "force"}
        /\ GiveUp(exec.leg) = "rollback" => exec.leg = 2
        /\ GiveUp(exec.leg) = "force" => exec.leg = 3
    BY <1>2 DEF GiveUp, Execs, Legs
  <2> HIDE DEF GiveUp
  <2> QED
    BY <1>1, <1>3, <1>5, <1>8, <2>1, <2>2, GoesOn
<1>9. ASSUME NEW a \in ActionsOf(orders), Names(orders, a), NEW then \in Resumed, SaveThen(a, then),
             then = "leaveSwapMode" <=> a.status \in Ended,
             then \in AtOrder => then \in {"watch", "legDone"} /\ a.id[exec.leg] = exec.action.id[exec.leg],
             then = "legDone" => exec.leg = 3
      PROVE  IInv'
  <2>1. cancels' \in 0..MaxCancels
    BY <1>2, <1>3, <1>6, <1>9 DEF SaveThen, Execs
  <2>2. exec' = [exec EXCEPT !.pc = "save", !.action = a, !.then = then, !.held = exec.held]
    BY <1>2, <1>9 DEF SaveThen, Execs
  <2>3. exec.held \in [Legs -> [status : Statuses \cup {"none"}, executed : 0..Qty]]
    BY <1>2 DEF Execs
  <2>4. exec.held[exec.leg].status = "FILLED" => IsFilled(orders'[exec.action.id[exec.leg]])
    BY <1>1 DEF IInv, OrderFacts, CopyIsRight
  <2> QED
    BY <1>1, <1>3, <1>4, <1>5, <1>9, <2>1, <2>2, <2>3, <2>4, SavesKeeps
<1>10. CASE SaveThen(Canceled(exec.action), "leaveSwapMode")
  BY <1>2, <1>9, <1>10, CanceledAction
<1>11. CASE SaveThen(WithId(None), "idle")
  <2>1. WithId(None) \in ActionsOf(orders) /\ Names(orders, WithId(None)) /\ WithId(None).status \notin Ended
    BY <1>2, Unchanged, IdIsNamed, TypesAre DEF Execs, None, IInv
  <2> QED
    BY <1>9, <1>11, <2>1
<1>12. CASE SaveThen(exec.action, "watch")
  BY <1>2, <1>9, <1>12
<1>13. CASE exec.leg = 3 /\ SaveThen(exec.action, "legDone")
  BY <1>2, <1>9, <1>13
<1> QED
  BY <1>7, <1>8, <1>10, <1>11, <1>12, <1>13 DEF Judge

\* The next leg is begun with its order filled, or the action ends.
LEMMA LegDoneKeeps ==
    ASSUME IInv, LegDone
    PROVE  IInv'
<1>1. exec.pc = "legDone" /\ UNCHANGED <<orders, free, row, position, cancels, faults, crashes>>
  BY DEF LegDone
<1>2. /\ exec \in Execs(orders) /\ exec.action \in ActionsOf(orders) /\ exec.action.status \in Active
      /\ Names(orders, exec.action) /\ row.status \in Active /\ position
  BY <1>1, Working
<1>3. orders' \in Seq(LegOrders) /\ Keeps(orders, orders') /\ InOrder(orders') /\ free' \in [Assets -> Nat]
        /\ cancels' \in 0..MaxCancels /\ faults' \in 0..MaxFaults
  BY <1>1, SameOrders DEF IInv, TypeOK
<1>4. CASE exec.leg < 3 /\ exec' = [exec EXCEPT !.pc = "leg", !.leg = exec.leg + 1]
  <2>1. exec' \in Execs(orders) /\ exec'.pc = "leg" /\ exec'.leg = exec.leg + 1 /\ exec'.action = exec.action
    <3>1. exec.leg + 1 \in Legs
      BY <1>2, <1>4 DEF Execs, Legs
    <3>2. "leg" \in Places
      BY DEF Places
    <3> QED
      BY <1>2, <1>4, <3>1, <3>2 DEF Execs
  <2>2. FilledLeg(orders, exec.leg)
    <3>1. exec.action.id[exec.leg] \in 1..Len(orders) /\ Ordered.leg = exec.leg /\ ~Ordered.back
      BY <1>1, OrderOfLeg
    <3>2. IsFilled(Ordered)
      BY <1>1, <1>4 DEF IInv, Control, DoneIsFilled, OrderFacts, CopyIsRight, Ordered
    <3> QED
      BY <3>1, <3>2 DEF FilledLeg, Ordered
  <2>3. \A l \in Legs : l < exec.leg + 1 => FilledLeg(orders, l)
    <3>1. \A l \in Legs : l < exec.leg + 1 => l < exec.leg \/ l = exec.leg
      BY <1>2 DEF Execs, Legs
    <3> QED
      BY <2>2, <3>1 DEF IInv, OrderFacts, LegsBehind
  <2>4. TypeOK'
    BY <1>1, <2>1 DEF IInv, TypeOK, Execs, Actions, ActionsOf
  <2>5. Control'
    BY <1>1, <1>2, <2>1
       DEF IInv, Control, HasOrder, LegOfPlace, DoneIsFilled, EndIsTheEnd, ModeFollowsAction
  <2>6. OrderFacts'
    BY <1>1, <1>2, <2>1, <2>3 DEF IInv, OrderFacts, InOrder, IdsNameLegs, Names, CopyIsRight, LegsBehind
  <2> QED
    BY <2>4, <2>5, <2>6 DEF IInv
<1>5. CASE exec.leg = 3 /\ SaveThen([exec.action EXCEPT !.status = "success"], "leaveSwapMode")
  <2> DEFINE a == [exec.action EXCEPT !.status = "success"]
  <2>1. a \in ActionsOf(orders) /\ a.status \in Ended /\ Names(orders, a)
    BY <1>2 DEF ActionsOf, Names
  <2>2. exec' = [exec EXCEPT !.pc = "save", !.action = a, !.then = "leaveSwapMode", !.held = exec.held]
    BY <1>2, <1>5 DEF SaveThen, Execs
  <2>3. exec.held \in [Legs -> [status : Statuses \cup {"none"}, executed : 0..Qty]]
    BY <1>2 DEF Execs
  <2> HIDE DEF a
  <2>4. a \in ActionsOf(orders') /\ Names(orders', a)
    BY <1>1, <2>1
  <2> QED
    BY <1>1, <1>3, <2>1, <2>2, <2>3, <2>4, SavesKeeps
<1>6. exec.leg < 3 \/ exec.leg = 3
  BY <1>2 DEF Execs, Legs
<1> QED
  BY <1>4, <1>5, <1>6 DEF LegDone

\* What a cancelled order and a refusal to cancel leave of the orders
LEMMA CancelLeaves ==
    ASSUME IInv, exec.pc \in AtOrder, CancelOrdered \/ CancelRefused
    PROVE  /\ orders' \in Seq(LegOrders) /\ Keeps(orders, orders') /\ Len(orders') = Len(orders)
           /\ InOrder(orders') /\ free' \in [Assets -> Nat]
<1>1. exec.action.id[exec.leg] \in 1..Len(orders)
  BY OrderOfLeg
<1>2. orders \in Seq(LegOrders) /\ free \in [Assets -> Nat] /\ InOrder(orders)
  BY TypesAre DEF IInv, OrderFacts
<1>3. CASE CancelOrdered
  <2>1. /\ orders' \in Seq(LegOrders) /\ Keeps(orders, orders') /\ Len(orders') = Len(orders)
        /\ free' \in [Assets -> Nat]
    BY <1>1, <1>2, <1>3, CancelKeeps
  <2>2. (Len(orders) + 1)..Len(orders') = {}
    BY <1>2, <2>1
  <2> QED
    BY <1>2, <2>1, <2>2, InOrderKept
<1>4. CASE CancelRefused
  BY <1>2, <1>4, SameOrders DEF CancelRefused
<1> QED
  BY <1>3, <1>4

LEMMA CancelOneKeeps ==
    ASSUME IInv, CancelOne
    PROVE  IInv'
<1>1. exec.pc = "cancelOne" /\ UNCHANGED <<row, position, cancels, crashes>>
  BY DEF CancelOne
<1>2. Fault \/ UNCHANGED faults
  BY DEF CancelOne, CancelRefused
<1>3. /\ orders' \in Seq(LegOrders) /\ Keeps(orders, orders') /\ InOrder(orders') /\ free' \in [Assets -> Nat]
      /\ Len(orders') = Len(orders)
  BY <1>1, CancelLeaves DEF CancelOne
<1>4. cancels' \in 0..MaxCancels
  BY <1>1 DEF IInv, TypeOK
<1>5. CASE Goto("watch")
  BY <1>1, <1>2, <1>3, <1>4, <1>5, GoesOn
<1>6. CASE SaveThen(Canceled(exec.action), "leaveSwapMode")
  <2>1. exec \in Execs(orders) /\ exec.action \in ActionsOf(orders) /\ Names(orders, exec.action)
    BY <1>1, Working
  <2>2. exec.action \in ActionsOf(orders') /\ Names(orders', exec.action)
    BY <1>3, <2>1, ActionsKept, NamesKept, TypesAre DEF IInv
  <2>3. exec' = [exec EXCEPT !.pc = "save", !.action = Canceled(exec.action), !.then = "leaveSwapMode",
                             !.held = exec.held]
    BY <1>6, <2>1 DEF SaveThen, Execs
  <2>4. exec.held \in [Legs -> [status : Statuses \cup {"none"}, executed : 0..Qty]]
    BY <2>1 DEF Execs
  <2>5. faults' \in 0..MaxFaults
    BY <1>2, FaultsInRange
  <2>6. /\ Canceled(exec.action) \in ActionsOf(orders') /\ Names(orders', Canceled(exec.action))
        /\ Canceled(exec.action).status \in Ended
    BY <2>2, CanceledAction
  <2> QED
    BY <1>1, <1>3, <1>4, <2>3, <2>4, <2>5, <2>6, SavesKeeps
<1> QED
  BY <1>5, <1>6 DEF CancelOne

LEMMA ConsiderKeeps ==
    ASSUME IInv, Consider
    PROVE  IInv'
<1>1. exec.pc \in {"rollback", "force"} /\ UNCHANGED <<orders, free, row, position, cancels, faults, crashes>>
  BY DEF Consider
<1>2. exec \in Execs(orders) /\ free \in [Assets -> Nat] /\ exec.leg \in {2, 3}
  BY <1>1, Working, TypesAre DEF IInv, Control, LegOfPlace
<1>3. orders' \in Seq(LegOrders) /\ Keeps(orders, orders') /\ InOrder(orders') /\ free' \in [Assets -> Nat]
        /\ cancels' \in 0..MaxCancels /\ faults' \in 0..MaxFaults
  BY <1>1, SameOrders DEF IInv, TypeOK
<1>4. CASE Goto("watch")
  BY <1>1, <1>3, <1>4, GoesOn
<1>5. CASE exec' = [exec EXCEPT !.pc = "cancelLeg", !.balance = free[exec.leg - 1]]
  <2>1. free[exec.leg - 1] \in Nat /\ exec.attempt \in 0..MaxAttempts
    BY <1>2 DEF Assets, Execs
  <2>2. exec' = [exec EXCEPT !.pc = "cancelLeg", !.balance = free[exec.leg - 1], !.attempt = exec.attempt]
    BY <1>2, <1>5 DEF Execs
  <2> QED
    BY <1>1, <1>2, <1>3, <2>1, <2>2, GotoKeeps
<1> QED
  BY <1>4, <1>5 DEF Consider

LEMMA CancelLegKeeps ==
    ASSUME IInv, CancelLeg
    PROVE  IInv'
<1>1. exec.pc = "cancelLeg" /\ UNCHANGED <<row, position, cancels, crashes>>
  BY DEF CancelLeg
<1>2. Fault \/ UNCHANGED faults
  BY DEF CancelLeg, CancelRefused
<1>3. /\ orders' \in Seq(LegOrders) /\ Keeps(orders, orders') /\ InOrder(orders') /\ free' \in [Assets -> Nat]
      /\ cancels' \in 0..MaxCancels /\ faults' \in 0..MaxFaults
  BY <1>1, <1>2, CancelLeaves, FaultsInRange DEF CancelLeg, IInv, TypeOK
<1>4. CASE Goto("watch")
  BY <1>1, <1>2, <1>3, <1>4, GoesOn
<1>5. ASSUME NEW pc \in {"tryRollback", "readBalance"}, exec' = [exec EXCEPT !.pc = pc, !.attempt = 1],
             pc = "tryRollback" <=> exec.leg = 2
      PROVE  IInv'
  <2>1. exec \in Execs(orders) /\ exec.leg \in {2, 3}
    BY <1>1, Working DEF IInv, Control, LegOfPlace
  <2>2. exec' = [exec EXCEPT !.pc = pc, !.balance = exec.balance, !.attempt = 1]
    BY <1>5, <2>1 DEF Execs
  <2>3. exec.balance \in Nat /\ 1 \in 0..MaxAttempts
    BY <2>1 DEF Execs
  <2>4. pc = "readBalance" => exec.leg = 3
    BY <1>5, <2>1
  <2> QED
    BY <1>1, <1>3, <1>5, <2>2, <2>3, <2>4, GotoKeeps
<1> QED
  BY <1>4, <1>5 DEF CancelLeg

LEMMA ReadBalanceKeeps ==
    ASSUME IInv, ReadBalance
    PROVE  IInv'
<1>1. exec.pc = "readBalance" /\ UNCHANGED <<orders, free, row, position, cancels, crashes>>
  BY DEF ReadBalance
<1>2. Fault \/ UNCHANGED faults
  BY DEF ReadBalance
<1>3. /\ orders' \in Seq(LegOrders) /\ Keeps(orders, orders') /\ InOrder(orders') /\ free' \in [Assets -> Nat]
      /\ cancels' \in 0..MaxCancels /\ faults' \in 0..MaxFaults
  BY <1>1, <1>2, SameOrders, FaultsInRange DEF IInv, TypeOK
<1>4. CASE Goto("watch")
  BY <1>1, <1>2, <1>3, <1>4, GoesOn
<1>5. CASE exec' = [exec EXCEPT !.pc = "tryForce", !.balance = free[2]]
  <2>1. exec \in Execs(orders) /\ exec.leg = 3 /\ free[2] \in Nat
    BY <1>1, Working, TypesAre DEF IInv, Control, LegOfPlace, Assets
  <2>2. exec' = [exec EXCEPT !.pc = "tryForce", !.balance = free[2], !.attempt = exec.attempt]
    BY <1>5, <2>1 DEF Execs
  <2>3. exec.attempt \in 0..MaxAttempts
    BY <2>1 DEF Execs
  <2> QED
    BY <1>1, <1>3, <2>1, <2>2, <2>3, GotoKeeps
<1> QED
  BY <1>4, <1>5 DEF ReadBalance

-----------------------------------------------------------------------------
(***************************************************************************)
(* Orders placed                                                           *)
(***************************************************************************)
LEMMA PlacedKeeps ==
    ASSUME IInv, NEW p \in LegOrders, p.leg = exec.leg, Take(p)
    PROVE  /\ orders' \in Seq(LegOrders) /\ Len(orders') = Len(orders) + 1
           /\ orders'[Len(orders) + 1] = p /\ Keeps(orders, orders') /\ InOrder(orders')
           /\ free' \in [Assets -> Nat]
<1>1. orders \in Seq(LegOrders) /\ free \in [Assets -> Nat] /\ exec.leg \in Legs
  BY TypesAre DEF IInv, Execs
<1>2. /\ orders' \in Seq(LegOrders) /\ Len(orders') = Len(orders) + 1
      /\ orders'[Len(orders) + 1] = p /\ Keeps(orders, orders') /\ free' \in [Assets -> Nat]
  BY <1>1, TakeKeeps
<1>3. exec.leg > 1 => FilledLeg(orders, exec.leg - 1)
  BY <1>1 DEF IInv, OrderFacts, LegsBehind, Legs
<1>4. \A n \in (Len(orders) + 1)..Len(orders') : n = Len(orders) + 1
  BY <1>1, <1>2
<1>5. InOrder(orders')
  BY <1>1, <1>2, <1>3, <1>4, InOrderKept DEF IInv, OrderFacts
<1> QED
  BY <1>2, <1>5

\* FormatQuantity brings the lesser of two quantities between a lot and the whole.
LEMMA QuantityInRange ==
    ASSUME NEW m \in 0..Qty, NEW b \in Nat
    PROVE  /\ FormatQuantity(Lesser(m, b)) \in 1..Qty
           /\ Lesser(m, b) >= 1 => Lesser(m, b) \in 1..Qty
BY DEF FormatQuantity, Lesser

LEMMA LegQuantityInRange ==
    ASSUME IInv, NEW l \in Legs
    PROVE  LegQuantity(l) \in 1..Qty
<1>1. CASE l = 1
  BY <1>1 DEF LegQuantity
<1>2. CASE l # 1
  <2>1. exec.held[l - 1].executed \in 0..Qty /\ free[l - 1] \in Nat
    <3>1. l - 1 \in Legs /\ l - 1 \in Assets
      BY <1>2 DEF Legs, Assets
    <3>2. exec.held \in [Legs -> [status : Statuses \cup {"none"}, executed : 0..Qty]] /\ free \in [Assets -> Nat]
      BY TypesAre DEF IInv, Execs
    <3> QED
      BY <3>1, <3>2
  <2>2. LegQuantity(l) = FormatQuantity(Lesser(exec.held[l - 1].executed, free[l - 1]))
    BY <1>2 DEF LegQuantity
  <2> QED
    BY <2>1, <2>2, QuantityInRange
<1> QED
  BY <1>1, <1>2

\* A mistaken quantity is smaller.
LEMMA OrderedInRange ==
    ASSUME IInv, NEW l \in Legs, NEW q \in 1..LegQuantity(l)
    PROVE  q \in 1..Qty
<1>1. LegQuantity(l) \in 1..Qty
  BY LegQuantityInRange
<1> HIDE DEF LegQuantity
<1> QED
  BY <1>1

\* The lesser of what the leg before brought and of the balance, when it is not nothing
LEMMA CutInRange ==
    ASSUME IInv, NEW l \in Legs, Lesser(exec.held[l].executed, exec.balance) > 0
    PROVE  Lesser(exec.held[l].executed, exec.balance) \in 1..Qty
<1>1. exec.held[l].executed \in 0..Qty /\ exec.balance \in Nat
  BY TypesAre DEF IInv, Execs
<1>2. ASSUME NEW m \in 0..Qty, NEW b \in Nat, Lesser(m, b) > 0 PROVE Lesser(m, b) \in 1..Qty
  BY <1>2 DEF Lesser
<1> QED
  BY <1>1, <1>2

LEMMA PlaceLegKeeps ==
    ASSUME IInv, PlaceLeg
    PROVE  IInv'
<1>1. exec.pc = "leg" /\ UNCHANGED <<row, position, cancels, crashes>>
  BY DEF PlaceLeg
<1>2. /\ exec \in Execs(orders) /\ exec.action \in ActionsOf(orders) /\ exec.action.status \in Active
      /\ Names(orders, exec.action) /\ exec.leg \in Legs /\ orders \in Seq(LegOrders)
  BY <1>1, Working, TypesAre DEF IInv, Execs
<1>3. PICK q \in 1..LegQuantity(exec.leg) : \E p \in Accepted(exec.leg, q, FALSE, "GTC") :
         /\ Take(p)
         /\ exec' = [exec EXCEPT !.pc = "save", !.then = AfterAnswer(p),
                                 !.action = WithId(Len(orders) + 1), !.held = Holding(p)]
  BY DEF PlaceLeg
<1>4. PICK p \in Accepted(exec.leg, q, FALSE, "GTC") :
         /\ Take(p)
         /\ exec' = [exec EXCEPT !.pc = "save", !.then = AfterAnswer(p),
                                 !.action = WithId(Len(orders) + 1), !.held = Holding(p)]
  BY <1>3
<1>5. p \in LegOrders /\ p.leg = exec.leg /\ ~p.back
  BY <1>2, <1>3, OrderedInRange, GoesForth
<1>6. /\ orders' \in Seq(LegOrders) /\ Len(orders') = Len(orders) + 1
      /\ orders'[Len(orders) + 1] = p /\ Keeps(orders, orders') /\ InOrder(orders')
      /\ free' \in [Assets -> Nat]
  BY <1>4, <1>5, PlacedKeeps
<1>7. Len(orders) + 1 \in 0..Len(orders') /\ Len(orders) + 1 # None
  BY <1>2, <1>6 DEF None
<1>8. /\ WithId(Len(orders) + 1) \in ActionsOf(orders') /\ Names(orders', WithId(Len(orders) + 1))
      /\ WithId(Len(orders) + 1).status \in Active
      /\ WithId(Len(orders) + 1).id[exec.leg] = Len(orders) + 1
  BY <1>2, <1>5, <1>6, <1>7, IdIsNamed
<1>9. /\ Holding(p) \in [Legs -> [status : Statuses \cup {"none"}, executed : 0..Qty]]
      /\ Holding(p)[exec.leg].status = p.status
  BY <1>5, HoldingIsCopy
<1>10. AfterAnswer(p) \in {"legDone", "watch"} /\ (AfterAnswer(p) = "legDone" => IsFilled(p))
  BY DEF AfterAnswer
<1>11. faults' \in 0..MaxFaults /\ cancels' \in 0..MaxCancels
  BY <1>1, FaultsInRange DEF PlaceLeg, IInv, TypeOK
<1>12. ASSUME NEW a \in ActionsOf(orders'), Names(orders', a), a.status \notin Ended, a.id[exec.leg] = Len(orders) + 1,
              NEW then \in {"legDone", "watch"}, then = "legDone" => IsFilled(p),
              NEW held \in [Legs -> [status : Statuses \cup {"none"}, executed : 0..Qty]],
              held[exec.leg].status = p.status,
              exec' = [exec EXCEPT !.pc = "save", !.action = a, !.then = then, !.held = held]
       PROVE  IInv'
  <2>1. then \in Resumed /\ then # "leaveSwapMode" /\ a.id[exec.leg] # None
    BY <1>7, <1>12
  <2>2. /\ then = "legDone" => held[exec.leg].status = "FILLED"
        /\ held[exec.leg].status = "FILLED" => IsFilled(orders'[a.id[exec.leg]])
    BY <1>6, <1>12 DEF IsFilled
  <2> QED
    BY <1>1, <1>6, <1>11, <1>12, <2>1, <2>2, SavesKeeps
<1>13. exec' = [exec EXCEPT !.pc = "save", !.action = WithId(Len(orders) + 1), !.then = AfterAnswer(p), !.held = Holding(p)]
  BY <1>2, <1>4 DEF Execs
<1>14. WithId(Len(orders) + 1).status \notin Ended
  BY <1>8
<1> QED
  BY <1>8, <1>9, <1>10, <1>12, <1>13, <1>14

\* An order of the rollback or of the forced leg: the attempts go on, or the action is
\* done.
LEMMA AttemptKeeps ==
    ASSUME IInv, exec.pc \in {"tryRollback", "tryForce"},
           UNCHANGED <<row, position, cancels, crashes>>, Fault \/ UNCHANGED faults,
           orders' \in Seq(LegOrders), Keeps(orders, orders'), InOrder(orders'), free' \in [Assets -> Nat],
           Attempted
    PROVE  IInv'
<1>1. exec \in Execs(orders) /\ faults' \in 0..MaxFaults /\ cancels' \in 0..MaxCancels
  BY Working, FaultsInRange DEF IInv, TypeOK
<1>2. (exec.pc = "tryRollback" /\ exec.leg = 2) \/ (exec.pc = "tryForce" /\ exec.leg = 3)
  BY DEF IInv, Control, LegOfPlace
<1>3. CASE Goto("watch")
  BY <1>1, <1>2, <1>3, GoesOn
<1>4. CASE exec.attempt < MaxAttempts /\ exec' = [exec EXCEPT !.attempt = exec.attempt + 1]
  <2>1. exec.attempt + 1 \in 0..MaxAttempts /\ exec.balance \in Nat
    BY <1>1, <1>4 DEF Execs
  <2>2. exec' = [exec EXCEPT !.pc = exec.pc, !.balance = exec.balance, !.attempt = exec.attempt + 1]
    BY <1>1, <1>4 DEF Execs
  <2>3. ASSUME NEW pc \in {"tryRollback", "tryForce"}, pc = exec.pc,
               exec' = [exec EXCEPT !.pc = pc, !.balance = exec.balance, !.attempt = exec.attempt + 1]
        PROVE  IInv'
    BY <1>1, <1>2, <2>1, <2>3, GotoKeeps
  <2> QED
    BY <1>2, <2>2, <2>3
<1> QED
  BY <1>3, <1>4 DEF Attempted

LEMMA DoneKeeps ==
    ASSUME IInv, exec.pc \in {"tryRollback", "tryForce"},
           UNCHANGED <<row, position, cancels, crashes, faults>>,
           orders' \in Seq(LegOrders), Len(orders') = Len(orders) + 1, Keeps(orders, orders'), InOrder(orders'),
           free' \in [Assets -> Nat], NEW p, Done(p)
    PROVE  IInv'
<1>1. exec \in Execs(orders) /\ exec.action \in ActionsOf(orders) /\ orders \in Seq(LegOrders)
  BY Working, TypesAre DEF IInv
<1>2. exec.action \in ActionsOf(orders') /\ Len(orders) + 1 \in 0..Len(orders') /\ exec \in Execs(orders')
  BY <1>1, ActionsKept DEF Execs
<1> DEFINE a == [WithId(Len(orders) + 1) EXCEPT !.status = "success"]
<1>3. a \in ActionsOf(orders') /\ a.status \in Ended
  BY <1>2 DEF WithId, ActionsOf, Execs
<1>4. exec' = [exec EXCEPT !.pc = "saveOrPanic", !.action = a]
  BY DEF Done
<1> HIDE DEF a
<1>5. exec' \in Execs(orders') /\ exec'.pc = "saveOrPanic" /\ exec'.leg = exec.leg /\ exec'.action = a
  BY <1>2, <1>3, <1>4 DEF Execs, Places
<1>6. LegOfPlace' /\ faults' \in 0..MaxFaults /\ cancels' \in 0..MaxCancels
  BY <1>5 DEF LegOfPlace, IInv, TypeOK
<1>7. ASSUME NEW at, at = "saveOrPanic" PROVE IInv'
  BY <1>3, <1>5, <1>6, <1>7, Moves
<1> QED
  BY <1>7

LEMMA TryRollbackKeeps ==
    ASSUME IInv, TryRollback
    PROVE  IInv'
<1> DEFINE q == Lesser(exec.held[1].executed, exec.balance)
<1>1. exec.pc = "tryRollback" /\ UNCHANGED <<row, position, cancels, crashes>> /\ exec.leg = 2
  BY DEF TryRollback, IInv, Control, LegOfPlace
<1>2. q > 0 => q \in 1..Qty
  BY CutInRange DEF Legs
<1>3. CASE Goto("watch") /\ UNCHANGED <<orders, free>> /\ (Fault \/ UNCHANGED faults)
  BY <1>1, <1>3, SameOrders, GoesOn DEF IInv, TypeOK
<1>4. CASE q > 0 /\ \E p \in Accepted(2, q, TRUE, "IOC") :
              Take(p) /\ UNCHANGED faults /\ IF IsFilled(p) THEN Done(p) ELSE Attempted
  <2>1. PICK p \in Accepted(2, q, TRUE, "IOC") :
              Take(p) /\ UNCHANGED faults /\ IF IsFilled(p) THEN Done(p) ELSE Attempted
    BY <1>4
  <2>2. p \in LegOrders /\ p.leg = exec.leg
    BY <1>1, <1>2, <1>4, SellsBack
  <2>3. /\ orders' \in Seq(LegOrders) /\ Len(orders') = Len(orders) + 1
        /\ Keeps(orders, orders') /\ InOrder(orders') /\ free' \in [Assets -> Nat]
    BY <2>1, <2>2, PlacedKeeps
  <2> QED
    BY <1>1, <2>1, <2>3, DoneKeeps, AttemptKeeps
<1> QED
  BY <1>3, <1>4 DEF TryRollback, RefusedFor

LEMMA TryForceKeeps ==
    ASSUME IInv, TryForce
    PROVE  IInv'
<1> DEFINE q == Lesser(exec.held[2].executed, exec.balance)
<1>1. exec.pc = "tryForce" /\ UNCHANGED <<row, position, cancels, crashes>> /\ exec.leg = 3
  BY DEF TryForce, IInv, Control, LegOfPlace
<1>2. q > 0 => q \in 1..Qty
  BY CutInRange DEF Legs
<1>3. CASE Goto("watch") /\ UNCHANGED <<orders, free, faults>>
  BY <1>1, <1>3, SameOrders, GoesOn DEF IInv, TypeOK
<1>4. CASE q > 0 /\ RefusedFor(2, q) /\ Attempted /\ UNCHANGED <<orders, free>>
  <2>1. Fault \/ UNCHANGED faults
    BY <1>4 DEF RefusedFor
  <2> QED
    BY <1>1, <1>4, <2>1, SameOrders, AttemptKeeps DEF IInv, TypeOK
<1>5. CASE q > 0 /\ \E p \in Accepted(3, q, FALSE, "IOC") :
              Take(p) /\ UNCHANGED faults /\ IF IsFilled(p) THEN Done(p) ELSE Attempted
  <2>1. PICK p \in Accepted(3, q, FALSE, "IOC") :
              Take(p) /\ UNCHANGED faults /\ IF IsFilled(p) THEN Done(p) ELSE Attempted
    BY <1>5
  <2>2. p \in LegOrders /\ p.leg = exec.leg
    BY <1>1, <1>2, <1>5, ForcesLeg
  <2>3. /\ orders' \in Seq(LegOrders) /\ Len(orders') = Len(orders) + 1
        /\ Keeps(orders, orders') /\ InOrder(orders') /\ free' \in [Assets -> Nat]
    BY <2>1, <2>2, PlacedKeeps
  <2> QED
    BY <1>1, <2>1, <2>3, DoneKeeps, AttemptKeeps
<1> QED
  BY <1>3, <1>4, <1>5 DEF TryForce

LEMMA SaveOrPanicKeeps ==
    ASSUME IInv, SaveOrPanic
    PROVE  IInv'
<1>1. exec.pc = "saveOrPanic" /\ Leave /\ UNCHANGED <<orders, free, position, cancels>>
  BY DEF SaveOrPanic
<1>2. row' = exec.action \/ row' = row
  BY DEF SaveOrPanic
<1>3. exec \in Execs(orders) /\ row \in ActionsOf(orders) /\ exec.action.status \in Ended /\ position
  BY <1>1, TypesAre DEF IInv, Control, EndIsTheEnd, ModeFollowsAction
<1>4. row' \in ActionsOf(orders) /\ (row'.status \in Active => Names(orders, row'))
  BY <1>2, <1>3 DEF Execs, IInv, OrderFacts, IdsNameLegs
<1>5. faults' \in 0..MaxFaults /\ crashes' \in 0..MaxCrashes
  BY DEF SaveOrPanic, Fault, IInv, TypeOK
<1>6. position' \in BOOLEAN /\ position'
  BY <1>1, <1>3
<1> QED
  BY <1>1, <1>4, <1>5, <1>6, LeaveKeeps

-----------------------------------------------------------------------------
(***************************************************************************)
(* The theorems                                                            *)
(***************************************************************************)
LEMMA CrashKeeps ==
    ASSUME IInv, Crash
    PROVE  IInv'
<1>1. Leave /\ UNCHANGED <<orders, free, row, position, cancels, faults>>
  BY DEF Crash
<1>2. crashes' \in 0..MaxCrashes /\ faults' \in 0..MaxFaults
  BY <1>1 DEF Crash, IInv, TypeOK
<1>3. ~position => row.status \in Ended \/ faults > 0
  BY DEF IInv, Control, ModeFollowsAction
<1> QED
  BY <1>1, <1>2, <1>3, LeaveKeeps, TypesAre DEF IInv, OrderFacts, IdsNameLegs

LEMMA StepInv == IInv /\ [Next]_vars => IInv'
<1> SUFFICES ASSUME IInv, [Next]_vars PROVE IInv'
  OBVIOUS
<1>1. CASE Execute
  BY <1>1, BeginKeeps, GetChainKeeps, SaveKeeps, LeaveSwapModeKeeps, PlaceLegKeeps, LegRefusedKeeps,
     ResumeKeeps, WatchKeeps, JudgeKeeps, LegDoneKeeps, CancelOneKeeps, ConsiderKeeps, CancelLegKeeps,
     ReadBalanceKeeps, TryRollbackKeeps, TryForceKeeps, SaveOrPanicKeeps DEF Execute
<1>2. CASE UNCHANGED vars
  <2>1. TypeOK'
    BY <1>2 DEF vars, IInv, TypeOK, Actions
  <2>2. Control'
    BY <1>2 DEF vars, IInv, Control, HasOrder, LegOfPlace, DoneIsFilled, EndIsTheEnd, ModeFollowsAction
  <2>3. OrderFacts'
    BY <1>2 DEF vars, IInv, OrderFacts, InOrder, IdsNameLegs, Names, CopyIsRight, LegsBehind
  <2> QED
    BY <2>1, <2>2, <2>3 DEF IInv
<1> QED
  BY <1>1, <1>2, ExchangeKeeps, CrashKeeps DEF Next, Terminated

\* Whatever is refused, cancelled, lost or fails: every variable keeps its type, and
\* Execute never asks for an order under a nil external id.
THEOREM SwapTypeCorrect == Spec => []TypeOK
<1>1. IInv => TypeOK
  BY DEF IInv
<1> QED
  BY InitInv, StepInv, <1>1, PTL DEF Spec

\* No leg is ordered before the leg before it was filled, however often Execute is
\* interrupted and begun again (swap_executor.go 27-98).
THEOREM LegsInOrderCorrect == Spec => []LegsInOrder
<1>1. IInv => LegsInOrder
  <2> SUFFICES ASSUME IInv, NEW n \in DOMAIN orders, orders[n].leg > 1
               PROVE  \E p \in Placed : p.leg = orders[n].leg - 1 /\ ~p.back /\ IsFilled(p)
    BY DEF LegsInOrder, Placed
  <2>1. n \in 1..Len(orders) /\ DOMAIN orders = 1..Len(orders)
    BY TypesAre DEF IInv
  <2>2. FilledLeg(orders, orders[n].leg - 1)
    BY <2>1 DEF IInv, OrderFacts, InOrder
  <2> QED
    BY <2>1, <2>2 DEF FilledLeg, Placed
<1> QED
  BY InitInv, StepInv, <1>1, PTL DEF Spec

\* An active action keeps its position in swap mode, so that Execute comes back to it,
\* unless a request failed (swap_executor.go 81-98).
THEOREM SwapModeCorrect == Spec => []SwapModeCoversAction
<1>1. IInv => SwapModeCoversAction
  BY DEF IInv, TypeOK, Control, ModeFollowsAction, SwapModeCoversAction
<1> QED
  BY InitInv, StepInv, <1>1, PTL DEF Spec

\* An ended action is never written again and orders nothing.
THEOREM EndedActionCorrect == Spec => EndedActionRests
<1>1. IInv /\ IInv' /\ [Next]_vars =>
          (row.status \in Ended => row' = row /\ orders' \in Seq(LegOrders) /\ Len(orders') = Len(orders))
  <2> SUFFICES ASSUME IInv, IInv', [Next]_vars, row.status \in Ended
               PROVE  row' = row /\ orders' \in Seq(LegOrders) /\ Len(orders') = Len(orders)
    OBVIOUS
  <2>1. orders \in Seq(LegOrders) /\ orders' \in Seq(LegOrders)
    BY DEF IInv, TypeOK
  <2>2. exec.pc \in {"idle", "leaveSwapMode"}
    BY DEF IInv, Control, EndIsTheEnd
  <2>3. CASE Execute
    BY <2>2, <2>3, <2>1
       DEF Execute, Begin, GetSwapChainById, Save, LeaveSwapMode, PlaceLeg, LegRefused, ResumeLeg, Watch,
           Judge, LegDone, CancelOne, Consider, CancelLeg, ReadBalance, TryRollback, TryForce, SaveOrPanic
  <2>4. CASE Exchange
    BY <2>1, <2>4 DEF Exchange
  <2>5. CASE Crash \/ UNCHANGED vars
    BY <2>1, <2>5 DEF Crash, vars
  <2> QED
    BY <2>3, <2>4, <2>5 DEF Next, Terminated
<1> QED
  BY InitInv, StepInv, <1>1, PTL DEF Spec, EndedActionRests

-----------------------------------------------------------------------------
(***************************************************************************)
(* What a step does to the orders, to the ids of the row and of the copy,  *)
(* and to the place of Execute: the bounds on the orders left behind only  *)
(* depend on this.                                                         *)
(***************************************************************************)
\* Orders keep their place and purpose, settled ones stay as they are, and a new one is
\* dead already.
Fewer(os, ps) ==
    /\ Len(os) <= Len(ps)
    /\ \A n \in 1..Len(os) :
          /\ ps[n].leg = os[n].leg /\ ps[n].back = os[n].back
          /\ IsFilled(os[n]) => IsFilled(ps[n])
          /\ IsDead(os[n]) => IsDead(ps[n])
    /\ \A n \in 1..Len(ps) :
          /\ ~IsDead(ps[n]) => n \in 1..Len(os)
          /\ IsLive(ps[n]) => n \in 1..Len(os) /\ IsLive(os[n])

\* Order p is placed.
Adds(os, ps, p) == ps = Append(os, p)

Work == {"chain", "leg", "watch", "judge", "legDone", "cancelOne", "rollback", "force",
         "cancelLeg", "readBalance", "tryRollback", "tryForce"}
AtDead == {"readBalance", "tryRollback", "tryForce"}

\* Before the leg's order is looked at, the copy has the ids of the row.
Starting == exec.pc \in {"chain", "leg"} \/ (exec.pc = "save" /\ exec.then = "chain")

\* The saves and requests that failed since the current leg was placed, when its order is
\* not in the row
Missed ==
    CASE exec.pc = "save" /\ exec.then = "watch" -> 0
      [] exec.pc = "save" /\ exec.then = "judge" -> 1
      [] exec.pc = "save" /\ exec.then = "legDone" -> 2
      [] exec.pc = "save" /\ exec.then = "leaveSwapMode" -> 3
      [] exec.pc = "judge" -> 2
      [] exec.pc = "legDone" -> 3
      [] exec.pc = "leaveSwapMode" -> 4
      [] OTHER -> 1

CurrentId == exec.action.id[exec.leg]
IsOpen(os, n) == n \in 1..Len(os) /\ ~IsDead(os[n])
IsDeadId(os, n) == n \in 1..Len(os) /\ IsDead(os[n])

\* The exchange works, or a request fails and is repeated.
Stays ==
    /\ UNCHANGED <<exec, row, position, crashes>> /\ faults' >= faults
    /\ Fewer(orders, orders')

Begins ==
    /\ exec.pc = "idle" /\ position /\ row.status \in Active
    /\ exec'.pc = "chain" \/ (exec'.pc = "save" /\ exec'.then = "chain")
    /\ exec'.leg = 1 /\ exec'.action.id = row.id
    /\ UNCHANGED <<orders, row, position, faults, crashes>>

BeginsToLeave ==
    /\ exec.pc = "idle" /\ row.status \in Ended /\ exec'.pc = "leaveSwapMode"
    /\ UNCHANGED <<orders, row, position, faults, crashes>>

\* Execute goes on with the leg as it is.
Proceeds ==
    /\ exec.pc \in Work /\ exec'.pc \in Work \cup {"save"}
    /\ exec'.action.id = exec.action.id /\ exec'.leg = exec.leg
    /\ UNCHANGED <<row, position, crashes>> /\ faults' >= faults
    /\ Fewer(orders, orders')
    /\ Starting' => Starting
    /\ Starting \/ Missed' <= Missed \/ ~IsOpen(orders', CurrentId) \/ IsFilled(orders'[CurrentId])
    /\ exec'.pc \in AtDead => IsDeadId(orders', CurrentId)
    /\ Heading' = "judge" /\ Gone(exec'.held[exec'.leg]) => IsDeadId(orders', CurrentId)
    /\ exec'.pc = "save" => exec'.then # "idle"

\* It forgets a dead order.
Forgets ==
    /\ exec.pc \in Work /\ exec'.pc = "save" /\ exec'.then = "idle"
    /\ exec'.leg = exec.leg
    /\ IsDeadId(orders, CurrentId)
    /\ exec'.action.id = [exec.action.id EXCEPT ![exec.leg] = None]
    /\ UNCHANGED <<orders, row, position, faults, crashes>>

\* It places the order of the leg.
OrdersLeg(p) ==
    /\ exec.pc = "leg" /\ CurrentId = None
    /\ exec'.pc = "save" /\ exec'.then \in {"watch", "legDone"} /\ exec'.leg = exec.leg
    /\ exec'.then = "legDone" => IsFilled(p)
    /\ exec'.action.id = [exec.action.id EXCEPT ![exec.leg] = Len(orders) + 1]
    /\ Adds(orders, orders', p) /\ p.leg = exec.leg /\ ~p.back
    /\ UNCHANGED <<row, position, crashes>> /\ faults' >= faults

\* It takes the next leg.
TakesNext ==
    /\ exec.pc = "legDone" /\ exec.leg < 3 /\ exec'.pc = "leg" /\ exec'.leg = exec.leg + 1
    /\ exec'.action.id = exec.action.id
    /\ UNCHANGED <<orders, row, position, faults, crashes>>

\* It writes the row, or the write fails.
Saves ==
    /\ exec.pc = "save"
    /\ \/ row' = exec.action /\ faults' = faults
       \/ row' = row /\ faults' = faults + 1
    /\ \/ exec.then = "idle" /\ exec' = Idle
       \/ exec.then # "idle" /\ exec' = [exec EXCEPT !.pc = exec.then]
    /\ UNCHANGED <<orders, position, crashes>>

\* An order that replaced a dead one is filled: the action is done.
Replaces(p) ==
    /\ exec.pc \in {"tryRollback", "tryForce"} /\ exec'.pc = "saveOrPanic"
    /\ exec'.leg = exec.leg
    /\ exec'.action.id = [exec.action.id EXCEPT ![exec.leg] = Len(orders) + 1]
    /\ Adds(orders, orders', p) /\ p.leg = exec.leg /\ IsFilled(p)
    /\ UNCHANGED <<row, position, faults, crashes>>

\* It returns: before it has looked at the leg's order, when all is done, or in a crash.
Returns ==
    /\ exec' = Idle /\ UNCHANGED <<orders, row>>
    /\ \/ exec.pc \in {"chain", "leg"} /\ UNCHANGED <<position, crashes>> /\ faults' >= faults
       \/ /\ exec.pc = "leaveSwapMode" /\ UNCHANGED crashes
          /\ (~position' /\ faults' = faults) \/ (position' = position /\ faults' = faults + 1)
       \/ exec.pc # "idle" /\ crashes' = crashes + 1 /\ UNCHANGED position /\ faults' >= faults

SavesTheEnd ==
    /\ exec.pc = "saveOrPanic" /\ exec' = Idle
    /\ row' = exec.action /\ UNCHANGED <<orders, position, faults, crashes>>

LegStep ==
    \/ Stays \/ Begins \/ BeginsToLeave \/ Proceeds \/ Forgets
    \/ \E p \in LegOrders : OrdersLeg(p)
    \/ TakesNext \/ Saves
    \/ \E p \in LegOrders : Replaces(p)
    \/ Returns \/ SavesTheEnd

\* What the copy says of a dead order is right, and the order that was cancelled to be
\* replaced is dead.
CopyIsDead == Heading = "judge" /\ Gone(exec.held[exec.leg]) => IsDeadId(orders, CurrentId)
DeadIsHeld == exec.pc \in AtDead => IsDeadId(orders, CurrentId)
DeadIsDead == CopyIsDead /\ DeadIsHeld

LEMMA FewerSame ==
    ASSUME NEW os \in Seq(LegOrders) PROVE Fewer(os, os)
BY DEF Fewer

LEMMA FewerChanged ==
    ASSUME NEW os \in Seq(LegOrders), NEW n \in 1..Len(os), NEW p \in LegOrders,
           p.leg = os[n].leg, p.back = os[n].back, IsLive(os[n])
    PROVE  LET ps == [os EXCEPT ![n] = p] IN
           Fewer(os, ps) /\ (IsDead(p) => IsDeadId(ps, n))
<1> DEFINE ps == [os EXCEPT ![n] = p]
<1>1. Len(ps) = Len(os) /\ \A i \in 1..Len(os) : ps[i] = IF i = n THEN p ELSE os[i]
  BY ExceptSeq
<1>2. ~IsFilled(os[n]) /\ ~IsDead(os[n])
  BY DEF IsLive, IsFilled, IsDead, IsCanceled, IsExpired
<1> HIDE DEF ps
<1>3. Fewer(os, ps)
  BY <1>1, <1>2 DEF Fewer
<1> QED
  BY <1>1, <1>3 DEF IsDeadId, ps

\* An order that is dead when it is answered adds nothing.
LEMMA FewerAppended ==
    ASSUME NEW os \in Seq(LegOrders), NEW p \in LegOrders, IsDead(p)
    PROVE  Fewer(os, Append(os, p))
<1> DEFINE ps == Append(os, p)
<1>1. Len(os) \in Nat /\ Len(ps) = Len(os) + 1 /\ ps[Len(os) + 1] = p
        /\ \A i \in 1..Len(os) : ps[i] = os[i]
  BY AppendProperties
<1>2. ~IsLive(p)
  BY DEF IsLive, IsDead, IsCanceled, IsExpired
<1> HIDE DEF ps
<1>3. \A i \in 1..Len(ps) : i \in 1..Len(os) \/ i = Len(os) + 1
  BY <1>1
<1>4. Len(os) <= Len(ps)
  BY <1>1
<1>5. Fewer(os, ps)
  BY <1>1, <1>2, <1>3, <1>4 DEF Fewer
<1> QED
  BY <1>5 DEF ps

\* Counts of failures only grow.
LEMMA FaultsGrow ==
    ASSUME IInv, Fault \/ UNCHANGED faults
    PROVE  faults' >= faults
BY TypesAre DEF IInv, Fault

LEMMA ExchangeStays ==
    ASSUME IInv, Exchange
    PROVE  Stays
<1>1. PICK n \in DOMAIN orders : \E p \in Later(orders[n]) :
         IsLive(orders[n]) /\ WellFormed(p, p.qty) /\ orders' = [orders EXCEPT ![n] = p]
  BY DEF Exchange
<1>2. PICK p \in Later(orders[n]) :
         IsLive(orders[n]) /\ WellFormed(p, p.qty) /\ orders' = [orders EXCEPT ![n] = p]
  BY <1>1
<1>3. orders \in Seq(LegOrders) /\ n \in 1..Len(orders) /\ orders[n] \in LegOrders
  BY <1>1, TypesAre, ElementOfSeq DEF IInv
<1>4. p \in LegOrders /\ p.leg = orders[n].leg /\ p.back = orders[n].back
  BY <1>2, <1>3, LaterIsOrder
<1>5. Fewer(orders, orders')
  BY <1>2, <1>3, <1>4, FewerChanged
<1> QED
  BY <1>5, FaultsGrow DEF Exchange, Stays

LEMMA BeginSteps ==
    ASSUME IInv, Begin
    PROVE  LegStep
<1>1. exec \in Execs(orders) /\ row \in ActionsOf(orders) /\ exec.pc = "idle" /\ position
        /\ UNCHANGED <<orders, free, row, position, cancels, crashes>>
  BY TypesAre DEF IInv, Begin
<1>2. CASE Fault /\ UNCHANGED exec
  BY <1>1, <1>2, FaultsGrow, FewerSame, TypesAre DEF Stays, LegStep, IInv
<1>3. CASE row.status \notin Active /\ Goto("leaveSwapMode") /\ UNCHANGED faults
  BY <1>1, <1>3 DEF Goto, Execs, ActionsOf, BeginsToLeave, LegStep
<1>4. CASE row.status \in Active /\ UNCHANGED faults
           /\ exec' = IF row.status = "pending"
                      THEN [Idle EXCEPT !.pc = "save", !.then = "chain",
                                        !.action = [row EXCEPT !.status = "process"]]
                      ELSE [Idle EXCEPT !.pc = "chain", !.action = row]
  <2>1. /\ exec'.leg = 1 /\ exec'.action.id = row.id
        /\ exec'.pc = "chain" \/ (exec'.pc = "save" /\ exec'.then = "chain")
    BY <1>1, <1>4 DEF Idle, ActionsOf
  <2> QED
    BY <1>1, <1>4, <2>1 DEF Begins, LegStep
<1> QED
  BY <1>2, <1>3, <1>4 DEF Begin

LEMMA SaveSteps ==
    ASSUME IInv, Save
    PROVE  Saves
BY DEF Save, Saves, Fault, Leave, Goto

LEMMA LeaveSwapModeSteps ==
    ASSUME IInv, LeaveSwapMode
    PROVE  Returns
BY DEF LeaveSwapMode, Returns, Fault, Leave

LEMMA CrashSteps ==
    ASSUME IInv, Crash
    PROVE  Returns
BY FaultsGrow DEF Crash, Returns, Leave

LEMMA SaveOrPanicSteps ==
    ASSUME IInv, SaveOrPanic
    PROVE  Returns \/ SavesTheEnd
<1>1. CASE row' = exec.action /\ UNCHANGED <<faults, crashes>>
  BY <1>1 DEF SaveOrPanic, SavesTheEnd, Leave
<1>2. CASE Fault /\ crashes' = crashes + 1 /\ UNCHANGED row
  BY <1>2, FaultsGrow DEF SaveOrPanic, Returns, Leave
<1> QED
  BY <1>1, <1>2 DEF SaveOrPanic

\* Execute goes on with the leg's order as it is, to `pc`, or to `then` when it has saved.
LEMMA ProceedsTo ==
    ASSUME IInv, exec.pc \in Work, UNCHANGED <<row, position, crashes>>,
           Fault \/ UNCHANGED faults, Fewer(orders, orders'),
           exec'.action.id = exec.action.id, exec'.leg = exec.leg,
           exec'.pc \in (Work \ {"chain"}) \cup {"save"},
           exec'.pc = "save" => exec'.then \in {"watch", "judge", "legDone", "leaveSwapMode"},
           exec'.pc = "leg" => exec.pc = "chain",
           Starting \/ Missed' <= Missed \/ IsDeadId(orders', CurrentId) \/ IsFilled(orders'[CurrentId]),
           exec'.pc \in AtDead => IsDeadId(orders', CurrentId),
           \/ exec'.pc # "judge" /\ ~(exec'.pc = "save" /\ exec'.then = "judge")
           \/ Gone(exec'.held[exec'.leg]) => IsDeadId(orders', CurrentId)
    PROVE  Proceeds
<1>1. faults' >= faults
  BY FaultsGrow
<1>2. Starting' => Starting
  BY DEF Starting, Work
<1>3. Heading' = "judge" => exec'.pc = "judge" \/ (exec'.pc = "save" /\ exec'.then = "judge")
  BY DEF Heading
<1>4. IsDeadId(orders', CurrentId) => ~IsOpen(orders', CurrentId)
  BY DEF IsDeadId, IsOpen
<1>5. /\ exec'.pc \in Work \cup {"save"}
      /\ exec'.pc = "save" => exec'.then # "idle"
  OBVIOUS
<1> QED
  BY <1>1, <1>2, <1>3, <1>4, <1>5 DEF Proceeds

LEMMA GetChainSteps ==
    ASSUME IInv, GetSwapChainById
    PROVE  LegStep
<1>1. exec.pc = "chain" /\ UNCHANGED <<orders, free, row, position, cancels, crashes>>
  BY DEF GetSwapChainById
<1>2. exec \in Execs(orders) /\ orders \in Seq(LegOrders) /\ Starting
  BY <1>1, TypesAre DEF IInv, Starting
<1>3. CASE Goto("leg") /\ UNCHANGED faults
  <2>1. exec'.pc = "leg" /\ exec'.leg = exec.leg /\ exec'.action.id = exec.action.id
    BY <1>2, <1>3 DEF Goto, Execs
  <2>2. Fewer(orders, orders')
    BY <1>1, <1>2, FewerSame
  <2>3. exec.pc \in Work /\ exec'.pc \in (Work \ {"chain"}) \cup {"save"} /\ exec'.pc \notin AtDead
    BY <1>1, <2>1 DEF Work, AtDead
  <2> QED
    BY <1>1, <1>2, <1>3, <2>1, <2>2, <2>3, ProceedsTo DEF LegStep
<1>4. CASE Leave /\ Fault
  BY <1>1, <1>2, <1>4, FaultsGrow DEF Returns, Leave, LegStep
<1> QED
  BY <1>3, <1>4 DEF GetSwapChainById

LEMMA PlaceLegSteps ==
    ASSUME IInv, PlaceLeg
    PROVE  LegStep
<1>1. exec.pc = "leg" /\ UNCHANGED <<row, position, cancels, crashes>> /\ CurrentId = None
  BY DEF PlaceLeg, CurrentId
<1>2. /\ exec \in Execs(orders) /\ exec.action \in ActionsOf(orders) /\ exec.leg \in Legs
      /\ orders \in Seq(LegOrders)
  BY <1>1, Working, TypesAre DEF IInv, Execs
<1>3. PICK q \in 1..LegQuantity(exec.leg) : \E p \in Accepted(exec.leg, q, FALSE, "GTC") :
         /\ Take(p)
         /\ exec' = [exec EXCEPT !.pc = "save", !.then = AfterAnswer(p),
                                 !.action = WithId(Len(orders) + 1), !.held = Holding(p)]
  BY DEF PlaceLeg
<1>4. PICK p \in Accepted(exec.leg, q, FALSE, "GTC") :
         /\ Take(p)
         /\ exec' = [exec EXCEPT !.pc = "save", !.then = AfterAnswer(p),
                                 !.action = WithId(Len(orders) + 1), !.held = Holding(p)]
  BY <1>3
<1>5. p \in LegOrders /\ p.leg = exec.leg /\ ~p.back
  BY <1>2, <1>3, OrderedInRange, GoesForth
<1>6. Adds(orders, orders', p)
  BY <1>4 DEF Take, Adds
<1>7. AfterAnswer(p) \in {"legDone", "watch"} /\ (AfterAnswer(p) = "legDone" => IsFilled(p))
  BY DEF AfterAnswer
<1>8. WithId(Len(orders) + 1).id = [exec.action.id EXCEPT ![exec.leg] = Len(orders) + 1]
  BY <1>2 DEF WithId, ActionsOf
<1>9. /\ exec'.pc = "save" /\ exec'.then = AfterAnswer(p) /\ exec'.leg = exec.leg
      /\ exec'.action = WithId(Len(orders) + 1)
  BY <1>2, <1>4 DEF Execs
<1>10. faults' >= faults
  BY <1>1, FaultsGrow DEF PlaceLeg
<1> QED
  BY <1>1, <1>5, <1>6, <1>7, <1>8, <1>9, <1>10 DEF OrdersLeg, LegStep

LEMMA LegRefusedSteps ==
    ASSUME IInv, LegRefused
    PROVE  LegStep
<1>1. exec.pc = "leg" /\ UNCHANGED <<orders, free, row, position, cancels, crashes>>
  BY DEF LegRefused
<1>2. exec \in Execs(orders) /\ exec.action \in ActionsOf(orders) /\ orders \in Seq(LegOrders) /\ Starting
  BY <1>1, Working, TypesAre DEF IInv, Starting
<1>3. Fault \/ UNCHANGED faults
  BY DEF LegRefused, RefusedFor
<1>4. CASE Leave
  BY <1>1, <1>2, <1>3, <1>4, FaultsGrow DEF Returns, Leave, LegStep
<1>5. CASE SaveThen(Canceled(exec.action), "leaveSwapMode")
  <2>1. /\ exec'.pc = "save" /\ exec'.then = "leaveSwapMode" /\ exec'.leg = exec.leg
        /\ exec'.action.id = exec.action.id
    BY <1>2, <1>5 DEF SaveThen, Execs, Canceled, ActionsOf
  <2>2. Fewer(orders, orders')
    BY <1>1, <1>2, FewerSame
  <2>3. exec.pc \in Work /\ exec'.pc \notin AtDead
    BY <1>1, <2>1 DEF Work, AtDead
  <2> QED
    BY <1>1, <1>2, <1>3, <2>1, <2>2, <2>3, ProceedsTo DEF LegStep
<1> QED
  BY <1>4, <1>5 DEF LegRefused

\* An order that is canceled or expired is dead.
LEMMA GoneIsDead == \A o : Gone(o) <=> IsDead(o)
BY DEF Gone, IsDead

\* Execute forgets the order of its leg, which is dead.
LEMMA ForgetsSteps ==
    ASSUME IInv, exec.pc \in Work, UNCHANGED <<orders, row, position, faults, crashes>>,
           SaveThen(WithId(None), "idle"), IsDeadId(orders, CurrentId)
    PROVE  LegStep
<1>1. exec \in Execs(orders) /\ exec.action \in ActionsOf(orders)
  BY Working DEF Work
<1>2. WithId(None).id = [exec.action.id EXCEPT ![exec.leg] = None]
  BY <1>1 DEF WithId, ActionsOf
<1>3. /\ exec'.pc = "save" /\ exec'.then = "idle" /\ exec'.leg = exec.leg /\ exec'.action = WithId(None)
  BY <1>1 DEF SaveThen, Execs
<1> QED
  BY <1>2, <1>3 DEF Forgets, LegStep

LEMMA ResumeSteps ==
    ASSUME IInv, ResumeLeg
    PROVE  LegStep
<1>1. /\ exec.pc = "leg" /\ UNCHANGED <<orders, free, row, position, cancels, crashes>>
      /\ CurrentId # None
  BY DEF ResumeLeg, CurrentId
<1>2. exec \in Execs(orders) /\ exec.action \in ActionsOf(orders) /\ orders \in Seq(LegOrders) /\ Starting
  BY <1>1, Working, TypesAre DEF IInv, Starting
<1>3. exec.pc \in Work /\ CurrentId \in 1..Len(orders)
  BY <1>1, <1>2 DEF Work, Execs, ActionsOf, CurrentId, None
<1>4. CASE Gone(Ordered) /\ SaveThen(WithId(None), "idle") /\ UNCHANGED faults
  <2>1. IsDeadId(orders, CurrentId)
    BY <1>3, <1>4, GoneIsDead DEF IsDeadId, Ordered, CurrentId
  <2> QED
    BY <1>1, <1>3, <1>4, <2>1, ForgetsSteps
<1>5. CASE UNCHANGED faults /\ exec' = [exec EXCEPT !.pc = "save", !.then = AfterAnswer(Ordered),
                                                   !.held = Holding(Ordered)]
  <2>1. /\ exec'.pc = "save" /\ exec'.then \in {"watch", "legDone"} /\ exec'.leg = exec.leg
        /\ exec'.action.id = exec.action.id
    BY <1>2, <1>5 DEF Execs, AfterAnswer
  <2>2. Fewer(orders, orders') /\ exec'.pc \notin AtDead
    BY <1>1, <1>2, <2>1, FewerSame DEF AtDead
  <2> QED
    BY <1>1, <1>2, <1>3, <1>5, <2>1, <2>2, ProceedsTo DEF LegStep
<1>6. CASE Leave /\ Fault
  BY <1>1, <1>2, <1>6, FaultsGrow DEF Returns, Leave, LegStep
<1> QED
  BY <1>4, <1>5, <1>6 DEF ResumeLeg

LEMMA WatchSteps ==
    ASSUME IInv, Watch
    PROVE  LegStep
<1>1. exec.pc = "watch" /\ UNCHANGED <<orders, free, row, position, cancels, crashes>>
  BY DEF Watch
<1>2. exec \in Execs(orders) /\ orders \in Seq(LegOrders) /\ exec.pc \in Work
  BY <1>1, TypesAre DEF IInv, Work
<1>3. CASE Fault /\ UNCHANGED exec
  BY <1>1, <1>2, <1>3, FaultsGrow, FewerSame DEF Stays, LegStep
<1>4. CASE UNCHANGED faults /\ exec' = [exec EXCEPT !.pc = "save", !.then = "judge", !.held = Holding(Ordered)]
  <2>1. /\ exec'.pc = "save" /\ exec'.then = "judge" /\ exec'.leg = exec.leg
        /\ exec'.action.id = exec.action.id /\ exec'.held = Holding(Ordered)
    BY <1>2, <1>4 DEF Execs
  <2>2. CurrentId \in 1..Len(orders) /\ Ordered \in LegOrders
    BY <1>1, OrderOfLeg DEF CurrentId, Heading, AtOrder
  <2>3. Holding(Ordered)[exec.leg].status = Ordered.status
    BY <2>2, HoldingIsCopy
  <2>4. Gone(exec'.held[exec'.leg]) => IsDeadId(orders', CurrentId)
    BY <1>1, <2>1, <2>2, <2>3 DEF Gone, IsDeadId, IsDead, IsCanceled, IsExpired, Ordered, CurrentId
  <2>5. Fewer(orders, orders') /\ exec'.pc \notin AtDead
    BY <1>1, <1>2, <2>1, FewerSame DEF AtDead
  <2>6. Missed' <= Missed
    BY <1>1, <2>1 DEF Missed
  <2> QED
    BY <1>1, <1>2, <1>4, <2>1, <2>4, <2>5, <2>6, ProceedsTo DEF LegStep
<1> QED
  BY <1>3, <1>4 DEF Watch

\* Within a leg Execute goes to another place.
LEMMA GotoSteps ==
    ASSUME IInv, exec.pc \in AtOrder, UNCHANGED <<row, position, crashes>>,
           Fault \/ UNCHANGED faults, Fewer(orders, orders'),
           exec'.leg = exec.leg, exec'.action = exec.action,
           exec'.pc \in AtOrder \ {"judge"},
           exec'.pc = "legDone" => IsFilled(orders'[CurrentId]),
           exec'.pc \in AtDead => IsDeadId(orders', CurrentId)
    PROVE  LegStep
<1>1. exec.pc \in Work /\ exec'.pc \in (Work \ {"chain", "leg"})
  BY DEF AtOrder, Work
<1>2. exec'.pc # "legDone" => Missed' <= Missed
  BY DEF Missed, AtOrder
<1>3. exec'.pc # "save" /\ exec'.pc # "judge" /\ exec'.pc # "leg"
  BY DEF AtOrder
<1> QED
  BY <1>1, <1>2, <1>3, ProceedsTo DEF LegStep

LEMMA JudgeSteps ==
    ASSUME IInv, CopyIsDead, Judge
    PROVE  LegStep
<1> DEFINE o == exec.held[exec.leg]
<1>1. exec.pc = "judge" /\ UNCHANGED <<orders, free, row, position, faults, crashes>>
  BY DEF Judge
<1>2. /\ exec \in Execs(orders) /\ exec.action \in ActionsOf(orders) /\ orders \in Seq(LegOrders)
      /\ exec.pc \in Work /\ exec.pc \in AtOrder /\ Fewer(orders, orders')
  BY <1>1, Working, TypesAre, FewerSame DEF IInv, Work, AtOrder
<1>3. Gone(o) => IsDeadId(orders, CurrentId)
  BY <1>1 DEF CopyIsDead, Heading
<1>4. ASSUME NEW pc \in {"legDone", "watch", "cancelOne", "rollback", "force"}, Goto(pc),
             pc = "legDone" => IsFilled(o)
      PROVE  LegStep
  <2>1. exec'.pc = pc /\ exec'.leg = exec.leg /\ exec'.action = exec.action
    BY <1>2, <1>4 DEF Goto, Execs
  <2>2. pc = "legDone" => IsFilled(orders'[CurrentId])
    BY <1>1, <1>4 DEF IInv, OrderFacts, CopyIsRight, Heading, AtCopy, IsFilled, CurrentId
  <2>3. exec'.pc \in AtOrder \ {"judge"} /\ exec'.pc \notin AtDead
    BY <2>1 DEF AtOrder, AtDead
  <2> QED
    BY <1>1, <1>2, <2>1, <2>2, <2>3, GotoSteps
<1>5. CASE Goto(GiveUp(exec.leg))
  <2>1. GiveUp(exec.leg) \in {"cancelOne", "rollback", "force"}
    BY <1>2 DEF GiveUp, Execs, Legs
  <2> HIDE DEF GiveUp
  <2> QED
    BY <1>4, <1>5, <2>1
<1>6. ASSUME NEW a, a.id = exec.action.id, NEW then \in {"watch", "legDone", "leaveSwapMode"},
             SaveThen(a, then),
             then = "leaveSwapMode" => Gone(o)
      PROVE  LegStep
  <2>1. /\ exec'.pc = "save" /\ exec'.then = then /\ exec'.leg = exec.leg
        /\ exec'.action.id = exec.action.id
    BY <1>2, <1>6 DEF SaveThen, Execs
  <2>2. then # "leaveSwapMode" => Missed' <= Missed
    BY <1>1, <2>1 DEF Missed
  <2>3. then = "leaveSwapMode" => IsDeadId(orders', CurrentId)
    BY <1>1, <1>3, <1>6
  <2>4. exec'.pc \notin AtDead
    BY <2>1 DEF AtDead
  <2> QED
    BY <1>1, <1>2, <2>1, <2>2, <2>3, <2>4, ProceedsTo DEF LegStep
<1>7. CASE Gone(o) /\ SaveThen(Canceled(exec.action), "leaveSwapMode")
  <2>1. Canceled(exec.action).id = exec.action.id
    BY <1>2 DEF Canceled, ActionsOf
  <2> QED
    BY <1>6, <1>7, <2>1
<1>8. CASE Gone(o) /\ SaveThen(WithId(None), "idle")
  BY <1>1, <1>2, <1>3, <1>8, ForgetsSteps
<1>9. CASE SaveThen(exec.action, "watch") \/ SaveThen(exec.action, "legDone")
  BY <1>6, <1>9
<1> QED
  BY <1>4, <1>5, <1>7, <1>8, <1>9 DEF Judge

LEMMA LegDoneSteps ==
    ASSUME IInv, LegDone
    PROVE  LegStep
<1>1. exec.pc = "legDone" /\ UNCHANGED <<orders, free, row, position, cancels, faults, crashes>>
  BY DEF LegDone
<1>2. /\ exec \in Execs(orders) /\ exec.action \in ActionsOf(orders) /\ orders \in Seq(LegOrders)
      /\ exec.pc \in Work /\ Fewer(orders, orders')
  BY <1>1, Working, TypesAre, FewerSame DEF IInv, Work
<1>3. CASE exec.leg < 3 /\ exec' = [exec EXCEPT !.pc = "leg", !.leg = exec.leg + 1]
  <2>1. exec'.pc = "leg" /\ exec'.leg = exec.leg + 1 /\ exec'.action = exec.action
    BY <1>2, <1>3 DEF Execs
  <2> QED
    BY <1>1, <1>3, <2>1 DEF TakesNext, LegStep
<1>4. CASE SaveThen([exec.action EXCEPT !.status = "success"], "leaveSwapMode")
  <2>1. /\ exec'.pc = "save" /\ exec'.then = "leaveSwapMode" /\ exec'.leg = exec.leg
        /\ exec'.action.id = exec.action.id
    BY <1>2, <1>4 DEF SaveThen, Execs, ActionsOf
  <2>2. Missed' <= Missed
    BY <1>1, <2>1 DEF Missed
  <2>3. exec'.pc \notin AtDead
    BY <2>1 DEF AtDead
  <2> QED
    BY <1>1, <1>2, <2>1, <2>2, <2>3, ProceedsTo DEF LegStep
<1> QED
  BY <1>2, <1>3, <1>4 DEF LegDone, Execs, Legs

\* The cancel kills the order of the leg.
LEMMA CancelKills ==
    ASSUME IInv, exec.pc \in AtOrder, CancelOrdered
    PROVE  Fewer(orders, orders') /\ IsDeadId(orders', CurrentId)
<1> DEFINE n == exec.action.id[exec.leg]
           p == [orders[n] EXCEPT !.status = "CANCELED"]
<1>1. n \in 1..Len(orders) /\ orders \in Seq(LegOrders)
  BY OrderOfLeg, TypesAre DEF IInv, Heading, AtOrder
<1>2. orders[n] \in LegOrders /\ IsLive(orders[n])
  BY <1>1, ElementOfSeq DEF CancelOrdered, Ordered
<1>3. p \in LegOrders /\ p.leg = orders[n].leg /\ p.back = orders[n].back /\ IsDead(p)
  BY <1>2 DEF LegOrders, WellFormed, Statuses, IsLive, IsDead, IsCanceled
<1>4. orders' = [orders EXCEPT ![n] = p]
  BY DEF CancelOrdered, Ordered
<1>5. CurrentId = n
  BY DEF CurrentId
<1> HIDE DEF p, n
<1> QED
  BY <1>1, <1>2, <1>3, <1>4, <1>5, FewerChanged

LEMMA CancelOneSteps ==
    ASSUME IInv, CancelOne
    PROVE  LegStep
<1>1. exec.pc = "cancelOne" /\ UNCHANGED <<row, position, cancels, crashes>>
  BY DEF CancelOne
<1>2. /\ exec \in Execs(orders) /\ exec.action \in ActionsOf(orders) /\ orders \in Seq(LegOrders)
      /\ exec.pc \in Work /\ exec.pc \in AtOrder
  BY <1>1, Working, TypesAre DEF IInv, Work, AtOrder
<1>3. Fault \/ UNCHANGED faults
  BY DEF CancelOne, CancelRefused
<1>4. CASE CancelOrdered /\ SaveThen(Canceled(exec.action), "leaveSwapMode")
  <2>1. /\ exec'.pc = "save" /\ exec'.then = "leaveSwapMode" /\ exec'.leg = exec.leg
        /\ exec'.action.id = exec.action.id
    BY <1>2, <1>4 DEF SaveThen, Execs, Canceled, ActionsOf
  <2>2. Fewer(orders, orders') /\ IsDeadId(orders', CurrentId)
    BY <1>2, <1>4, CancelKills
  <2> QED
    BY <1>1, <1>2, <1>3, <2>1, <2>2, ProceedsTo DEF LegStep
<1>5. CASE CancelRefused /\ Goto("watch")
  <2>1. exec'.pc = "watch" /\ exec'.leg = exec.leg /\ exec'.action = exec.action
    BY <1>2, <1>5 DEF Goto, Execs
  <2>2. Fewer(orders, orders')
    BY <1>2, <1>5, FewerSame DEF CancelRefused
  <2>3. exec'.pc \in AtOrder \ {"judge"} /\ exec'.pc \notin AtDead
    BY <2>1 DEF AtOrder, AtDead
  <2> QED
    BY <1>1, <1>2, <1>3, <2>1, <2>2, <2>3, GotoSteps
<1> QED
  BY <1>4, <1>5 DEF CancelOne

LEMMA ConsiderSteps ==
    ASSUME IInv, Consider
    PROVE  LegStep
<1>1. exec.pc \in {"rollback", "force"} /\ UNCHANGED <<orders, free, row, position, cancels, faults, crashes>>
  BY DEF Consider
<1>2. exec \in Execs(orders) /\ orders \in Seq(LegOrders) /\ exec.pc \in AtOrder /\ Fewer(orders, orders')
  BY <1>1, TypesAre, FewerSame DEF IInv, AtOrder
<1>3. exec'.pc \in {"cancelLeg", "watch"} /\ exec'.leg = exec.leg /\ exec'.action = exec.action
  BY <1>2 DEF Consider, Goto, Execs
<1>4. exec'.pc \in AtOrder \ {"judge"} /\ exec'.pc \notin AtDead
  BY <1>3 DEF AtOrder, AtDead
<1> QED
  BY <1>1, <1>2, <1>3, <1>4, GotoSteps

LEMMA CancelLegSteps ==
    ASSUME IInv, CancelLeg
    PROVE  LegStep
<1>1. exec.pc = "cancelLeg" /\ UNCHANGED <<row, position, cancels, crashes>>
  BY DEF CancelLeg
<1>2. exec \in Execs(orders) /\ orders \in Seq(LegOrders) /\ exec.pc \in AtOrder
  BY <1>1, TypesAre DEF IInv, AtOrder
<1>3. Fault \/ UNCHANGED faults
  BY DEF CancelLeg, CancelRefused
<1>4. exec'.pc \in {"tryRollback", "readBalance", "watch"} /\ exec'.leg = exec.leg /\ exec'.action = exec.action
  BY <1>2 DEF CancelLeg, Goto, Execs
<1>5. Fewer(orders, orders') /\ (exec'.pc # "watch" => IsDeadId(orders', CurrentId))
  <2>1. CASE CancelOrdered
    BY <1>2, <2>1, CancelKills
  <2>2. CASE CancelRefused /\ Goto("watch")
    BY <1>2, <2>2, FewerSame DEF CancelRefused, Goto, Execs
  <2> QED
    BY <2>1, <2>2 DEF CancelLeg
<1>6. exec'.pc \in AtOrder \ {"judge"} /\ (exec'.pc \in AtDead => exec'.pc # "watch")
  BY <1>4 DEF AtOrder, AtDead
<1> QED
  BY <1>1, <1>2, <1>3, <1>4, <1>5, <1>6, GotoSteps

\* An order that is dead stays dead.
LEMMA StaysDead ==
    ASSUME NEW os, NEW ps, Fewer(os, ps), NEW n, IsDeadId(os, n), Len(os) \in Nat, Len(ps) \in Nat
    PROVE  IsDeadId(ps, n)
BY DEF Fewer, IsDeadId

LEMMA ReadBalanceSteps ==
    ASSUME IInv, DeadIsHeld, ReadBalance
    PROVE  LegStep
<1>1. exec.pc = "readBalance" /\ UNCHANGED <<orders, free, row, position, cancels, crashes>>
  BY DEF ReadBalance
<1>2. exec \in Execs(orders) /\ orders \in Seq(LegOrders) /\ exec.pc \in AtOrder /\ Fewer(orders, orders')
  BY <1>1, TypesAre, FewerSame DEF IInv, AtOrder
<1>3. exec'.pc \in {"tryForce", "watch"} /\ exec'.leg = exec.leg /\ exec'.action = exec.action
  BY <1>2 DEF ReadBalance, Goto, Execs
<1>4. exec'.pc \in AtOrder \ {"judge"} /\ (Fault \/ UNCHANGED faults)
  BY <1>3 DEF AtOrder, ReadBalance
<1>5. IsDeadId(orders', CurrentId)
  BY <1>1 DEF DeadIsHeld, AtDead
<1> QED
  BY <1>1, <1>2, <1>3, <1>4, <1>5, GotoSteps

\* An IOC order that is not filled is dead.
LEMMA ImmediateOrDead ==
    ASSUME NEW l, NEW q, NEW back, NEW p \in Accepted(l, q, back, "IOC")
    PROVE  IsFilled(p) \/ IsDead(p)
BY DEF Accepted, IsFilled, IsDead, IsExpired

\* One of the orders that replace the dead one: it is filled, or the attempts go on.
LEMMA AttemptSteps ==
    ASSUME IInv, DeadIsHeld, exec.pc \in {"tryRollback", "tryForce"},
           UNCHANGED <<row, position, crashes>>, Fault \/ UNCHANGED faults,
           Fewer(orders, orders'), Attempted \/ Goto("watch")
    PROVE  LegStep
<1>1. exec \in Execs(orders) /\ orders \in Seq(LegOrders) /\ exec.pc \in AtOrder
  BY TypesAre DEF IInv, AtOrder
<1>2. exec'.pc \in {"tryRollback", "tryForce", "watch"} /\ exec'.leg = exec.leg /\ exec'.action = exec.action
  BY <1>1 DEF Attempted, Goto, Execs
<1>3. IsDeadId(orders, CurrentId)
  BY DEF DeadIsHeld, AtDead
<1>4. IsDeadId(orders', CurrentId)
  BY <1>1, <1>3 DEF Fewer, IsDeadId
<1>5. exec'.pc \in AtOrder \ {"judge"} /\ exec'.pc # "legDone"
  BY <1>2 DEF AtOrder
<1> QED
  BY <1>1, <1>2, <1>4, <1>5, GotoSteps

LEMMA ReplaceSteps ==
    ASSUME IInv, DeadIsHeld, exec.pc \in {"tryRollback", "tryForce"},
           UNCHANGED <<row, position, crashes, faults>>,
           NEW p \in LegOrders, p.leg = exec.leg, IsFilled(p) \/ IsDead(p),
           Take(p), IF IsFilled(p) THEN Done(p) ELSE Attempted
    PROVE  LegStep
<1>1. exec \in Execs(orders) /\ orders \in Seq(LegOrders) /\ exec.action \in ActionsOf(orders)
  BY Working, TypesAre DEF IInv
<1>2. orders' = Append(orders, p)
  BY DEF Take
<1>3. CASE IsFilled(p)
  <2>1. exec' = [exec EXCEPT !.pc = "saveOrPanic", !.action = [WithId(Len(orders) + 1) EXCEPT !.status = "success"]]
    BY <1>3 DEF Done
  <2>2. [WithId(Len(orders) + 1) EXCEPT !.status = "success"].id = [exec.action.id EXCEPT ![exec.leg] = Len(orders) + 1]
    BY <1>1 DEF WithId, ActionsOf
  <2>3. exec'.pc = "saveOrPanic" /\ exec'.leg = exec.leg
        /\ exec'.action = [WithId(Len(orders) + 1) EXCEPT !.status = "success"]
    BY <1>1, <2>1 DEF Execs
  <2>4. exec'.action.id = [exec.action.id EXCEPT ![exec.leg] = Len(orders) + 1]
    BY <2>2, <2>3
  <2>5. Replaces(p)
    BY <1>2, <1>3, <2>3, <2>4 DEF Replaces, Adds
  <2> QED
    BY <2>5 DEF LegStep
<1>4. CASE ~IsFilled(p)
  BY <1>1, <1>2, <1>4, FewerAppended, AttemptSteps
<1> QED
  BY <1>3, <1>4

LEMMA TryRollbackSteps ==
    ASSUME IInv, DeadIsHeld, TryRollback
    PROVE  LegStep
<1> DEFINE q == Lesser(exec.held[1].executed, exec.balance)
<1>1. exec.pc = "tryRollback" /\ UNCHANGED <<row, position, cancels, crashes>> /\ exec.leg = 2
        /\ orders \in Seq(LegOrders)
  BY TypesAre DEF TryRollback, IInv, Control, LegOfPlace
<1>2. CASE Goto("watch") /\ UNCHANGED <<orders, free>> /\ (Fault \/ UNCHANGED faults)
  BY <1>1, <1>2, FewerSame, AttemptSteps
<1>3. CASE q > 0 /\ \E p \in Accepted(2, q, TRUE, "IOC") :
              Take(p) /\ UNCHANGED faults /\ IF IsFilled(p) THEN Done(p) ELSE Attempted
  <2>1. PICK p \in Accepted(2, q, TRUE, "IOC") :
              Take(p) /\ UNCHANGED faults /\ IF IsFilled(p) THEN Done(p) ELSE Attempted
    BY <1>3
  <2>2. p \in LegOrders /\ p.leg = exec.leg /\ (IsFilled(p) \/ IsDead(p))
    <3>1. q \in 1..Qty
      BY <1>3, CutInRange DEF Legs
    <3> HIDE DEF q
    <3>2. p \in LegOrders /\ p.leg = 2
      BY <3>1, SellsBack
    <3>3. IsFilled(p) \/ IsDead(p)
      BY ImmediateOrDead
    <3> QED
      BY <1>1, <3>2, <3>3
  <2> QED
    BY <1>1, <2>1, <2>2, ReplaceSteps
<1> QED
  BY <1>2, <1>3 DEF TryRollback, RefusedFor

LEMMA TryForceSteps ==
    ASSUME IInv, DeadIsHeld, TryForce
    PROVE  LegStep
<1> DEFINE q == Lesser(exec.held[2].executed, exec.balance)
<1>1. exec.pc = "tryForce" /\ UNCHANGED <<row, position, cancels, crashes>> /\ exec.leg = 3
        /\ orders \in Seq(LegOrders)
  BY TypesAre DEF TryForce, IInv, Control, LegOfPlace
<1>2. q > 0 => q \in 1..Qty
  BY CutInRange DEF Legs
<1>3. CASE (Goto("watch") \/ Attempted) /\ UNCHANGED <<orders, free>> /\ (Fault \/ UNCHANGED faults)
  BY <1>1, <1>3, FewerSame, AttemptSteps
<1>4. CASE q > 0 /\ \E p \in Accepted(3, q, FALSE, "IOC") :
              Take(p) /\ UNCHANGED faults /\ IF IsFilled(p) THEN Done(p) ELSE Attempted
  <2>1. PICK p \in Accepted(3, q, FALSE, "IOC") :
              Take(p) /\ UNCHANGED faults /\ IF IsFilled(p) THEN Done(p) ELSE Attempted
    BY <1>4
  <2>2. p \in LegOrders /\ p.leg = exec.leg /\ (IsFilled(p) \/ IsDead(p))
    BY <1>1, <1>2, <1>4, ForcesLeg, ImmediateOrDead
  <2> QED
    BY <1>1, <2>1, <2>2, ReplaceSteps
<1> QED
  BY <1>3, <1>4 DEF TryForce, RefusedFor

\* Every step is one of those, and what is dead stays dead.
LEMMA EveryLegStep ==
    ASSUME IInv, DeadIsDead, [Next]_vars
    PROVE  LegStep
<1>1. CASE Execute
  BY <1>1, BeginSteps, GetChainSteps, SaveSteps, LeaveSwapModeSteps, PlaceLegSteps, LegRefusedSteps,
     ResumeSteps, WatchSteps, JudgeSteps, LegDoneSteps, CancelOneSteps, ConsiderSteps, CancelLegSteps,
     ReadBalanceSteps, TryRollbackSteps, TryForceSteps, SaveOrPanicSteps DEF Execute, LegStep, DeadIsDead
<1>2. CASE Exchange
  BY <1>2, ExchangeStays DEF LegStep
<1>3. CASE Crash
  BY <1>3, CrashSteps DEF LegStep
<1>4. CASE UNCHANGED vars
  <2>1. Fewer(orders, orders') /\ faults' >= faults
    BY <1>4, TypesAre, FewerSame DEF IInv, vars
  <2> QED
    BY <1>4, <2>1 DEF vars, Stays, LegStep
<1> QED
  BY <1>1, <1>2, <1>3, <1>4 DEF Next, Terminated

\* Types that the bounds need
LEMMA LegTypes ==
    ASSUME IInv
    PROVE  /\ orders \in Seq(LegOrders) /\ Len(orders) \in Nat
           /\ row.id \in [Legs -> 0..Len(orders)] /\ exec.action.id \in [Legs -> 0..Len(orders)]
           /\ row.status \in Active \cup Ended /\ exec.action.status \in Active \cup Ended
           /\ exec.leg \in Legs /\ exec.pc \in Places /\ position \in BOOLEAN
           /\ crashes \in Nat /\ faults \in Nat
           /\ exec \in Execs(orders)
BY TypesAre DEF IInv, Execs, ActionsOf

\* Whatever step, orders stay where they are, and a filled one stays filled.
LEMMA LegStepKeeps ==
    ASSUME IInv, LegStep
    PROVE  Keeps(orders, orders')
<1>1. orders \in Seq(LegOrders)
  BY TypesAre DEF IInv
<1>2. CASE Fewer(orders, orders')
  BY <1>2 DEF Fewer, Keeps
<1>3. CASE UNCHANGED orders
  BY <1>1, <1>3, Unchanged
<1>4. ASSUME NEW p \in LegOrders, Adds(orders, orders', p)
      PROVE  Keeps(orders, orders')
  BY <1>1, <1>4, Appended DEF Adds
<1> QED
  BY <1>2, <1>3, <1>4
     DEF LegStep, Stays, Begins, BeginsToLeave, Proceeds, Forgets, OrdersLeg, TakesNext, Saves,
         Replaces, Returns, SavesTheEnd

\* Execute when it is idle
LEMMA IdleIs ==
    Idle.pc = "idle" /\ Idle.leg = 1 /\ Idle.action = NewAction
BY DEF Idle

LEMMA DeadKept ==
    ASSUME IInv, IInv', DeadIsDead, LegStep
    PROVE  DeadIsDead'
<1>1. exec \in Execs(orders) /\ orders \in Seq(LegOrders) /\ Len(orders) \in Nat /\ Len(orders') \in Nat
  BY LegTypes, TypesAre DEF IInv, TypeOK
<1>2. CASE Stays
  <2>1. Fewer(orders, orders') /\ exec' = exec
    BY <1>2 DEF Stays
  <2> QED
    BY <1>1, <2>1, StaysDead DEF DeadIsDead, CopyIsDead, DeadIsHeld, Heading, CurrentId
<1>3. CASE Proceeds
  <2>1. CurrentId' = CurrentId
    BY <1>3 DEF Proceeds, CurrentId
  <2>2. /\ exec'.pc \in AtDead => IsDeadId(orders', CurrentId)
        /\ Heading' = "judge" /\ Gone(exec'.held[exec'.leg]) => IsDeadId(orders', CurrentId)
    BY <1>3 DEF Proceeds
  <2> QED
    BY <2>1, <2>2 DEF DeadIsDead, CopyIsDead, DeadIsHeld
<1>4. CASE Saves
  <2>1. CASE exec' = Idle
    BY <2>1, IdleIs DEF DeadIsDead, CopyIsDead, DeadIsHeld, Heading, AtDead
  <2>2. CASE exec' = [exec EXCEPT !.pc = exec.then] /\ exec.pc = "save" /\ orders' = orders
    <3>1. /\ exec'.pc = exec.then /\ exec'.action = exec.action /\ exec'.leg = exec.leg
          /\ exec'.held = exec.held /\ exec.then \in Resumed
      BY <1>1, <2>2 DEF Execs, IInv, Control, LegOfPlace
    <3> QED
      BY <2>2, <3>1 DEF DeadIsDead, CopyIsDead, DeadIsHeld, Heading, AtDead, Resumed, AtCopy, CurrentId
  <2> QED
    BY <1>4, <2>1, <2>2 DEF Saves
<1>5. CASE exec'.pc \in {"idle", "chain", "leg", "leaveSwapMode", "saveOrPanic"}
           \/ (exec'.pc = "save" /\ exec'.then # "judge")
  BY <1>5 DEF DeadIsDead, CopyIsDead, DeadIsHeld, Heading, AtDead
<1> QED
  BY <1>2, <1>3, <1>4, <1>5, IdleIs
     DEF LegStep, Begins, BeginsToLeave, Forgets, OrdersLeg, TakesNext, Replaces, Returns, SavesTheEnd

-----------------------------------------------------------------------------
(***************************************************************************)
(* The legs of the row and of the copy: each has an order only when the    *)
(* ones before it are filled, and the copy is ahead of the row in the leg  *)
(* Execute works on and nowhere after it.                                  *)
(***************************************************************************)
OnLeg == exec.pc \in Work \cup {"save"} \/ (exec.pc = "leaveSwapMode" /\ row.status \in Active)

Prefix(os, id) ==
    \A j, k \in Legs : j < k /\ id[k] # None => id[j] # None /\ IsFilled(os[id[j]])

Prefixes ==
    /\ row.status \in Active => Prefix(orders, row.id)
    /\ OnLeg => Prefix(orders, exec.action.id)
Behind ==
    OnLeg => \A j \in Legs : j < exec.leg =>
        exec.action.id[j] # None /\ IsFilled(orders[exec.action.id[j]])
Ahead ==
    OnLeg => /\ \A k \in Legs : k > exec.leg => exec.action.id[k] = row.id[k]
             /\ Starting => CurrentId = row.id[exec.leg]

Chain == Prefixes /\ Behind /\ Ahead

LEMMA PrefixKept ==
    ASSUME NEW os \in Seq(LegOrders), NEW ps \in Seq(LegOrders), Keeps(os, ps),
           NEW id \in [Legs -> 0..Len(os)], Prefix(os, id)
    PROVE  Prefix(ps, id)
BY DEF Prefix, Keeps, Legs, None

LEMMA FilledIsNotDead == \A o : IsFilled(o) => ~IsDead(o) /\ ~IsLive(o)
BY DEF IsFilled, IsDead, IsLive, IsCanceled, IsExpired

\* The row is as it was, or it is what the copy was.
LEMMA RowPrefixKept ==
    ASSUME IInv, IInv', Chain, LegStep
    PROVE  row'.status \in Active => Prefix(orders', row'.id)
<1>1. /\ orders \in Seq(LegOrders) /\ orders' \in Seq(LegOrders) /\ Keeps(orders, orders')
      /\ row.id \in [Legs -> 0..Len(orders)] /\ exec.action.id \in [Legs -> 0..Len(orders)]
  BY LegTypes, LegStepKeeps DEF IInv, TypeOK
<1>2. \/ row' = row
      \/ row' = exec.action /\ exec.pc = "save"
      \/ row' = exec.action /\ exec.pc = "saveOrPanic"
  BY DEF LegStep, Stays, Begins, BeginsToLeave, Proceeds, Forgets, OrdersLeg, TakesNext, Saves,
         Replaces, Returns, SavesTheEnd
<1>3. CASE row' = row
  BY <1>1, <1>3, PrefixKept DEF Chain, Prefixes
<1>4. CASE row' = exec.action /\ exec.pc = "save"
  BY <1>1, <1>4, PrefixKept DEF Chain, Prefixes, OnLeg
<1>5. CASE row' = exec.action /\ exec.pc = "saveOrPanic"
  <2>1. exec.action.status \in Ended
    BY <1>5 DEF IInv, Control, EndIsTheEnd
  <2> QED
    BY <1>5, <2>1 DEF Active, Ended
<1> QED
  BY <1>2, <1>3, <1>4, <1>5

\* Execute goes on with the same external ids.
LEMMA SameIdsChain ==
    ASSUME IInv, IInv', Chain, LegStep, OnLeg,
           exec'.action.id = exec.action.id, exec'.leg = exec.leg,
           row' = row \/ row' = exec.action, Starting' => Starting
    PROVE  Chain'
<1>1. /\ orders \in Seq(LegOrders) /\ orders' \in Seq(LegOrders) /\ Keeps(orders, orders')
      /\ exec.action.id \in [Legs -> 0..Len(orders)] /\ exec.leg \in Legs
  BY LegTypes, LegStepKeeps DEF IInv, TypeOK
<1>2. Prefix(orders', exec.action.id)
  BY <1>1, PrefixKept DEF Chain, Prefixes
<1>3. Behind'
  <2>1. \A j \in Legs : j < exec.leg => exec.action.id[j] # None /\ IsFilled(orders[exec.action.id[j]])
    BY DEF Chain, Behind
  <2>2. \A j \in Legs : exec.action.id[j] # None => exec.action.id[j] \in 1..Len(orders)
    BY <1>1 DEF None
  <2>3. \A j \in Legs : j < exec.leg => exec.action.id[j] # None /\ IsFilled(orders'[exec.action.id[j]])
    BY <1>1, <2>1, <2>2 DEF Keeps
  <2> QED
    BY <2>3 DEF Behind
<1>4. Ahead'
  BY <1>1 DEF Chain, Ahead, CurrentId
<1> QED
  BY <1>2, <1>3, <1>4, RowPrefixKept DEF Chain, Prefixes

LEMMA ChainKept ==
    ASSUME IInv, IInv', DeadIsDead, Chain, LegStep
    PROVE  Chain'
<1>1. /\ orders \in Seq(LegOrders) /\ orders' \in Seq(LegOrders) /\ Keeps(orders, orders')
      /\ exec.action.id \in [Legs -> 0..Len(orders)] /\ exec.leg \in Legs /\ exec \in Execs(orders)
      /\ Len(orders) \in Nat /\ row.id \in [Legs -> 0..Len(orders)]
  BY LegTypes, LegStepKeeps DEF IInv, TypeOK
<1>2. row'.status \in Active => Prefix(orders', row'.id)
  BY RowPrefixKept
<1>3. CASE ~OnLeg'
  BY <1>2, <1>3 DEF Chain, Prefixes, Behind, Ahead
<1>4. CASE Stays
  <2>1. OnLeg' => OnLeg
    BY <1>4 DEF Stays, OnLeg
  <2>2. Starting' => Starting
    BY <1>4 DEF Stays, Starting
  <2> QED
    BY <1>3, <1>4, <2>1, <2>2, SameIdsChain DEF Stays
<1>5. CASE Begins
  <2>1. Prefix(orders', row.id) /\ row' = row /\ exec'.action.id = row.id /\ exec'.leg = 1
    BY <1>2, <1>5 DEF Begins
  <2> QED
    BY <1>2, <2>1 DEF Chain, Prefixes, Behind, Ahead, CurrentId, Legs
<1>6. CASE Proceeds
  BY <1>6, SameIdsChain DEF Proceeds, OnLeg
<1>7. CASE Forgets
  <2>1. OnLeg /\ row' = row /\ orders' = orders /\ ~Starting' /\ exec'.leg = exec.leg
        /\ exec'.action.id = [exec.action.id EXCEPT ![exec.leg] = None]
    BY <1>7 DEF Forgets, OnLeg, Starting
  <2>2. \A k \in Legs : k > exec.leg => exec.action.id[k] = None
    BY <1>1, <1>7, <2>1, FilledIsNotDead DEF Forgets, Chain, Prefixes, Prefix, IsDeadId, CurrentId
  <2>3. Prefix(orders', exec'.action.id)
    <3> SUFFICES ASSUME NEW j \in Legs, NEW k \in Legs, j < k, exec'.action.id[k] # None
                 PROVE  exec'.action.id[j] # None /\ IsFilled(orders'[exec'.action.id[j]])
      BY DEF Prefix
    <3>1. k < exec.leg
      BY <1>1, <2>1, <2>2 DEF Legs
    <3> QED
      BY <1>1, <2>1, <3>1 DEF Chain, Prefixes, Prefix, Legs
  <2>4. Behind' /\ Ahead'
    BY <1>1, <2>1 DEF Chain, Behind, Ahead, Legs
  <2> QED
    BY <1>2, <2>3, <2>4 DEF Chain, Prefixes
<1>8. ASSUME NEW p \in LegOrders, OrdersLeg(p)
      PROVE  Chain'
  <2>1. OnLeg /\ row' = row /\ ~Starting' /\ exec'.leg = exec.leg /\ CurrentId = None
        /\ exec'.action.id = [exec.action.id EXCEPT ![exec.leg] = Len(orders) + 1]
    BY <1>8 DEF OrdersLeg, OnLeg, Starting, Work
  <2>2. \A k \in Legs : k > exec.leg => exec.action.id[k] = None
    BY <1>1, <2>1 DEF Chain, Prefixes, Prefix, CurrentId
  <2>3. \A j \in Legs : j < exec.leg => exec.action.id[j] # None /\ IsFilled(orders'[exec.action.id[j]])
    <3>1. \A j \in Legs : j < exec.leg => exec.action.id[j] # None /\ IsFilled(orders[exec.action.id[j]])
      BY <2>1 DEF Chain, Behind
    <3>2. \A j \in Legs : exec.action.id[j] # None => exec.action.id[j] \in 1..Len(orders)
      BY <1>1 DEF None
    <3> QED
      BY <1>1, <3>1, <3>2 DEF Keeps
  <2>4. Prefix(orders', exec'.action.id)
    <3> SUFFICES ASSUME NEW j \in Legs, NEW k \in Legs, j < k, exec'.action.id[k] # None
                 PROVE  exec'.action.id[j] # None /\ IsFilled(orders'[exec'.action.id[j]])
      BY DEF Prefix
    <3>1. k <= exec.leg
      BY <1>1, <2>1, <2>2 DEF Legs
    <3>2. j < exec.leg /\ j # exec.leg
      BY <1>1, <3>1 DEF Legs
    <3>3. exec'.action.id[j] = exec.action.id[j]
      BY <1>1, <2>1, <3>2
    <3> QED
      BY <2>3, <3>2, <3>3
  <2>5. Behind' /\ Ahead'
    BY <1>1, <2>1, <2>3 DEF Chain, Behind, Ahead, Legs
  <2> QED
    BY <1>2, <2>4, <2>5 DEF Chain, Prefixes
<1>9. CASE TakesNext
  <2>1. /\ OnLeg /\ row' = row /\ orders' = orders /\ exec'.leg = exec.leg + 1 /\ exec.leg < 3
        /\ exec'.action.id = exec.action.id
    BY <1>9 DEF TakesNext, OnLeg, Work
  <2>2. CurrentId # None /\ IsFilled(orders[CurrentId])
    BY <1>9, <2>1 DEF TakesNext, IInv, Control, HasOrder, DoneIsFilled, OrderFacts, CopyIsRight,
                      Heading, AtOrder, AtCopy, CurrentId
  <2>3. Behind'
    BY <1>1, <2>1, <2>2 DEF Chain, Behind, CurrentId, Legs
  <2>4. Ahead'
    BY <1>1, <2>1 DEF Chain, Ahead, CurrentId, Legs
  <2>5. Prefix(orders', exec'.action.id)
    BY <2>1 DEF Chain, Prefixes
  <2> QED
    BY <1>2, <2>3, <2>4, <2>5 DEF Chain, Prefixes
<1>10. CASE Saves
  <2>1. OnLeg /\ (row' = row \/ row' = exec.action) /\ orders' = orders /\ exec.pc = "save"
    BY <1>10 DEF Saves, OnLeg
  <2>2. CASE exec' = Idle
    BY <1>3, <2>2, IdleIs DEF OnLeg, Work
  <2>3. CASE exec' = [exec EXCEPT !.pc = exec.then]
    <3>1. exec'.pc = exec.then /\ exec'.leg = exec.leg /\ exec'.action = exec.action /\ exec.then \in Resumed
      BY <1>1, <2>1, <2>3 DEF Execs, IInv, Control, LegOfPlace
    <3>2. Starting' => Starting
      BY <2>1, <3>1 DEF Starting, Resumed, AtCopy
    <3> QED
      BY <2>1, <3>1, <3>2, SameIdsChain
  <2> QED
    BY <1>10, <2>2, <2>3 DEF Saves
<1>11. CASE exec'.pc \in {"idle", "saveOrPanic"} \/ (exec'.pc = "leaveSwapMode" /\ row'.status \notin Active)
  BY <1>3, <1>11 DEF OnLeg, Work
<1> QED
  BY <1>4, <1>5, <1>6, <1>7, <1>8, <1>9, <1>10, <1>11, IdleIs
     DEF LegStep, BeginsToLeave, Replaces, Returns, SavesTheEnd, Ended, Active

-----------------------------------------------------------------------------
(***************************************************************************)
(* Each leg is traded once: of the orders of a leg that are not dead, all  *)
(* but those a crash or a failing save has lost are known to the copy, and *)
(* to the row.                                                             *)
(***************************************************************************)
LEMMA FewerThan ==
    ASSUME NEW S, NEW T, IsFiniteSet(S), T \subseteq S
    PROVE  IsFiniteSet(T) /\ Cardinality(T) <= Cardinality(S)
           /\ Cardinality(S) \in Nat /\ Cardinality(T) \in Nat
BY FS_Subset, FS_CardinalityType

LEMMA OneMoreThan ==
    ASSUME NEW S, NEW T, NEW x, IsFiniteSet(S), T \subseteq S \cup {x}
    PROVE  IsFiniteSet(T) /\ Cardinality(T) <= Cardinality(S) + 1
           /\ Cardinality(S) \in Nat /\ Cardinality(T) \in Nat
<1>1. IsFiniteSet(S \cup {x}) /\ Cardinality(S \cup {x}) <= Cardinality(S) + 1
      /\ Cardinality(S) \in Nat
  <2>1. /\ IsFiniteSet(S \cup {x})
        /\ Cardinality(S \cup {x}) = Cardinality(S) \/ Cardinality(S \cup {x}) = Cardinality(S) + 1
    BY FS_AddElement
  <2>2. Cardinality(S) \in Nat
    BY FS_CardinalityType
  <2> QED
    BY <2>1, <2>2
<1>2. IsFiniteSet(T) /\ Cardinality(T) <= Cardinality(S \cup {x}) /\ Cardinality(T) \in Nat
      /\ Cardinality(S \cup {x}) \in Nat
    BY <1>1, FewerThan
<1>3. QED
    BY <1>1, <1>2

Open(os, l) == { n \in 1..Len(os) : os[n].leg = l /\ ~os[n].back /\ ~IsDead(os[n]) }
Unknown(l, id) == Open(orders, l) \ {id[l]}

OpenInCopy ==
    exec.pc \in Work \cup {"save", "saveOrPanic"} =>
        \A l \in Legs : Cardinality(Unknown(l, exec.action.id)) <= crashes + faults
OpenInRow ==
    row.status \in Active /\ exec.pc \notin {"save", "saveOrPanic"} =>
        \A l \in Legs : Cardinality(Unknown(l, row.id)) <= crashes + faults
OpenOnce == \A l \in Legs : Cardinality(Open(orders, l)) <= 1 + crashes + faults

TradedOnce == OpenInCopy /\ OpenInRow /\ OpenOnce

LEMMA OpenIsFinite ==
    ASSUME NEW os, Len(os) \in Nat, NEW l
    PROVE  IsFiniteSet(Open(os, l))
<1>1. IsFiniteSet(1..Len(os))
  BY FS_Interval
<1>2. Open(os, l) \subseteq 1..Len(os)
  BY DEF Open
<1> QED
  BY <1>1, <1>2, FS_Subset

\* A step that places no open order leaves no more of them.
LEMMA OpenFewer ==
    ASSUME NEW os, NEW ps, Len(os) \in Nat, Len(ps) \in Nat, Fewer(os, ps), NEW l
    PROVE  Open(ps, l) \subseteq Open(os, l)
BY DEF Fewer, Open

\* A placed order is one more.
LEMMA OpenAdds ==
    ASSUME NEW os \in Seq(LegOrders), NEW ps, NEW p \in LegOrders, Adds(os, ps, p), NEW l
    PROVE  Open(ps, l) \subseteq IF p.leg = l /\ ~p.back THEN Open(os, l) \cup {Len(os) + 1} ELSE Open(os, l)
<1>1. Len(os) \in Nat /\ Len(ps) = Len(os) + 1 /\ ps[Len(os) + 1] = p
        /\ \A i \in 1..Len(os) : ps[i] = os[i]
  BY AppendProperties DEF Adds
<1>2. \A i \in 1..Len(ps) : i \in 1..Len(os) \/ i = Len(os) + 1
  BY <1>1
<1> QED
  BY <1>1, <1>2 DEF Open

\* The order of a copy is unknown to the row once its save has failed, and one more is
\* then counted.
LEMMA OneIsLost ==
    ASSUME NEW S, NEW x, NEW y, NEW m \in Nat, IsFiniteSet(S), Cardinality(S \ {x}) <= m
    PROVE  Cardinality(S \ {y}) <= m + 1 /\ Cardinality(S) <= m + 1
<1>1. IsFiniteSet(S \ {x})
  BY FS_Subset
<1> DEFINE R == S \ {x}
<1>2. S \ {y} \subseteq R \cup {x} /\ S \subseteq R \cup {x}
  OBVIOUS
<1>3. IsFiniteSet(R) /\ Cardinality(R) <= m
  BY <1>1
<1> HIDE DEF R
<1>4. /\ Cardinality(S \ {y}) <= Cardinality(R) + 1 /\ Cardinality(S \ {y}) \in Nat
      /\ Cardinality(S) <= Cardinality(R) + 1 /\ Cardinality(S) \in Nat /\ Cardinality(R) \in Nat
  BY <1>2, <1>3, OneMoreThan
<1> QED
  BY <1>3, <1>4

\* The facts the cases use
LEMMA OpenFacts ==
    ASSUME IInv, IInv'
    PROVE  /\ orders \in Seq(LegOrders) /\ Len(orders) \in Nat /\ Len(orders') \in Nat
           /\ crashes \in Nat /\ faults \in Nat /\ crashes' \in Nat /\ faults' \in Nat
           /\ \A l : IsFiniteSet(Open(orders, l)) /\ IsFiniteSet(Open(orders', l))
           /\ \A l : Cardinality(Open(orders, l)) \in Nat
           /\ \A l, n : Cardinality(Open(orders, l) \ {n}) \in Nat
<1>1. orders \in Seq(LegOrders) /\ Len(orders) \in Nat /\ crashes \in Nat /\ faults \in Nat
  BY LegTypes
<1>2. Len(orders') \in Nat /\ crashes' \in Nat /\ faults' \in Nat
  BY SwapBoundsAssumption DEF IInv, TypeOK
<1>3. \A l : IsFiniteSet(Open(orders, l)) /\ IsFiniteSet(Open(orders', l))
  BY <1>1, <1>2, OpenIsFinite
<1>4. \A l, n : IsFiniteSet(Open(orders, l) \ {n})
  BY <1>3, FS_Subset
<1> QED
  BY <1>1, <1>2, <1>3, <1>4, FS_CardinalityType

\* Counts of crashes and faults only grow.
LEMMA LostGrows ==
    ASSUME IInv, LegStep
    PROVE  crashes' >= crashes /\ faults' >= faults
BY LegTypes
   DEF LegStep, Stays, Begins, BeginsToLeave, Proceeds, Forgets, OrdersLeg, TakesNext, Saves,
       Replaces, Returns, SavesTheEnd

LEMMA LostSum ==
    ASSUME IInv, IInv', LegStep
    PROVE  /\ crashes + faults \in Nat /\ crashes' + faults' \in Nat
           /\ crashes + faults <= crashes' + faults'
           /\ 1 + crashes + faults <= 1 + crashes' + faults'
BY LostGrows, OpenFacts

\* When no open order is added, the bounds on the ids that stay are kept.
LEMMA UnknownFewer ==
    ASSUME IInv, IInv', LegStep, Fewer(orders, orders'), NEW id,
           \A l \in Legs : Cardinality(Open(orders, l) \ {id[l]}) <= crashes + faults
    PROVE  \A l \in Legs : Cardinality(Open(orders', l) \ {id[l]}) <= crashes' + faults'
<1> SUFFICES ASSUME NEW l \in Legs
             PROVE  Cardinality(Open(orders', l) \ {id[l]}) <= crashes' + faults'
  OBVIOUS
<1>1. Open(orders', l) \ {id[l]} \subseteq Open(orders, l) \ {id[l]}
  BY OpenFacts, OpenFewer
<1>2. IsFiniteSet(Open(orders, l) \ {id[l]})
  BY OpenFacts, FS_Subset
<1>3. Cardinality(Open(orders', l) \ {id[l]}) <= Cardinality(Open(orders, l) \ {id[l]})
      /\ Cardinality(Open(orders', l) \ {id[l]}) \in Nat
  BY <1>1, <1>2, FewerThan
<1>4. Cardinality(Open(orders, l) \ {id[l]}) <= crashes + faults /\ Cardinality(Open(orders, l) \ {id[l]}) \in Nat
  BY OpenFacts
<1> QED
  BY <1>3, <1>4, LostSum

LEMMA OpenOnceFewer ==
    ASSUME IInv, IInv', LegStep, Fewer(orders, orders'), OpenOnce
    PROVE  OpenOnce'
<1> SUFFICES ASSUME NEW l \in Legs
             PROVE  Cardinality(Open(orders', l)) <= 1 + crashes' + faults'
  BY DEF OpenOnce
<1>1. Open(orders', l) \subseteq Open(orders, l)
  BY OpenFacts, OpenFewer
<1>2. Cardinality(Open(orders', l)) <= Cardinality(Open(orders, l)) /\ Cardinality(Open(orders', l)) \in Nat
  BY <1>1, OpenFacts, FewerThan
<1>3. Cardinality(Open(orders, l)) <= 1 + crashes + faults
  BY DEF OpenOnce
<1> QED
  BY <1>2, <1>3, OpenFacts, LostGrows

\* The order that is placed is the one the copy then knows: before, it knew none of its
\* leg that is open.
LEMMA UnknownAdds ==
    ASSUME IInv, IInv', LegStep, TradedOnce, exec.pc \in Work,
           NEW p \in LegOrders, Adds(orders, orders', p), p.leg = exec.leg,
           CurrentId \notin Open(orders, exec.leg),
           exec'.action.id = [exec.action.id EXCEPT ![exec.leg] = Len(orders) + 1]
    PROVE  /\ \A l \in Legs : Cardinality(Open(orders', l) \ {exec'.action.id[l]}) <= crashes' + faults'
           /\ OpenOnce'
<1>1. \A l \in Legs : exec'.action.id[l] = IF l = exec.leg THEN Len(orders) + 1 ELSE exec.action.id[l]
  BY LegTypes
<1>2. ASSUME NEW l \in Legs
      PROVE  /\ Cardinality(Open(orders', l) \ {exec'.action.id[l]}) <= crashes' + faults'
             /\ Cardinality(Open(orders', l)) <= 1 + crashes' + faults'
  <2>1. Cardinality(Open(orders, l) \ {exec.action.id[l]}) <= crashes + faults
        /\ Cardinality(Open(orders, l)) <= 1 + crashes + faults
    BY <1>2 DEF TradedOnce, OpenInCopy, OpenOnce, Unknown
  <2>2. CASE l = exec.leg
    <3>1. Open(orders, l) \ {exec.action.id[l]} = Open(orders, l)
      BY <2>2 DEF CurrentId
    <3>2. Open(orders', l) \subseteq Open(orders, l) \cup {Len(orders) + 1}
      BY OpenFacts, OpenAdds
    <3>3. Open(orders', l) \ {exec'.action.id[l]} \subseteq Open(orders, l)
      BY <1>1, <2>2, <3>2
    <3>4. /\ Cardinality(Open(orders', l) \ {exec'.action.id[l]}) <= Cardinality(Open(orders, l))
          /\ Cardinality(Open(orders', l) \ {exec'.action.id[l]}) \in Nat
      BY <3>3, OpenFacts, FewerThan
    <3>5. /\ Cardinality(Open(orders', l)) <= Cardinality(Open(orders, l)) + 1
          /\ Cardinality(Open(orders', l)) \in Nat
      BY <3>2, OpenFacts, OneMoreThan
    <3> QED
      <4>1. Cardinality(Open(orders, l)) <= crashes + faults /\ Cardinality(Open(orders, l)) \in Nat
        BY <2>1, <3>1, OpenFacts
      <4>2. Cardinality(Open(orders', l)) <= 1 + crashes' + faults'
        BY <3>5, <4>1, LostSum, OpenFacts
      <4> QED
        BY <3>4, <4>1, <4>2, LostSum
  <2>3. CASE l # exec.leg
    <3>1. Open(orders', l) \subseteq Open(orders, l)
      BY <2>3, OpenFacts, OpenAdds
    <3>2. exec'.action.id[l] = exec.action.id[l]
      BY <1>1, <2>3
    <3> DEFINE i == exec.action.id[l]
    <3>3. Open(orders', l) \ {i} \subseteq Open(orders, l) \ {i} /\ IsFiniteSet(Open(orders, l) \ {i})
      BY <3>1, OpenFacts, FS_Subset
    <3> HIDE DEF i
    <3>4. /\ Cardinality(Open(orders', l) \ {i}) <= Cardinality(Open(orders, l) \ {i})
          /\ Cardinality(Open(orders', l) \ {i}) \in Nat
      BY <3>3, FewerThan
    <3>5. Cardinality(Open(orders', l)) <= Cardinality(Open(orders, l)) /\ Cardinality(Open(orders', l)) \in Nat
      BY <3>1, OpenFacts, FewerThan
    <3>6. /\ Cardinality(Open(orders', l) \ {i}) <= crashes' + faults'
          /\ Cardinality(Open(orders', l)) <= 1 + crashes' + faults'
      <4>1. Cardinality(Open(orders, l) \ {i}) <= crashes + faults
        BY <2>1 DEF i
      <4> QED
        <5>1. Cardinality(Open(orders, l) \ {i}) \in Nat /\ Cardinality(Open(orders, l)) \in Nat
          BY OpenFacts
        <5>2. Cardinality(Open(orders', l) \ {i}) <= crashes' + faults'
          BY <3>4, <4>1, <5>1, LostSum
        <5>3. 1 + crashes + faults \in Nat /\ 1 + crashes' + faults' \in Nat
          BY OpenFacts
        <5>4. Cardinality(Open(orders', l)) <= 1 + crashes' + faults'
          BY <2>1, <3>5, <5>1, <5>3, LostSum
        <5> QED
          BY <5>2, <5>4
    <3> QED
      BY <3>2, <3>6 DEF i
  <2> QED
    BY <2>2, <2>3
<1> QED
  BY <1>2 DEF OpenOnce

\* Execute loses what it has ordered by one failed save or one crash.
LEMMA CopyIsLost ==
    ASSUME IInv, IInv', OpenInCopy, exec.pc \in Work \cup {"save", "saveOrPanic"},
           orders' = orders, crashes' + faults' >= crashes + faults + 1
    PROVE  \A l \in Legs : Cardinality(Open(orders', l) \ {row.id[l]}) <= crashes' + faults'
<1> SUFFICES ASSUME NEW l \in Legs
             PROVE  Cardinality(Open(orders, l) \ {row.id[l]}) <= crashes' + faults'
  OBVIOUS
<1>1. Cardinality(Open(orders, l) \ {exec.action.id[l]}) <= crashes + faults
  BY DEF OpenInCopy, Unknown
<1>2. crashes + faults \in Nat
  BY OpenFacts
<1> DEFINE m == crashes + faults
           S == Open(orders, l)
           x == exec.action.id[l]
<1>3. m \in Nat /\ IsFiniteSet(S) /\ Cardinality(S \ {x}) <= m
  BY <1>1, <1>2, OpenFacts
<1>4. m + 1 <= crashes' + faults' /\ crashes' + faults' \in Nat
  BY OpenFacts
<1> HIDE DEF m, S, x
<1>5. Cardinality(S \ {row.id[l]}) <= m + 1
  BY <1>3, OneIsLost
<1>6. IsFiniteSet(S \ {row.id[l]})
  BY <1>3, FS_Subset
<1>7. Cardinality(S \ {row.id[l]}) \in Nat
  BY <1>6, FS_CardinalityType
<1>8. Cardinality(S \ {row.id[l]}) <= crashes' + faults'
  BY <1>3, <1>4, <1>5, <1>7
<1> QED
  BY <1>8 DEF S

LEMMA TradedOnceKept ==
    ASSUME IInv, IInv', DeadIsDead, TradedOnce, LegStep
    PROVE  TradedOnce'
<1>1. CASE Fewer(orders, orders') /\ UNCHANGED row /\ exec'.action.id = exec.action.id
           /\ (exec'.pc \in Work \cup {"save", "saveOrPanic"} => exec.pc \in Work \cup {"save", "saveOrPanic"})
           /\ (exec'.pc \notin {"save", "saveOrPanic"} => exec.pc \notin {"save", "saveOrPanic"})
  <2>1. OpenOnce'
    BY <1>1, OpenOnceFewer DEF TradedOnce
  <2>2. OpenInCopy'
    <3> SUFFICES ASSUME exec.pc \in Work \cup {"save", "saveOrPanic"}
                 PROVE  \A l \in Legs : Cardinality(Open(orders', l) \ {exec'.action.id[l]}) <= crashes' + faults'
      BY <1>1 DEF OpenInCopy, Unknown
    <3>1. \A l \in Legs : Cardinality(Open(orders, l) \ {exec.action.id[l]}) <= crashes + faults
      BY DEF TradedOnce, OpenInCopy, Unknown
    <3>2. \A l \in Legs : Cardinality(Open(orders', l) \ {exec.action.id[l]}) <= crashes' + faults'
      BY <1>1, <3>1, UnknownFewer
    <3> QED
      BY <1>1, <3>2
  <2>3. OpenInRow'
    <3> SUFFICES ASSUME row.status \in Active, exec.pc \notin {"save", "saveOrPanic"}
                 PROVE  \A l \in Legs : Cardinality(Open(orders', l) \ {row.id[l]}) <= crashes' + faults'
      BY <1>1 DEF OpenInRow, Unknown
    <3>1. \A l \in Legs : Cardinality(Open(orders, l) \ {row.id[l]}) <= crashes + faults
      BY DEF TradedOnce, OpenInRow, Unknown
    <3> QED
      BY <1>1, <3>1, UnknownFewer
  <2> QED
    BY <2>1, <2>2, <2>3 DEF TradedOnce
<1>2. CASE Stays
  BY <1>1, <1>2 DEF Stays
<1>3. CASE Proceeds \/ TakesNext
  <2>1. Fewer(orders, orders') /\ exec.pc \in Work
    BY <1>3, FewerSame, LegTypes DEF Proceeds, TakesNext, Work
  <2> QED
    BY <1>1, <1>3, <2>1 DEF Proceeds, TakesNext, Work
<1>4. CASE Begins \/ BeginsToLeave
  <2>1. /\ Fewer(orders, orders') /\ UNCHANGED <<orders, row, crashes, faults>> /\ exec.pc = "idle"
        /\ exec'.pc \in {"chain", "save"} => row.status \in Active /\ exec'.action.id = row.id
        /\ exec'.pc \in {"chain", "save", "leaveSwapMode"}
    BY <1>4, FewerSame, LegTypes DEF Begins, BeginsToLeave
  <2>2. OpenOnce'
    BY <2>1, OpenOnceFewer DEF TradedOnce
  <2>3. row.status \in Active => \A l \in Legs : Cardinality(Open(orders, l) \ {row.id[l]}) <= crashes + faults
    BY <2>1 DEF TradedOnce, OpenInRow, Unknown
  <2> QED
    BY <2>1, <2>2, <2>3 DEF TradedOnce, OpenInRow, OpenInCopy, Unknown, Work
<1>5. CASE Forgets
  <2>1. /\ Fewer(orders, orders') /\ UNCHANGED <<orders, row, crashes, faults>> /\ exec'.pc = "save"
        /\ exec.pc \in Work /\ IsDeadId(orders, CurrentId)
        /\ exec'.action.id = [exec.action.id EXCEPT ![exec.leg] = None]
    BY <1>5, FewerSame, LegTypes DEF Forgets
  <2>2. OpenOnce'
    BY <2>1, OpenOnceFewer DEF TradedOnce
  <2>3. ASSUME NEW l \in Legs
        PROVE  Cardinality(Open(orders, l) \ {exec'.action.id[l]}) <= crashes + faults
    <3>1. Cardinality(Open(orders, l) \ {exec.action.id[l]}) <= crashes + faults
      BY <2>1 DEF TradedOnce, OpenInCopy, Unknown
    <3>2. l = exec.leg => exec.action.id[l] \notin Open(orders, l) /\ None \notin Open(orders, l)
      BY <2>1, LegTypes DEF Open, IsDeadId, CurrentId, None
    <3>3. exec'.action.id[l] = IF l = exec.leg THEN None ELSE exec.action.id[l]
      BY <2>1, LegTypes
    <3>4. Open(orders, l) \ {exec'.action.id[l]} = Open(orders, l) \ {exec.action.id[l]}
      BY <3>2, <3>3
    <3> QED
      BY <3>1, <3>4
  <2> QED
    BY <2>1, <2>2, <2>3 DEF TradedOnce, OpenInRow, OpenInCopy, Unknown
<1>6. ASSUME NEW p \in LegOrders, OrdersLeg(p)
      PROVE  TradedOnce'
  <2>1. /\ exec.pc \in Work /\ exec'.pc = "save" /\ Adds(orders, orders', p) /\ p.leg = exec.leg
        /\ exec'.action.id = [exec.action.id EXCEPT ![exec.leg] = Len(orders) + 1]
        /\ CurrentId = None
    BY <1>6 DEF OrdersLeg, Work
  <2>2. CurrentId \notin Open(orders, exec.leg)
    BY <2>1, LegTypes DEF Open, None
  <2> QED
    BY <2>1, <2>2, UnknownAdds DEF TradedOnce, OpenInRow, OpenInCopy, Unknown
<1>7. ASSUME NEW p \in LegOrders, Replaces(p)
      PROVE  TradedOnce'
  <2>1. /\ exec.pc \in Work /\ exec'.pc = "saveOrPanic" /\ Adds(orders, orders', p) /\ p.leg = exec.leg
        /\ exec'.action.id = [exec.action.id EXCEPT ![exec.leg] = Len(orders) + 1]
        /\ IsDeadId(orders, CurrentId)
    BY <1>7 DEF Replaces, Work, DeadIsDead, DeadIsHeld, AtDead
  <2>2. CurrentId \notin Open(orders, exec.leg)
    BY <2>1 DEF Open, IsDeadId
  <2> QED
    BY <2>1, <2>2, UnknownAdds DEF TradedOnce, OpenInRow, OpenInCopy, Unknown
<1>8. CASE Saves \/ SavesTheEnd
  <2>1. /\ Fewer(orders, orders') /\ UNCHANGED <<orders, crashes>> /\ exec.pc \in {"save", "saveOrPanic"}
        /\ \/ row' = exec.action /\ faults' = faults
           \/ row' = row /\ faults' = faults + 1
    BY <1>8, FewerSame, LegTypes DEF Saves, SavesTheEnd
  <2>2. OpenOnce'
    BY <2>1, OpenOnceFewer DEF TradedOnce
  <2>3. \A l \in Legs : Cardinality(Open(orders, l) \ {exec.action.id[l]}) <= crashes + faults
    BY <2>1 DEF TradedOnce, OpenInCopy, Unknown
  <2>4. OpenInRow'
    <3>1. CASE row' = exec.action /\ faults' = faults
      BY <2>1, <2>3, <3>1 DEF OpenInRow, Unknown
    <3>2. CASE row' = row /\ faults' = faults + 1
      <4>1. crashes' + faults' >= crashes + faults + 1
        BY <2>1, <3>2, OpenFacts
      <4>2. \A l \in Legs : Cardinality(Open(orders', l) \ {row.id[l]}) <= crashes' + faults'
        BY <2>1, <4>1, CopyIsLost DEF TradedOnce
      <4> QED
        BY <3>2, <4>2 DEF OpenInRow, Unknown
    <3> QED
      BY <2>1, <3>1, <3>2
  <2>5. OpenInCopy'
    <3>1. exec'.pc = "idle" \/ exec'.action.id = exec.action.id
      BY <1>8, IdleIs, LegTypes DEF Saves, SavesTheEnd, Execs
    <3>2. \A l \in Legs : Cardinality(Open(orders', l) \ {exec.action.id[l]}) <= crashes' + faults'
      BY <2>1, <2>3, UnknownFewer
    <3> QED
      BY <3>1, <3>2 DEF OpenInCopy, Unknown, Work
  <2> QED
    BY <2>2, <2>4, <2>5 DEF TradedOnce
<1>9. CASE Returns
  <2>1. Fewer(orders, orders') /\ UNCHANGED <<orders, row>> /\ exec'.pc = "idle"
    BY <1>9, FewerSame, LegTypes, IdleIs DEF Returns
  <2>2. OpenOnce'
    BY <2>1, OpenOnceFewer DEF TradedOnce
  <2>3. OpenInCopy'
    BY <2>1 DEF OpenInCopy, Work
  <2>4. OpenInRow'
    <3>1. CASE exec.pc \notin {"save", "saveOrPanic"}
      <4>1. row.status \in Active => \A l \in Legs : Cardinality(Open(orders', l) \ {row.id[l]}) <= crashes' + faults'
        BY <2>1, <3>1, UnknownFewer DEF TradedOnce, OpenInRow, Unknown
      <4> QED
        BY <2>1, <4>1 DEF OpenInRow, Unknown
    <3>3. CASE exec.pc \in {"save", "saveOrPanic"} /\ crashes' = crashes + 1 /\ faults' >= faults
      <4>1. crashes' + faults' >= crashes + faults + 1
        BY <3>3, OpenFacts
      <4>2. \A l \in Legs : Cardinality(Open(orders', l) \ {row.id[l]}) <= crashes' + faults'
        BY <2>1, <3>3, <4>1, CopyIsLost DEF TradedOnce
      <4> QED
        BY <2>1, <4>2 DEF OpenInRow, Unknown
    <3> QED
      BY <1>9, <3>1, <3>3 DEF Returns
  <2> QED
    BY <2>2, <2>3, <2>4 DEF TradedOnce
<1> QED
  BY <1>2, <1>3, <1>4, <1>5, <1>6, <1>7, <1>8, <1>9 DEF LegStep

-----------------------------------------------------------------------------
(***************************************************************************)
(* Few live orders are lost: a live order that the copy does not name was  *)
(* lost by a crash, or by five failing requests.                           *)
(***************************************************************************)
Live(os) == { n \in 1..Len(os) : IsLive(os[n]) }
NamedBy(id) == { id[l] : l \in Legs }
Astray(id) == Live(orders) \ NamedBy(id)
Lost == 5 * crashes + faults

\* The order of the leg is live, and the row does not name it.
Unsaved == CurrentId \in Live(orders) /\ CurrentId \notin NamedBy(row.id)

LostByCopy ==
    OnLeg => 5 * Cardinality(Astray(exec.action.id)) + (IF Unsaved THEN Missed ELSE 0) <= Lost
LostByRow ==
    exec.pc \in {"idle", "leaveSwapMode"} /\ (row.status \in Ended \/ (exec.pc = "idle" /\ position)) =>
        5 * Cardinality(Astray(row.id)) <= Lost
LostAtEnd == exec.pc = "saveOrPanic" => 5 * Cardinality(Live(orders)) <= Lost
LiveBounded == 5 * Cardinality(Live(orders)) <= 5 + Lost
Forgotten == exec.pc = "save" /\ exec.then = "idle" => CurrentId = None

FewLost == LostByCopy /\ LostByRow /\ LostAtEnd /\ LiveBounded /\ Forgotten

LEMMA LiveIsFinite ==
    ASSUME NEW os, Len(os) \in Nat
    PROVE  IsFiniteSet(Live(os))
<1>1. IsFiniteSet(1..Len(os))
  BY FS_Interval
<1>2. Live(os) \subseteq 1..Len(os)
  BY DEF Live
<1> QED
  BY <1>1, <1>2, FS_Subset

LEMMA LiveFewer ==
    ASSUME NEW os, NEW ps, Fewer(os, ps)
    PROVE  Live(ps) \subseteq Live(os)
BY DEF Fewer, Live

LEMMA LiveAdds ==
    ASSUME NEW os \in Seq(LegOrders), NEW ps, NEW p \in LegOrders, Adds(os, ps, p)
    PROVE  /\ Live(ps) \subseteq Live(os) \cup {Len(os) + 1}
           /\ IsFilled(p) => Live(ps) \subseteq Live(os)
<1>1. Len(os) \in Nat /\ Len(ps) = Len(os) + 1 /\ ps[Len(os) + 1] = p
        /\ \A i \in 1..Len(os) : ps[i] = os[i]
  BY AppendProperties DEF Adds
<1>2. \A i \in 1..Len(ps) : i \in 1..Len(os) \/ i = Len(os) + 1
  BY <1>1
<1>3. IsFilled(p) => ~IsLive(p)
  BY DEF IsFilled, IsLive
<1> QED
  BY <1>1, <1>2, <1>3 DEF Live

\* Only one order that the copy names is live, that of the leg or one the row names.
LEMMA NamedAndLive ==
    ASSUME IInv, Chain, OnLeg
    PROVE  /\ \A n \in Live(orders) \cap NamedBy(exec.action.id) : n = CurrentId \/ n \in NamedBy(row.id)
           /\ CurrentId = None \/ IsDeadId(orders, CurrentId)
                => Live(orders) \cap NamedBy(exec.action.id) = {}
<1>1. exec.action.id \in [Legs -> 0..Len(orders)] /\ exec.leg \in Legs /\ Len(orders) \in Nat
  BY LegTypes
<1>2. ASSUME NEW l \in Legs, exec.action.id[l] \in Live(orders)
      PROVE  /\ l = exec.leg \/ exec.action.id[l] = row.id[l]
             /\ CurrentId # None /\ ~IsDeadId(orders, CurrentId)
  <2>1. exec.action.id[l] # None /\ ~IsFilled(orders[exec.action.id[l]]) /\ ~IsDead(orders[exec.action.id[l]])
    BY <1>1, <1>2 DEF Live, None, IsLive, IsFilled, IsDead, IsCanceled, IsExpired
  <2>2. ~(l < exec.leg)
    BY <2>1, <1>2 DEF Chain, Behind
  <2>3. CASE l > exec.leg
    <3>1. CurrentId # None /\ IsFilled(orders[CurrentId])
      BY <1>1, <2>1, <2>3 DEF Chain, Prefixes, Prefix, CurrentId
    <3>2. ~IsDeadId(orders, CurrentId)
      BY <3>1, FilledIsNotDead DEF IsDeadId
    <3>3. exec.action.id[l] = row.id[l]
      BY <2>3 DEF Chain, Ahead
    <3> QED
      BY <3>1, <3>2, <3>3
  <2>4. CASE l = exec.leg
    BY <2>1, <2>4 DEF CurrentId, IsDeadId
  <2> QED
    BY <1>1, <2>2, <2>3, <2>4 DEF Legs
<1>3. ASSUME NEW n \in Live(orders) \cap NamedBy(exec.action.id)
      PROVE  /\ n = CurrentId \/ n \in NamedBy(row.id)
             /\ CurrentId # None /\ ~IsDeadId(orders, CurrentId)
  <2>1. PICK l \in Legs : n = exec.action.id[l]
    BY DEF NamedBy
  <2> QED
    BY <1>2, <2>1 DEF NamedBy, CurrentId
<1> QED
  BY <1>3

\* The facts the cases use
LEMMA LiveFacts ==
    ASSUME IInv, IInv'
    PROVE  /\ orders \in Seq(LegOrders) /\ Len(orders) \in Nat /\ Len(orders') \in Nat
           /\ crashes \in Nat /\ faults \in Nat /\ crashes' \in Nat /\ faults' \in Nat
           /\ Lost \in Nat /\ Lost' \in Nat
           /\ IsFiniteSet(Live(orders)) /\ IsFiniteSet(Live(orders'))
           /\ \A id : IsFiniteSet(Astray(id)) /\ Cardinality(Astray(id)) \in Nat
           /\ Cardinality(Live(orders)) \in Nat
<1>1. orders \in Seq(LegOrders) /\ Len(orders) \in Nat /\ crashes \in Nat /\ faults \in Nat
  BY LegTypes
<1>2. Len(orders') \in Nat /\ crashes' \in Nat /\ faults' \in Nat
  BY SwapBoundsAssumption DEF IInv, TypeOK
<1>3. Lost \in Nat /\ Lost' \in Nat
  <2>1. \A c, f \in Nat : 5 * c + f \in Nat
    OBVIOUS
  <2>2. 5 * crashes + faults \in Nat /\ 5 * crashes' + faults' \in Nat
    BY <1>1, <1>2, <2>1
  <2> QED
    BY <2>2 DEF Lost
<1>4. IsFiniteSet(Live(orders)) /\ IsFiniteSet(Live(orders'))
  BY <1>1, <1>2, LiveIsFinite
<1>5. \A id : IsFiniteSet(Astray(id))
  BY <1>4, FS_Subset DEF Astray
<1> QED
  BY <1>1, <1>2, <1>3, <1>4, <1>5, FS_CardinalityType

LEMMA LostMore ==
    ASSUME IInv, IInv', LegStep
    PROVE  Lost' >= Lost
BY LostGrows, LiveFacts DEF Lost

\* The bound on all live orders
LEMMA LiveBoundedKept ==
    ASSUME IInv, IInv', LegStep, LiveBounded, Live(orders') \subseteq Live(orders)
    PROVE  LiveBounded'
<1>1. Cardinality(Live(orders')) <= Cardinality(Live(orders)) /\ Cardinality(Live(orders')) \in Nat
  BY LiveFacts, FewerThan
<1>2. 5 * Cardinality(Live(orders)) <= 5 + Lost
  BY DEF LiveBounded
<1>3. 5 * Cardinality(Live(orders')) <= 5 + Lost'
  BY <1>1, <1>2, LostMore, LiveFacts
<1> QED
  BY <1>3 DEF LiveBounded

\* A set with no more elements than one that is bounded
LEMMA NoMoreLost ==
    ASSUME NEW S, NEW T, IsFiniteSet(S), T \subseteq S, NEW m \in Nat, NEW n \in Nat, m <= n,
           NEW k \in Nat, 5 * Cardinality(S) + k <= m
    PROVE  5 * Cardinality(T) + k <= n
<1>1. Cardinality(T) <= Cardinality(S) /\ Cardinality(S) \in Nat /\ Cardinality(T) \in Nat
  BY FewerThan
<1> QED
  BY <1>1

LEMMA OneMoreLost ==
    ASSUME NEW S, NEW T, NEW x, IsFiniteSet(S), T \subseteq S \cup {x},
           NEW m \in Nat, NEW n \in Nat, NEW k \in Nat, 5 * Cardinality(S) + k <= m, m + 5 <= n + k
    PROVE  5 * Cardinality(T) <= n
<1>1. Cardinality(T) <= Cardinality(S) + 1 /\ Cardinality(S) \in Nat /\ Cardinality(T) \in Nat
  BY OneMoreThan
<1> QED
  BY <1>1

LEMMA MissedIsCount == Missed \in {0, 1, 2, 3, 4}
BY DEF Missed

\* Execute goes on with a leg: nothing is lost, and no more failures are counted for the
\* order of the leg than before.
LEMMA LostByCopyKept ==
    ASSUME IInv, IInv', LegStep, OnLeg, FewLost, Live(orders') \subseteq Live(orders),
           Live(orders') \cap NamedBy(exec.action.id) \subseteq NamedBy(exec'.action.id),
           Unsaved' => Unsaved /\ Missed' + Lost <= Missed + Lost'
    PROVE  LostByCopy'
<1>1. Live(orders') \ NamedBy(exec'.action.id) \subseteq Astray(exec.action.id)
  BY DEF Astray
<1>2. IsFiniteSet(Astray(exec.action.id)) /\ Lost \in Nat /\ Lost' \in Nat /\ Lost <= Lost'
      /\ Missed \in Nat /\ Missed' \in Nat
  <2>1. Missed \in {0, 1, 2, 3, 4} /\ Missed' \in {0, 1, 2, 3, 4}
    BY MissedIsCount DEF Missed
  <2> QED
    BY <2>1, LiveFacts, LostMore
<1>3. 5 * Cardinality(Astray(exec.action.id)) + (IF Unsaved THEN Missed ELSE 0) <= Lost
  BY DEF FewLost, LostByCopy
<1> DEFINE S == Astray(exec.action.id)
           T == Live(orders') \ NamedBy(exec'.action.id)
<1>4. IsFiniteSet(S) /\ T \subseteq S
  BY <1>1, <1>2
<1>5. Cardinality(S) \in Nat
  BY <1>4, FS_CardinalityType
<1>6. 5 * Cardinality(S) + (IF Unsaved THEN Missed ELSE 0) <= Lost
  BY <1>3
<1> HIDE DEF S, T
<1>7. Cardinality(T) <= Cardinality(S) /\ Cardinality(T) \in Nat
  BY <1>4, FewerThan
<1>8. 5 * Cardinality(T) + (IF Unsaved' THEN Missed' ELSE 0) <= Lost'
  <2>1. CASE Unsaved'
    <3>1. 5 * Cardinality(S) + Missed <= Lost /\ Missed' + Lost <= Missed + Lost'
      BY <1>6, <2>1
    <3>2. \A s, t, m, n, a, b \in Nat : t <= s /\ 5 * s + m <= a /\ n + a <= m + b => 5 * t + n <= b
      OBVIOUS
    <3>3. Missed \in Nat /\ Missed' \in Nat /\ Lost \in Nat /\ Lost' \in Nat
      BY <1>2
    <3>4. 5 * Cardinality(T) + Missed' <= Lost'
      BY <1>5, <1>7, <3>1, <3>2, <3>3
    <3> QED
      BY <2>1, <3>4
  <2>2. CASE ~Unsaved'
    <3>1. (IF Unsaved THEN Missed ELSE 0) \in Nat
      BY <1>2
    <3> QED
      BY <1>2, <1>5, <1>6, <1>7, <2>2, <3>1
  <2> QED
    BY <2>1, <2>2
<1> QED
  BY <1>8 DEF LostByCopy, Astray, T

\* Execute returns, and the row is what is left.
LEMMA LostByRowKept ==
    ASSUME IInv, IInv', LegStep, NEW S, IsFiniteSet(S), 5 * Cardinality(S) <= Lost,
           Live(orders') \ NamedBy(row'.id) \subseteq S
    PROVE  LostByRow'
<1> DEFINE T == Live(orders') \ NamedBy(row'.id)
<1>1. T \subseteq S
  OBVIOUS
<1> HIDE DEF T
<1>2. Cardinality(T) <= Cardinality(S) /\ Cardinality(S) \in Nat /\ Cardinality(T) \in Nat
  BY <1>1, FewerThan
<1>3. 5 * Cardinality(T) <= Lost'
  BY <1>2, LiveFacts, LostMore
<1> QED
  BY <1>3 DEF LostByRow, Astray, T

\* What a crash, or four failures and a fifth, lose is one order.
LEMMA OneIsAstray ==
    ASSUME IInv, IInv', LegStep, NEW S, IsFiniteSet(S), NEW k \in Nat, 5 * Cardinality(S) + k <= Lost,
           Lost + 5 <= Lost' + k, NEW x, Live(orders') \ NamedBy(row'.id) \subseteq S \cup {x}
    PROVE  LostByRow'
<1> DEFINE T == Live(orders') \ NamedBy(row'.id)
<1>1. T \subseteq S \cup {x}
  OBVIOUS
<1> HIDE DEF T
<1>2. 5 * Cardinality(T) <= Lost'
  BY <1>1, LiveFacts, OneMoreLost
<1> QED
  BY <1>2 DEF LostByRow, Astray, T

\* Where the order of the leg is not live, no live order is in the copy.
LEMMA AllAstray ==
    ASSUME IInv, IInv', Chain, OnLeg, FewLost, CurrentId = None \/ IsDeadId(orders, CurrentId)
    PROVE  5 * Cardinality(Live(orders)) <= Lost
<1>1. Live(orders) = Astray(exec.action.id)
  BY NamedAndLive DEF Astray
<1>2. /\ 5 * Cardinality(Astray(exec.action.id)) + (IF Unsaved THEN Missed ELSE 0) <= Lost
      /\ Cardinality(Astray(exec.action.id)) \in Nat /\ Lost \in Nat
  BY LiveFacts DEF FewLost, LostByCopy
<1>3. ~Unsaved
  BY LegTypes DEF Unsaved, Live, IsDeadId, None, IsLive, IsDead, IsCanceled, IsExpired
<1> QED
  BY <1>1, <1>2, <1>3

\* A copy that goes on has lost no more.
LEMMA AstrayBounded ==
    ASSUME IInv, IInv', OnLeg, FewLost
    PROVE  /\ 5 * Cardinality(Astray(exec.action.id)) <= Lost
           /\ IsFiniteSet(Astray(exec.action.id)) /\ Cardinality(Astray(exec.action.id)) \in Nat
<1>1. Missed \in Nat
  BY MissedIsCount
<1>2. /\ 5 * Cardinality(Astray(exec.action.id)) + (IF Unsaved THEN Missed ELSE 0) <= Lost
      /\ Cardinality(Astray(exec.action.id)) \in Nat /\ Lost \in Nat
      /\ IsFiniteSet(Astray(exec.action.id))
  BY LiveFacts DEF FewLost, LostByCopy
<1> QED
  BY <1>1, <1>2

LEMMA ReturnsKeepsFewLost ==
    ASSUME IInv, IInv', Chain, FewLost, LegStep, Returns
    PROVE  LostByRow'
<1>1. exec' = Idle /\ orders' = orders /\ row' = row
  BY DEF Returns
<1>2. CASE exec.pc \in {"chain", "leg"}
  <2>1. OnLeg /\ Starting
    BY <1>2 DEF OnLeg, Work, Starting
  <2>2. CurrentId = row.id[exec.leg] /\ exec.leg \in Legs
    BY <2>1, LegTypes DEF Chain, Ahead
  <2>3. Live(orders) \ NamedBy(row.id) \subseteq Astray(exec.action.id)
    BY <2>1, <2>2, NamedAndLive DEF Astray, NamedBy
  <2> QED
    BY <1>1, <2>1, <2>3, AstrayBounded, LostByRowKept
<1>3. CASE exec.pc = "leaveSwapMode" /\ row.status \in Ended
  <2>1. 5 * Cardinality(Astray(row.id)) <= Lost /\ IsFiniteSet(Astray(row.id))
    BY <1>3, LiveFacts DEF FewLost, LostByRow
  <2> QED
    BY <1>1, <2>1, LostByRowKept DEF Astray
<1>4. CASE exec.pc = "saveOrPanic"
  <2>1. 5 * Cardinality(Live(orders)) <= Lost /\ IsFiniteSet(Live(orders))
    BY <1>4, LiveFacts DEF FewLost, LostAtEnd
  <2> QED
    BY <1>1, <2>1, LostByRowKept
<1>5. CASE exec.pc = "leaveSwapMode" /\ row.status \in Active /\ ~position'
  BY <1>1, <1>5 DEF LostByRow, Active, Ended
<1>6. CASE OnLeg /\ crashes' = crashes + 1 /\ faults' >= faults
  <2>1. Lost + 5 <= Lost' + 0
    <3>1. \A c, d, f, g \in Nat : d = c + 1 /\ g >= f => (5 * c + f) + 5 <= (5 * d + g) + 0
      OBVIOUS
    <3> QED
      BY <1>6, <3>1, LiveFacts DEF Lost
  <2>2. Live(orders) \ NamedBy(row.id) \subseteq Astray(exec.action.id) \cup {CurrentId}
    BY <1>6, NamedAndLive DEF Astray
  <2>3. 5 * Cardinality(Astray(exec.action.id)) + 0 <= Lost /\ IsFiniteSet(Astray(exec.action.id))
    BY <1>6, AstrayBounded
  <2> QED
    BY <1>1, <2>1, <2>2, <2>3, OneIsAstray
<1>7. CASE exec.pc = "leaveSwapMode" /\ row.status \in Active /\ faults' = faults + 1 /\ UNCHANGED crashes
  <2>1. OnLeg /\ Missed = 4
    BY <1>7 DEF OnLeg, Missed
  <2>2. CASE Unsaved
    <3>1. 5 * Cardinality(Astray(exec.action.id)) + 4 <= Lost /\ IsFiniteSet(Astray(exec.action.id))
      BY <2>1, <2>2, LiveFacts DEF FewLost, LostByCopy
    <3>2. Lost + 5 <= Lost' + 4
      BY <1>7, LiveFacts DEF Lost
    <3>3. Live(orders) \ NamedBy(row.id) \subseteq Astray(exec.action.id) \cup {CurrentId}
      BY <2>1, NamedAndLive DEF Astray
    <3> QED
      BY <1>1, <3>1, <3>2, <3>3, OneIsAstray
  <2>3. CASE ~Unsaved
    <3>1. Live(orders) \ NamedBy(row.id) \subseteq Astray(exec.action.id)
      BY <2>1, <2>3, NamedAndLive DEF Astray, Unsaved
    <3> QED
      BY <1>1, <2>1, <3>1, AstrayBounded, LostByRowKept
  <2> QED
    BY <2>2, <2>3
<1>8. exec.pc \notin {"idle", "saveOrPanic", "leaveSwapMode"} => OnLeg
  BY LegTypes DEF OnLeg, Work, Places
<1>9. exec.pc = "leaveSwapMode" => row.status \in Ended \/ (OnLeg /\ row.status \in Active)
  BY LegTypes DEF OnLeg
<1>10. \/ exec.pc \in {"chain", "leg"}
       \/ exec.pc = "leaveSwapMode" /\ (~position' \/ (faults' = faults + 1 /\ UNCHANGED crashes))
       \/ exec.pc # "idle" /\ crashes' = crashes + 1 /\ faults' >= faults
  BY DEF Returns
<1> QED
  BY <1>2, <1>3, <1>4, <1>5, <1>6, <1>7, <1>8, <1>9, <1>10

LEMMA SavesKeepsFewLost ==
    ASSUME IInv, IInv', Chain, FewLost, LegStep, Saves
    PROVE  LostByCopy' /\ LostByRow'
<1>1. /\ exec.pc = "save" /\ orders' = orders /\ crashes' = crashes /\ OnLeg /\ row.status \in Active
      /\ exec \in Execs(orders)
  BY LegTypes DEF Saves, OnLeg, IInv, Control, EndIsTheEnd
<1>2. exec' = Idle => ~OnLeg'
  BY IdleIs DEF OnLeg, Work
<1>3. exec' # Idle => exec'.pc = exec.then /\ exec'.leg = exec.leg /\ exec'.action = exec.action
                      /\ exec.then \in Resumed
  BY <1>1 DEF Saves, Execs, IInv, Control, LegOfPlace
<1>4. /\ 5 * Cardinality(Astray(exec.action.id)) <= Lost /\ IsFiniteSet(Astray(exec.action.id))
  BY <1>1, AstrayBounded
<1>5. CASE row' = exec.action /\ faults' = faults
  <2>1. LostByRow'
    BY <1>1, <1>4, <1>5, LostByRowKept DEF Astray
  <2>2. ASSUME exec' # Idle PROVE LostByCopy'
    <3>1. ~Unsaved'
      BY <1>3, <1>5, <2>2, LegTypes DEF Unsaved, NamedBy, CurrentId
    <3> QED
      BY <1>1, <1>3, <2>2, <3>1, LostByCopyKept
  <2> QED
    BY <1>2, <2>1, <2>2 DEF LostByCopy
<1>6. CASE row' = row /\ faults' = faults + 1
  <2>1. CASE exec' = Idle
    <3>1. CurrentId = None
      <4>1. exec.then = "idle"
        BY <1>1, <2>1, IdleIs DEF Saves, Execs
      <4> QED
        BY <1>1, <4>1 DEF FewLost, Forgotten
    <3>2. 5 * Cardinality(Live(orders)) <= Lost /\ IsFiniteSet(Live(orders))
      BY <1>1, <3>1, AllAstray, LiveFacts
    <3>3. LostByRow'
      BY <1>1, <1>6, <3>2, LostByRowKept
    <3> QED
      BY <1>2, <2>1, <3>3 DEF LostByCopy
  <2>2. CASE exec' # Idle
    <3>1. LostByRow'
      <4>1. exec.then # "idle"
        BY <2>2 DEF Saves
      <4> QED
        BY <1>1, <1>3, <1>6, <2>2, <4>1 DEF LostByRow, Active, Ended
    <3>2. Unsaved' => Unsaved
      BY <1>1, <1>3, <1>6, <2>2 DEF Unsaved, CurrentId
    <3>3. Missed' + Lost <= Missed + Lost'
      <4>1. Lost' = Lost + 1
        BY <1>1, <1>6, LiveFacts DEF Lost
      <4>2. Missed' <= Missed + 1
        BY <1>1, <1>3, <2>2 DEF Missed, Resumed, AtCopy
      <4>3. Missed \in {0, 1, 2, 3, 4} /\ Missed' \in {0, 1, 2, 3, 4}
        BY MissedIsCount DEF Missed
      <4> QED
        BY <4>1, <4>2, <4>3, LiveFacts
    <3> QED
      BY <1>1, <1>3, <2>2, <3>1, <3>2, <3>3, LostByCopyKept
  <2> QED
    BY <2>1, <2>2
<1> QED
  BY <1>5, <1>6 DEF Saves

LEMMA FewLostKept ==
    ASSUME IInv, IInv', DeadIsDead, Chain, FewLost, LegStep
    PROVE  FewLost'
<1>1. CASE Stays
  <2>1. Fewer(orders, orders') /\ UNCHANGED <<exec, row, position, crashes>>
    BY <1>1 DEF Stays
  <2>2. Live(orders') \subseteq Live(orders)
    BY <2>1, LiveFewer
  <2>3. LiveBounded'
    BY <2>2, LiveBoundedKept DEF FewLost
  <2>4. LostByCopy'
    <3>1. Unsaved' => Unsaved
      BY <2>1, <2>2 DEF Unsaved, CurrentId
    <3>2. Missed' = Missed /\ Missed \in Nat
      <4>1. Missed' = Missed
        BY <2>1 DEF Missed
      <4> QED
        BY <4>1, MissedIsCount
    <3>3. Missed' + Lost <= Missed + Lost'
      BY <3>2, LiveFacts, LostMore
    <3>4. OnLeg' <=> OnLeg
      BY <2>1 DEF OnLeg
    <3>5. Live(orders') \cap NamedBy(exec.action.id) \subseteq NamedBy(exec'.action.id)
      BY <2>1
    <3> QED
      BY <2>2, <3>1, <3>3, <3>4, <3>5, LostByCopyKept DEF LostByCopy
  <2>5. LostByRow'
    <3> SUFFICES ASSUME exec.pc \in {"idle", "leaveSwapMode"},
                        row.status \in Ended \/ (exec.pc = "idle" /\ position)
                 PROVE  LostByRow'
      BY <2>1 DEF LostByRow
    <3>1. 5 * Cardinality(Astray(row.id)) <= Lost /\ IsFiniteSet(Astray(row.id))
      BY LiveFacts DEF FewLost, LostByRow
    <3>2. Live(orders') \ NamedBy(row'.id) \subseteq Astray(row.id)
      BY <2>1, <2>2 DEF Astray
    <3> QED
      BY <3>1, <3>2, LostByRowKept
  <2>6. LostAtEnd'
    <3> SUFFICES ASSUME exec.pc = "saveOrPanic" PROVE 5 * Cardinality(Live(orders')) <= Lost'
      BY <2>1 DEF LostAtEnd
    <3>1. 5 * Cardinality(Live(orders)) + 0 <= Lost
      BY LiveFacts DEF FewLost, LostAtEnd
    <3>2. 5 * Cardinality(Live(orders')) + 0 <= Lost'
      BY <2>2, <3>1, LiveFacts, LostMore, NoMoreLost
    <3>3. Cardinality(Live(orders')) \in Nat
      BY LiveFacts, FS_CardinalityType
    <3> QED
      BY <3>2, <3>3
  <2>7. Forgotten'
    BY <2>1 DEF FewLost, Forgotten, CurrentId
  <2> QED
    BY <2>3, <2>4, <2>5, <2>6, <2>7 DEF FewLost
<1>2. CASE Begins
  <2>1. /\ UNCHANGED <<orders, row, position, crashes, faults>> /\ exec.pc = "idle" /\ position
        /\ exec'.pc \in {"chain", "save"} /\ (exec'.pc = "save" => exec'.then = "chain")
        /\ exec'.action.id = row.id /\ exec'.leg = 1
    BY <1>2 DEF Begins
  <2>2. 5 * Cardinality(Astray(row.id)) <= Lost /\ Cardinality(Astray(row.id)) \in Nat
    BY <2>1, LiveFacts DEF FewLost, LostByRow
  <2>3. ~Unsaved'
    BY <2>1 DEF Unsaved, CurrentId, NamedBy, Legs
  <2>4. Astray(row.id)' = Astray(row.id) /\ Lost' = Lost
    BY <2>1 DEF Astray, Lost
  <2>5. Astray(exec.action.id)' = Astray(row.id)
    BY <2>1 DEF Astray
  <2>6. LostByCopy'
    BY <2>2, <2>3, <2>4, <2>5 DEF LostByCopy
  <2>7. LiveBounded'
    BY <2>1, LiveBoundedKept DEF FewLost
  <2> QED
    BY <2>1, <2>6, <2>7 DEF FewLost, LostByRow, LostAtEnd, Forgotten
<1>3. CASE BeginsToLeave
  <2>1. /\ UNCHANGED <<orders, row, position, crashes, faults>> /\ exec.pc = "idle" /\ row.status \in Ended
        /\ exec'.pc = "leaveSwapMode"
    BY <1>3 DEF BeginsToLeave
  <2>2. LostByRow'
    BY <2>1 DEF FewLost, LostByRow, Astray, Lost
  <2>3. LiveBounded'
    BY <2>1, LiveBoundedKept DEF FewLost
  <2>4. ~OnLeg'
    BY <2>1 DEF OnLeg, Work, Active, Ended
  <2> QED
    BY <2>1, <2>2, <2>3, <2>4 DEF FewLost, LostByCopy, LostAtEnd, Forgotten
<1>4. CASE Proceeds
  <2>1. /\ Fewer(orders, orders') /\ UNCHANGED <<row, position, crashes>> /\ exec.pc \in Work
        /\ exec'.pc \in Work \cup {"save"} /\ (exec'.pc = "save" => exec'.then # "idle")
        /\ exec'.action.id = exec.action.id /\ exec'.leg = exec.leg
    BY <1>4 DEF Proceeds
  <2>2. Live(orders') \subseteq Live(orders) /\ OnLeg
    BY <2>1, LiveFewer DEF OnLeg
  <2>3. LiveBounded'
    BY <2>2, LiveBoundedKept DEF FewLost
  <2>4. Unsaved' => Unsaved /\ Missed' <= Missed
    <3> SUFFICES ASSUME Unsaved' PROVE Unsaved /\ Missed' <= Missed
      OBVIOUS
    <3>1. CurrentId' = CurrentId /\ CurrentId \in Live(orders') /\ CurrentId \notin NamedBy(row.id)
      BY <2>1 DEF Unsaved, CurrentId
    <3>2. IsOpen(orders', CurrentId) /\ ~IsFilled(orders'[CurrentId])
      BY <3>1 DEF Live, IsOpen, IsLive, IsDead, IsFilled, IsCanceled, IsExpired
    <3>3. ~Starting
      BY <2>2, <3>1, LegTypes DEF Chain, Ahead, NamedBy
    <3> QED
      BY <1>4, <2>2, <3>1, <3>2, <3>3 DEF Proceeds, Unsaved
  <2>5. LostByCopy'
    <3>1. Missed \in {0, 1, 2, 3, 4} /\ Missed' \in {0, 1, 2, 3, 4}
      BY MissedIsCount DEF Missed
    <3>2. Missed' <= Missed => Missed' + Lost <= Missed + Lost'
      BY <3>1, LiveFacts, LostMore
    <3>3. Live(orders') \cap NamedBy(exec.action.id) \subseteq NamedBy(exec'.action.id)
      BY <2>1
    <3> QED
      BY <2>2, <2>4, <3>2, <3>3, LostByCopyKept
  <2> QED
    BY <2>1, <2>3, <2>5 DEF FewLost, LostByRow, LostAtEnd, Forgotten, Work
<1>5. CASE Forgets
  <2>1. /\ UNCHANGED <<orders, row, position, crashes, faults>> /\ exec.pc \in Work
        /\ exec'.pc = "save" /\ exec'.leg = exec.leg /\ IsDeadId(orders, CurrentId)
        /\ exec'.action.id = [exec.action.id EXCEPT ![exec.leg] = None]
    BY <1>5 DEF Forgets
  <2>2. CurrentId' = None /\ OnLeg
    BY <2>1, LegTypes DEF CurrentId, OnLeg
  <2>3. LiveBounded'
    BY <2>1, LiveBoundedKept DEF FewLost
  <2>4. Live(orders') \cap NamedBy(exec.action.id) \subseteq NamedBy(exec'.action.id)
    BY <2>1, <2>2, NamedAndLive
  <2>5. ~Unsaved'
    BY <2>2, LegTypes DEF Unsaved, Live, None
  <2>6. LostByCopy'
    BY <2>1, <2>2, <2>4, <2>5, LostByCopyKept
  <2> QED
    BY <2>1, <2>2, <2>3, <2>6 DEF FewLost, LostByRow, LostAtEnd, Forgotten
<1>6. ASSUME NEW p \in LegOrders, OrdersLeg(p)
      PROVE  FewLost'
  <2>1. /\ Adds(orders, orders', p) /\ UNCHANGED <<row, position, crashes>> /\ exec.pc = "leg"
        /\ exec'.pc = "save" /\ exec'.then \in {"watch", "legDone"} /\ exec'.leg = exec.leg
        /\ exec'.then = "legDone" => IsFilled(p)
        /\ exec'.action.id = [exec.action.id EXCEPT ![exec.leg] = Len(orders) + 1]
        /\ CurrentId = None
    BY <1>6 DEF OrdersLeg
  <2>2. OnLeg /\ 5 * Cardinality(Live(orders)) <= Lost
    <3>1. OnLeg
      BY <2>1 DEF OnLeg, Work
    <3> QED
      BY <2>1, <3>1, AllAstray
  <2>3. Live(orders') \subseteq Live(orders) \cup {Len(orders) + 1}
        /\ (IsFilled(p) => Live(orders') \subseteq Live(orders))
    BY <2>1, LiveFacts, LiveAdds
  <2>4. LiveBounded'
    <3>1. Cardinality(Live(orders')) <= Cardinality(Live(orders)) + 1 /\ Cardinality(Live(orders')) \in Nat
      BY <2>3, LiveFacts, OneMoreThan
    <3>2. 5 * Cardinality(Live(orders')) <= 5 + Lost'
      <4>1. \A s, t, a, b \in Nat : t <= s + 1 /\ 5 * s <= a /\ a <= b => 5 * t <= 5 + b
        OBVIOUS
      <4> QED
        BY <2>2, <3>1, <4>1, LiveFacts, LostMore
    <3> QED
      BY <3>2 DEF LiveBounded
  <2>5. LostByCopy'
    <3>1. CurrentId' = Len(orders) + 1
      BY <2>1, LegTypes DEF CurrentId
    <3>2. Len(orders) + 1 \notin Live(orders)
      BY LegTypes DEF Live
    <3>3. Unsaved' => Missed' = 0
      <4>1. exec'.then = "legDone" => ~Unsaved'
        BY <2>1, <2>3, <3>1, <3>2 DEF Unsaved
      <4>2. exec'.then = "watch" => Missed' = 0
        BY <2>1 DEF Missed
      <4> QED
        BY <2>1, <4>1, <4>2
    <3>4. Len(orders) + 1 \in NamedBy(exec'.action.id)
      BY <2>1, LegTypes DEF NamedBy
    <3> DEFINE T == Live(orders') \ NamedBy(exec'.action.id)
    <3>5. T \subseteq Live(orders)
      BY <2>3, <3>4
    <3> HIDE DEF T
    <3>6. Cardinality(T) <= Cardinality(Live(orders)) /\ Cardinality(T) \in Nat
      BY <3>5, LiveFacts, FewerThan
    <3>7. 5 * Cardinality(T) <= Lost'
      <4>1. \A s, t, a, b \in Nat : t <= s /\ 5 * s <= a /\ a <= b => 5 * t <= b
        OBVIOUS
      <4> QED
        BY <2>2, <3>6, <4>1, LiveFacts, LostMore
    <3>8. 5 * Cardinality(T) + (IF Unsaved' THEN Missed' ELSE 0) <= Lost'
      BY <3>3, <3>6, <3>7
    <3> QED
      BY <3>8 DEF T, LostByCopy, Astray
  <2> QED
    BY <2>1, <2>4, <2>5 DEF FewLost, LostByRow, LostAtEnd, Forgotten
<1>7. CASE TakesNext
  <2>1. /\ UNCHANGED <<orders, row, position, crashes, faults>> /\ exec.pc = "legDone"
        /\ exec'.pc = "leg" /\ exec'.leg = exec.leg + 1 /\ exec.leg < 3
        /\ exec'.action.id = exec.action.id
    BY <1>7 DEF TakesNext
  <2>2. OnLeg
    BY <2>1 DEF OnLeg, Work
  <2>3. LiveBounded'
    BY <2>1, LiveBoundedKept DEF FewLost
  <2>4. ~Unsaved'
    <3>1. exec.leg + 1 \in Legs /\ exec.leg + 1 > exec.leg
      BY <2>1, LegTypes DEF Legs
    <3>2. CurrentId' = row.id[exec.leg + 1]
      BY <2>1, <2>2, <3>1 DEF Chain, Ahead, CurrentId
    <3> QED
      BY <2>1, <3>1, <3>2 DEF Unsaved, NamedBy
  <2>5. Live(orders') \cap NamedBy(exec.action.id) \subseteq NamedBy(exec'.action.id)
    BY <2>1
  <2>6. LostByCopy'
    BY <2>1, <2>2, <2>4, <2>5, LostByCopyKept
  <2> QED
    BY <2>1, <2>3, <2>6 DEF FewLost, LostByRow, LostAtEnd, Forgotten
<1>8. CASE Saves
  <2>1. UNCHANGED <<orders, position, crashes>> /\ exec.pc = "save"
    BY <1>8 DEF Saves
  <2>2. exec'.pc \notin {"save", "saveOrPanic"}
    BY <1>8, IdleIs, LegTypes DEF Saves, IInv, Control, LegOfPlace, Resumed, AtCopy, Execs
  <2>3. LiveBounded'
    BY <2>1, LiveBoundedKept DEF FewLost
  <2> QED
    BY <1>8, <2>2, <2>3, SavesKeepsFewLost DEF FewLost, LostAtEnd, Forgotten
<1>9. ASSUME NEW p \in LegOrders, Replaces(p)
      PROVE  FewLost'
  <2>1. /\ Adds(orders, orders', p) /\ IsFilled(p) /\ exec.pc \in {"tryRollback", "tryForce"}
        /\ exec'.pc = "saveOrPanic"
    BY <1>9 DEF Replaces
  <2>2. Live(orders') \subseteq Live(orders)
    BY <2>1, LiveFacts, LiveAdds
  <2>3. LiveBounded'
    BY <2>2, LiveBoundedKept DEF FewLost
  <2>4. OnLeg /\ IsDeadId(orders, CurrentId)
    BY <2>1 DEF OnLeg, Work, DeadIsDead, DeadIsHeld, AtDead
  <2>5. 5 * Cardinality(Live(orders')) <= Lost'
    <3>1. 5 * Cardinality(Live(orders)) <= Lost
      BY <2>4, AllAstray
    <3>2. Cardinality(Live(orders')) <= Cardinality(Live(orders)) /\ Cardinality(Live(orders')) \in Nat
      BY <2>2, LiveFacts, FewerThan
    <3>3. \A s, t, a, b \in Nat : t <= s /\ 5 * s <= a /\ a <= b => 5 * t <= b
      OBVIOUS
    <3> QED
      BY <3>1, <3>2, <3>3, LiveFacts, LostMore
  <2>6. ~OnLeg'
    BY <2>1 DEF OnLeg, Work
  <2> QED
    BY <2>1, <2>3, <2>5, <2>6 DEF FewLost, LostByCopy, LostByRow, LostAtEnd, Forgotten
<1>10. CASE Returns
  <2>1. orders' = orders /\ exec'.pc = "idle"
    BY <1>10, IdleIs DEF Returns
  <2>2. LiveBounded'
    BY <2>1, LiveBoundedKept DEF FewLost
  <2>3. LostByRow'
    BY <1>10, ReturnsKeepsFewLost
  <2> QED
    BY <2>1, <2>2, <2>3 DEF FewLost, LostByCopy, LostAtEnd, Forgotten, OnLeg, Work
<1>11. CASE SavesTheEnd
  <2>1. orders' = orders /\ exec'.pc = "idle" /\ exec.pc = "saveOrPanic"
    BY <1>11, IdleIs DEF SavesTheEnd
  <2>2. LiveBounded'
    BY <2>1, LiveBoundedKept DEF FewLost
  <2>3. LostByRow'
    <3>1. 5 * Cardinality(Live(orders)) <= Lost /\ IsFiniteSet(Live(orders))
      BY <2>1, LiveFacts DEF FewLost, LostAtEnd
    <3> QED
      BY <2>1, <3>1, LostByRowKept
  <2> QED
    BY <2>1, <2>2, <2>3 DEF FewLost, LostByCopy, LostAtEnd, Forgotten, OnLeg, Work
<1> QED
  BY <1>1, <1>2, <1>3, <1>4, <1>5, <1>6, <1>7, <1>8, <1>9, <1>10, <1>11 DEF LegStep

-----------------------------------------------------------------------------
\* The inductive invariant of the bounds
LegInv == IInv /\ DeadIsDead /\ Chain /\ TradedOnce /\ FewLost

LEMMA InitLegInv == Init => LegInv
<1> SUFFICES ASSUME Init PROVE LegInv
  OBVIOUS
<1>1. IInv
  BY InitInv
<1>2. /\ orders = << >> /\ Len(orders) = 0 /\ exec = Idle /\ row = NewAction
      /\ faults = 0 /\ crashes = 0 /\ exec.pc = "idle"
  BY IdleIs DEF Init
<1>3. DeadIsDead
  BY <1>2 DEF DeadIsDead, CopyIsDead, DeadIsHeld, Heading, AtDead
<1>4. Chain
  BY <1>2 DEF Chain, Prefixes, Behind, Ahead, OnLeg, Work, Prefix, NewAction
<1>5. TradedOnce
  <2>1. \A l : Open(orders, l) = {} /\ Unknown(l, row.id) = {}
    BY <1>2 DEF Open, Unknown
  <2>2. Cardinality({}) = 0
    BY FS_EmptySet
  <2>3. OpenInCopy
    BY <1>2 DEF OpenInCopy, Work
  <2>4. ASSUME NEW l \in Legs
        PROVE  Cardinality(Unknown(l, row.id)) <= crashes + faults
               /\ Cardinality(Open(orders, l)) <= 1 + crashes + faults
    <3>1. Cardinality(Unknown(l, row.id)) = 0 /\ Cardinality(Open(orders, l)) = 0
      BY <2>1, <2>2, Zenon
    <3> QED
      BY <1>2, <3>1
  <2>5. OpenOnce
    BY <2>4 DEF OpenOnce
  <2> QED
    BY <2>3, <2>4, <2>5 DEF TradedOnce, OpenInRow
<1>6. FewLost
  <2>1. Live(orders) = {} /\ \A id : Astray(id) = {}
    BY <1>2 DEF Live, Astray
  <2>2. Cardinality({}) = 0 /\ Lost = 0
    BY <1>2, FS_EmptySet DEF Lost
  <2>3. Cardinality(Live(orders)) = 0 /\ Cardinality(Astray(row.id)) = 0
    BY <2>1, <2>2, Zenon
  <2>4. LostByRow /\ LiveBounded
    BY <2>2, <2>3 DEF LostByRow, LiveBounded
  <2>5. LostByCopy /\ LostAtEnd /\ Forgotten
    BY <1>2 DEF LostByCopy, LostAtEnd, Forgotten, OnLeg, Work
  <2> QED
    BY <2>4, <2>5 DEF FewLost
<1> QED
  BY <1>1, <1>3, <1>4, <1>5, <1>6 DEF LegInv

LEMMA StepLegInv == LegInv /\ [Next]_vars => LegInv'
<1> SUFFICES ASSUME LegInv, [Next]_vars PROVE LegInv'
  OBVIOUS
<1>1. IInv /\ IInv' /\ LegStep
  BY StepInv, EveryLegStep DEF LegInv
<1> QED
  BY <1>1, DeadKept, ChainKept, TradedOnceKept, FewLostKept DEF LegInv

\* A leg is ordered again only when its order died; each crash and each failing save may
\* bring one more filled order, and no more (swap_executor.go 100-158, 224-262, 323-331,
\* 418-495).
THEOREM LegTradedOnceCorrect == Spec => []LegTradedOnce
<1>1. LegInv => LegTradedOnce
  <2> SUFFICES ASSUME LegInv, NEW l \in Legs
               PROVE  Cardinality({ n \in Those(IsFilled) : orders[n].leg = l /\ ~orders[n].back })
                        <= 1 + crashes + faults
    BY DEF LegTradedOnce
  <2> DEFINE F == { n \in Those(IsFilled) : orders[n].leg = l /\ ~orders[n].back }
  <2>1. IInv /\ Cardinality(Open(orders, l)) <= 1 + crashes + faults
    BY DEF LegInv, TradedOnce, OpenOnce
  <2>2. orders \in Seq(LegOrders) /\ Len(orders) \in Nat /\ crashes \in Nat /\ faults \in Nat
    BY <2>1, LegTypes
  <2>3. DOMAIN orders = 1..Len(orders)
    BY <2>2
  <2>4. F \subseteq Open(orders, l)
    BY <2>3, FilledIsNotDead DEF Those, Open
  <2> HIDE DEF F
  <2>5. Cardinality(F) <= Cardinality(Open(orders, l)) /\ Cardinality(F) \in Nat
        /\ Cardinality(Open(orders, l)) \in Nat
    BY <2>2, <2>4, OpenIsFinite, FewerThan
  <2>6. Cardinality(F) <= 1 + crashes + faults
    BY <2>1, <2>2, <2>5
  <2> QED
    BY <2>6 DEF F
<1> QED
  BY InitLegInv, StepLegInv, <1>1, PTL DEF Spec

\* At most one order of the swap is live, and one more for every crash and for every five
\* failing requests: the order of a leg is in the row before the next one is placed
\* (swap_executor.go 107-142, 310-345, 458-493).
THEOREM OneLiveOrderCorrect == Spec => []OneLiveOrder
<1>1. LegInv => OneLiveOrder
  <2> SUFFICES ASSUME LegInv PROVE OneLiveOrder
    OBVIOUS
  <2>1. /\ 5 * Cardinality(Live(orders)) <= 5 + (5 * crashes + faults)
        /\ orders \in Seq(LegOrders) /\ Len(orders) \in Nat /\ crashes \in Nat /\ faults \in Nat
    BY LegTypes DEF LegInv, FewLost, LiveBounded, Lost
  <2>2. Cardinality(Live(orders)) \in Nat
    BY <2>1, LiveIsFinite, FS_CardinalityType
  <2>3. Those(IsLive) = Live(orders)
    BY <2>1 DEF Those, Live
  <2>4. \A s, c, f \in Nat : 5 * s <= 5 + (5 * c + f) => s <= 1 + c + f \div 5
    OBVIOUS
  <2> QED
    BY <2>1, <2>2, <2>3, <2>4 DEF OneLiveOrder
<1> QED
  BY InitLegInv, StepLegInv, <1>1, PTL DEF Spec

-----------------------------------------------------------------------------
(***************************************************************************)
(* The account balances.  When nothing fails, the process does not crash   *)
(* and no order dies partly executed, the orders that are not dead are     *)
(* those of the action, one for each leg at most, each of the whole        *)
(* quantity; and the free balances follow from them.                       *)
(***************************************************************************)
Stands(os, id, l) == id[l] # None /\ ~IsDead(os[id[l]])

\* An order moves assets one of four ways: forth as one of the legs, or back.
Ways == 1..4
Way(o) == IF o.back THEN 4 ELSE o.leg
LegOf(y) == IF y = 4 THEN 2 ELSE y
SourceOf(y) == IF y = 4 THEN 1 ELSE y - 1
TargetOf(y) == IF y = 4 THEN 0 ELSE y % 3

\* What the order of leg l has taken from its source, and what it has brought its way
Lent(os, id, l) == IF Stands(os, id, l) THEN Qty ELSE 0
Into(os, id, y) ==
    IF Stands(os, id, LegOf(y)) /\ Way(os[id[LegOf(y)]]) = y
    THEN os[id[LegOf(y)]].executed ELSE 0

Balanced(os, id, w) ==
    /\ w[0] = Qty - Lent(os, id, 1) + Into(os, id, 3) + Into(os, id, 4)
    /\ w[1] = Spare - Lent(os, id, 2) + Into(os, id, 1)
    /\ w[2] = Spare - Lent(os, id, 3) + Into(os, id, 2)

\* Every order that stands is named by `id`, for its leg and the whole quantity.
AllNamed(os, id) ==
    /\ \A n \in 1..Len(os) : ~IsDead(os[n]) => n = id[os[n].leg] /\ os[n].qty = Qty
    /\ \A l \in Legs : id[l] # None => os[id[l]].leg = l /\ (os[id[l]].back => l = 2)

Accounted(os, id, w) == AllNamed(os, id) /\ Balanced(os, id, w)

LEMMA WaysAre ==
    /\ \A l \in Legs : l \in {1, 2, 3}
    /\ \A y \in Ways : y \in {1, 2, 3, 4} /\ LegOf(y) \in Legs
    /\ 1 \in Legs /\ 2 \in Legs /\ 3 \in Legs
    /\ 1 \in Ways /\ 2 \in Ways /\ 3 \in Ways /\ 4 \in Ways
    /\ 0 \in Assets /\ 1 \in Assets /\ 2 \in Assets
BY DEF Legs, Ways, Assets, LegOf

LEMMA QuantitiesAre ==
    ASSUME NEW os \in Seq(LegOrders), NEW id \in [Legs -> 0..Len(os)]
    PROVE  /\ \A l \in Legs : Lent(os, id, l) \in Nat
           /\ \A y \in Ways : Into(os, id, y) \in Nat
           /\ \A l \in Legs : id[l] # None => id[l] \in 1..Len(os) /\ os[id[l]] \in LegOrders
<1>1. ASSUME NEW l \in Legs, id[l] # None PROVE id[l] \in 1..Len(os) /\ os[id[l]] \in LegOrders
  BY <1>1, ElementOfSeq DEF None
<1>2. \A o \in LegOrders : o.executed \in Nat
  BY DEF LegOrders
<1> QED
  BY <1>1, <1>2, WaysAre DEF Lent, Into, Stands

\* One order takes r less from its source, and brings g more.
LentShifts(os, id, ps, jd, l, r) ==
    \A k \in Legs : Lent(ps, jd, k) = IF k = l THEN Lent(os, id, k) - r ELSE Lent(os, id, k)
IntoShifts(os, id, ps, jd, y, g) ==
    \A k \in Ways : Into(ps, jd, k) = IF k = y THEN Into(os, id, k) + g ELSE Into(os, id, k)
WalletShifts(w, v, s, t, g, r) ==
    \A a \in Assets :
        v[a] = IF a = t THEN w[a] + g ELSE IF a = s THEN w[a] + r ELSE w[a]

\* The account follows.
LEMMA Shifted ==
    ASSUME NEW os, NEW id, NEW ps, NEW jd, NEW w \in [Assets -> Nat], NEW v,
           \A l \in Legs : Lent(os, id, l) \in Nat, \A y \in Ways : Into(os, id, y) \in Nat,
           Balanced(os, id, w),
           NEW y \in Ways, NEW g \in Int, NEW r \in Int,
           LentShifts(os, id, ps, jd, LegOf(y), r), IntoShifts(os, id, ps, jd, y, g),
           WalletShifts(w, v, SourceOf(y), TargetOf(y), g, r)
    PROVE  Balanced(ps, jd, v)
<1>1. /\ Lent(os, id, 1) \in Nat /\ Lent(os, id, 2) \in Nat /\ Lent(os, id, 3) \in Nat
      /\ Into(os, id, 1) \in Nat /\ Into(os, id, 2) \in Nat /\ Into(os, id, 3) \in Nat
      /\ Into(os, id, 4) \in Nat
  BY WaysAre
<1>2. w[0] \in Nat /\ w[1] \in Nat /\ w[2] \in Nat
  BY WaysAre
<1>3. CASE y = 1
  <2>1. LegOf(y) = 1 /\ TargetOf(y) = 1 /\ SourceOf(y) = 0
    BY <1>3 DEF LegOf, TargetOf, SourceOf
  <2>2. /\ Lent(ps, jd, 1) = Lent(os, id, 1) - r
        /\ Lent(ps, jd, 2) = Lent(os, id, 2)
        /\ Lent(ps, jd, 3) = Lent(os, id, 3)
    BY <2>1, WaysAre DEF LentShifts
  <2>3. /\ Into(ps, jd, 1) = Into(os, id, 1) + g
        /\ Into(ps, jd, 2) = Into(os, id, 2)
        /\ Into(ps, jd, 3) = Into(os, id, 3)
        /\ Into(ps, jd, 4) = Into(os, id, 4)
    BY <1>3, WaysAre DEF IntoShifts
  <2>4. /\ v[0] = w[0] + r
        /\ v[1] = w[1] + g
        /\ v[2] = w[2]
    BY <2>1, WaysAre DEF WalletShifts
  <2> QED
    BY <1>1, <1>2, <2>2, <2>3, <2>4 DEF Balanced
<1>4. CASE y = 2
  <2>1. LegOf(y) = 2 /\ TargetOf(y) = 2 /\ SourceOf(y) = 1
    BY <1>4 DEF LegOf, TargetOf, SourceOf
  <2>2. /\ Lent(ps, jd, 1) = Lent(os, id, 1)
        /\ Lent(ps, jd, 2) = Lent(os, id, 2) - r
        /\ Lent(ps, jd, 3) = Lent(os, id, 3)
    BY <2>1, WaysAre DEF LentShifts
  <2>3. /\ Into(ps, jd, 1) = Into(os, id, 1)
        /\ Into(ps, jd, 2) = Into(os, id, 2) + g
        /\ Into(ps, jd, 3) = Into(os, id, 3)
        /\ Into(ps, jd, 4) = Into(os, id, 4)
    BY <1>4, WaysAre DEF IntoShifts
  <2>4. /\ v[0] = w[0]
        /\ v[1] = w[1] + r
        /\ v[2] = w[2] + g
    BY <2>1, WaysAre DEF WalletShifts
  <2> QED
    BY <1>1, <1>2, <2>2, <2>3, <2>4 DEF Balanced
<1>5. CASE y = 3
  <2>1. LegOf(y) = 3 /\ TargetOf(y) = 0 /\ SourceOf(y) = 2
    BY <1>5 DEF LegOf, TargetOf, SourceOf
  <2>2. /\ Lent(ps, jd, 1) = Lent(os, id, 1)
        /\ Lent(ps, jd, 2) = Lent(os, id, 2)
        /\ Lent(ps, jd, 3) = Lent(os, id, 3) - r
    BY <2>1, WaysAre DEF LentShifts
  <2>3. /\ Into(ps, jd, 1) = Into(os, id, 1)
        /\ Into(ps, jd, 2) = Into(os, id, 2)
        /\ Into(ps, jd, 3) = Into(os, id, 3) + g
        /\ Into(ps, jd, 4) = Into(os, id, 4)
    BY <1>5, WaysAre DEF IntoShifts
  <2>4. /\ v[0] = w[0] + g
        /\ v[1] = w[1]
        /\ v[2] = w[2] + r
    BY <2>1, WaysAre DEF WalletShifts
  <2> QED
    BY <1>1, <1>2, <2>2, <2>3, <2>4 DEF Balanced
<1>6. CASE y = 4
  <2>1. LegOf(y) = 2 /\ TargetOf(y) = 0 /\ SourceOf(y) = 1
    BY <1>6 DEF LegOf, TargetOf, SourceOf
  <2>2. /\ Lent(ps, jd, 1) = Lent(os, id, 1)
        /\ Lent(ps, jd, 2) = Lent(os, id, 2) - r
        /\ Lent(ps, jd, 3) = Lent(os, id, 3)
    BY <2>1, WaysAre DEF LentShifts
  <2>3. /\ Into(ps, jd, 1) = Into(os, id, 1)
        /\ Into(ps, jd, 2) = Into(os, id, 2)
        /\ Into(ps, jd, 3) = Into(os, id, 3)
        /\ Into(ps, jd, 4) = Into(os, id, 4) + g
    BY <1>6, WaysAre DEF IntoShifts
  <2>4. /\ v[0] = w[0] + g
        /\ v[1] = w[1] + r
        /\ v[2] = w[2]
    BY <2>1, WaysAre DEF WalletShifts
  <2> QED
    BY <1>1, <1>2, <2>2, <2>3, <2>4 DEF Balanced
<1> QED
  BY <1>3, <1>4, <1>5, <1>6, WaysAre

\* A dead order may be forgotten.
LEMMA ForgottenAccount ==
    ASSUME NEW os \in Seq(LegOrders), NEW id \in [Legs -> 0..Len(os)],
           NEW jd \in [Legs -> 0..Len(os)], NEW w, Accounted(os, id, w),
           \A l \in Legs : jd[l] = id[l] \/ (jd[l] = None /\ ~Stands(os, id, l))
    PROVE  /\ Accounted(os, jd, w)
           /\ \A y \in Ways : Into(os, jd, y) = Into(os, id, y)
           /\ \A l \in Legs : Stands(os, jd, l) <=> Stands(os, id, l)
<1>1. \A l \in Legs : Stands(os, jd, l) <=> Stands(os, id, l)
  BY DEF Stands
<1>2. \A l \in Legs : Stands(os, id, l) => jd[l] = id[l]
  BY DEF Stands
<1>3. \A l \in Legs : Lent(os, jd, l) = Lent(os, id, l)
  BY <1>1 DEF Lent
<1>4. \A y \in Ways : Into(os, jd, y) = Into(os, id, y)
  BY <1>1, <1>2, WaysAre DEF Into
<1>5. Balanced(os, jd, w)
  BY <1>3, <1>4, WaysAre DEF Accounted, Balanced
<1>6. AllNamed(os, jd)
  <2>1. ASSUME NEW n \in 1..Len(os), ~IsDead(os[n])
        PROVE  n = jd[os[n].leg] /\ os[n].qty = Qty
    <3>1. n = id[os[n].leg] /\ os[n].qty = Qty /\ os[n] \in LegOrders /\ n # None
      BY <2>1, ElementOfSeq DEF Accounted, AllNamed, None
    <3>2. os[n].leg \in Legs
      BY <3>1 DEF LegOrders
    <3> QED
      BY <2>1, <1>2, <3>1, <3>2 DEF Stands
  <2>2. ASSUME NEW l \in Legs, jd[l] # None
        PROVE  os[jd[l]].leg = l /\ (os[jd[l]].back => l = 2)
    BY <2>2 DEF Accounted, AllNamed
  <2> QED
    BY <2>1, <2>2 DEF AllNamed
<1> QED
  BY <1>1, <1>4, <1>5, <1>6 DEF Accounted

LEMMA WayOf ==
    ASSUME NEW o \in LegOrders, o.back => o.leg = 2
    PROVE  /\ Way(o) \in Ways /\ LegOf(Way(o)) = o.leg /\ o.leg \in Legs
           /\ Source(o) = SourceOf(Way(o)) /\ Target(o) = TargetOf(Way(o))
           /\ Source(o) # Target(o) /\ Source(o) \in Assets /\ Target(o) \in Assets
           /\ \A y \in Ways : y = Way(o) => LegOf(y) = o.leg
<1>1. o.back \in BOOLEAN /\ o.leg \in {1, 2, 3}
  BY DEF LegOrders, Legs
<1>2. o.back = TRUE \/ o.back = FALSE
  BY <1>1
<1>3. CASE o.back = TRUE
  BY <1>1, <1>3 DEF Way, Ways, LegOf, Legs, Source, SourceOf, Target, TargetOf, Assets
<1>4. CASE o.back = FALSE
  BY <1>1, <1>4 DEF Way, Ways, LegOf, Legs, Source, SourceOf, Target, TargetOf, Assets
<1> QED
  BY <1>2, <1>3, <1>4

LEMMA BookedShifts ==
    ASSUME NEW w \in [Assets -> Int], NEW o \in LegOrders, o.back => o.leg = 2, NEW p \in LegOrders
    PROVE  WalletShifts(w, Booked(w, o, p), SourceOf(Way(o)), TargetOf(Way(o)), p.executed - o.executed,
                        IF IsDead(p) THEN o.qty - p.executed ELSE 0)
<1>1. /\ Source(o) = SourceOf(Way(o)) /\ Target(o) = TargetOf(Way(o))
      /\ Source(o) # Target(o) /\ Source(o) \in Assets /\ Target(o) \in Assets
  BY WayOf
<1>2. \A a \in Assets :
        Booked(w, o, p)[a] = IF a = Target(o) THEN w[a] + (p.executed - o.executed)
                             ELSE IF a = Source(o)
                                  THEN w[a] + (IF IsDead(p) THEN o.qty - p.executed ELSE 0)
                                  ELSE w[a]
  BY <1>1 DEF Booked
<1> QED
  BY <1>1, <1>2 DEF WalletShifts

\* An order that works, or that dies before it has executed anything
LEMMA WorksAccounted ==
    ASSUME NEW os \in Seq(LegOrders), NEW id \in [Legs -> 0..Len(os)], NEW w \in [Assets -> Nat],
           Accounted(os, id, w), NEW n \in 1..Len(os), NEW p \in LegOrders, IsLive(os[n]),
           p.leg = os[n].leg, p.back = os[n].back, p.qty = os[n].qty, p.executed >= os[n].executed,
           IsDead(p) => p.executed = 0
    PROVE  LET ps == [os EXCEPT ![n] = p]
           IN  /\ Accounted(ps, id, Booked(w, os[n], p))
               /\ \A y \in Ways : Into(ps, id, y) >= Into(os, id, y)
               /\ \A l \in Legs : Stands(ps, id, l) => Stands(os, id, l)
<1> DEFINE ps == [os EXCEPT ![n] = p]
           o == os[n]
           y == Way(o)
           g == p.executed - o.executed
           r == IF IsDead(p) THEN o.qty - p.executed ELSE 0
<1>1. /\ ps \in Seq(LegOrders) /\ Len(ps) = Len(os)
      /\ \A i \in 1..Len(os) : ps[i] = IF i = n THEN p ELSE os[i]
  BY ExceptSeq
<1>2. o \in LegOrders /\ ~IsDead(o) /\ o.executed \in Nat /\ p.executed \in Nat /\ o.qty \in Nat
  <2>1. o \in LegOrders
    BY ElementOfSeq
  <2> QED
    BY <2>1 DEF IsLive, IsDead, IsCanceled, IsExpired, LegOrders
<1>3. n = id[o.leg] /\ o.qty = Qty /\ o.leg \in Legs
  BY <1>2 DEF Accounted, AllNamed, LegOrders
<1>4. o.back => o.leg = 2
  BY <1>3 DEF Accounted, AllNamed, None
<1>5. y \in Ways /\ LegOf(y) = o.leg
  BY <1>2, <1>4, WayOf
<1>6. Way(p) = y
  BY DEF Way
<1>7. \A k \in Legs : id[k] # None => id[k] \in 1..Len(os)
  BY QuantitiesAre
<1>8. \A k \in Legs : id[k] = n => k = o.leg
  BY DEF Accounted, AllNamed, None
<1> HIDE DEF ps, o, y
<1>9. ps[n] = p /\ n # None /\ o = os[n]
  BY <1>1 DEF None, o
<1>10. \A k \in Legs : k # o.leg /\ id[k] # None => ps[id[k]] = os[id[k]]
  BY <1>1, <1>7, <1>8
<1>11. /\ \A k \in Legs : k # o.leg => (Stands(ps, id, k) <=> Stands(os, id, k))
       /\ Stands(os, id, o.leg)
       /\ Stands(ps, id, o.leg) <=> ~IsDead(p)
  BY <1>2, <1>3, <1>9, <1>10 DEF Stands
<1>12. LentShifts(os, id, ps, id, LegOf(y), r)
  BY <1>2, <1>3, <1>5, <1>11 DEF LentShifts, Lent
<1>13. IntoShifts(os, id, ps, id, y, g)
  <2> SUFFICES ASSUME NEW k \in Ways
               PROVE  Into(ps, id, k) = IF k = y THEN Into(os, id, k) + g ELSE Into(os, id, k)
    BY DEF IntoShifts
  <2>1. LegOf(k) \in Legs
    BY WaysAre
  <2>2. CASE LegOf(k) # o.leg
    <3>1. k # y
      BY <1>5, <2>2
    <3>2. Stands(os, id, LegOf(k)) => ps[id[LegOf(k)]] = os[id[LegOf(k)]]
      BY <1>10, <2>1, <2>2 DEF Stands
    <3> QED
      BY <1>11, <2>1, <2>2, <3>1, <3>2 DEF Into
  <2>3. CASE LegOf(k) = o.leg
    <3>1. Into(os, id, k) = IF y = k THEN o.executed ELSE 0
      BY <1>3, <1>9, <1>11, <2>3 DEF Into, y
    <3>2. Into(ps, id, k) = IF ~IsDead(p) /\ y = k THEN p.executed ELSE 0
      BY <1>3, <1>6, <1>9, <1>11, <2>3 DEF Into
    <3>3. IsDead(p) => p.executed = 0 /\ o.executed = 0
      BY <1>2, <1>9
    <3> QED
      BY <1>2, <3>1, <3>2, <3>3
  <2> QED
    BY <2>2, <2>3
<1>14. /\ \A l \in Legs : Lent(os, id, l) \in Nat
       /\ \A k \in Ways : Into(os, id, k) \in Nat
  BY QuantitiesAre
<1>15. g \in Int /\ r \in Int /\ g >= 0
  BY <1>2, <1>9
<1>16. WalletShifts(w, Booked(w, o, p), SourceOf(y), TargetOf(y), g, r)
  BY <1>2, <1>4, BookedShifts DEF y
<1> HIDE DEF g, r
<1>17. Balanced(ps, id, Booked(w, o, p))
  BY <1>5, <1>12, <1>13, <1>14, <1>15, <1>16, Shifted DEF Accounted
<1>18. AllNamed(ps, id)
  <2>1. ASSUME NEW i \in 1..Len(ps), ~IsDead(ps[i])
        PROVE  i = id[ps[i].leg] /\ ps[i].qty = Qty
    <3>1. i \in 1..Len(os)
      BY <1>1
    <3>2. CASE i = n
      BY <3>2, <1>3, <1>9
    <3>3. CASE i # n
      <4>1. ps[i] = os[i]
        BY <1>1, <3>1, <3>3
      <4> QED
        BY <2>1, <3>1, <4>1 DEF Accounted, AllNamed
    <3> QED
      BY <3>2, <3>3
  <2>2. ASSUME NEW l \in Legs, id[l] # None
        PROVE  ps[id[l]].leg = l /\ (ps[id[l]].back => l = 2)
    BY <2>2, <1>1, <1>7, <1>9 DEF Accounted, AllNamed
  <2> QED
    BY <2>1, <2>2 DEF AllNamed
<1>19. \A k \in Ways : Into(ps, id, k) >= Into(os, id, k)
  BY <1>13, <1>14, <1>15 DEF IntoShifts
<1>20. \A l \in Legs : Stands(ps, id, l) => Stands(os, id, l)
  BY <1>11
<1> QED
  BY <1>17, <1>18, <1>19, <1>20 DEF Accounted, ps, o

\* An order is placed that stands at once, where none stood.
LEMMA PlacesAccounted ==
    ASSUME NEW os \in Seq(LegOrders), NEW id \in [Legs -> 0..Len(os)], NEW w \in [Assets -> Nat],
           Accounted(os, id, w), NEW p \in LegOrders, p.back => p.leg = 2, p.qty = Qty, ~IsDead(p),
           ~Stands(os, id, p.leg)
    PROVE  LET ps == Append(os, p)
               jd == [id EXCEPT ![p.leg] = Len(os) + 1]
               v == Booked([w EXCEPT ![Source(p)] = @ - p.qty],
                           [p EXCEPT !.status = "NEW", !.executed = 0], p)
           IN  /\ jd \in [Legs -> 0..Len(ps)] /\ Accounted(ps, jd, v)
               /\ Stands(ps, jd, p.leg) /\ Into(ps, jd, Way(p)) = p.executed
               /\ \A k \in Legs : k # p.leg => (Stands(ps, jd, k) <=> Stands(os, id, k))
               /\ \A y \in Ways : LegOf(y) # p.leg => Into(ps, jd, y) = Into(os, id, y)
<1> DEFINE ps == Append(os, p)
           jd == [id EXCEPT ![p.leg] = Len(os) + 1]
           o == [p EXCEPT !.status = "NEW", !.executed = 0]
           u == [w EXCEPT ![Source(p)] = @ - p.qty]
           v == Booked(u, o, p)
           y == Way(p)
           g == p.executed
           r == 0 - Qty
           l == p.leg
<1>1. /\ ps \in Seq(LegOrders) /\ Len(ps) = Len(os) + 1 /\ ps[Len(os) + 1] = p
      /\ \A i \in 1..Len(os) : ps[i] = os[i]
      /\ Len(os) \in Nat
  BY AppendProperties
<1>2. /\ y \in Ways /\ LegOf(y) = l /\ l \in Legs
      /\ Source(p) = SourceOf(y) /\ Target(p) = TargetOf(y)
      /\ Source(p) # Target(p) /\ Source(p) \in Assets /\ Target(p) \in Assets
  BY WayOf
<1>3. g \in Nat /\ p.qty = Qty /\ r \in Int
  BY DEF LegOrders
<1>4. Source(o) = Source(p) /\ Target(o) = Target(p) /\ o.executed = 0
  BY DEF Source, Target, LegOrders
<1>5. WalletShifts(w, v, SourceOf(y), TargetOf(y), g, r)
  <2>1. \A a \in Assets : u[a] = IF a = Source(p) THEN w[a] - Qty ELSE w[a]
    BY <1>2, <1>3
  <2>2. u \in [Assets -> Int]
    BY <1>2, <1>3
  <2> HIDE DEF u, o
  <2>3. \A a \in Assets : v[a] = IF a = Target(p) THEN u[a] + (g - 0)
                                 ELSE IF a = Source(p) THEN u[a] + 0 ELSE u[a]
    BY <1>2, <1>4, <2>2 DEF Booked
  <2> HIDE DEF v, g
  <2>4. \A a \in Assets : v[a] = IF a = Target(p) THEN w[a] + g
                                 ELSE IF a = Source(p) THEN w[a] + r ELSE w[a]
    <3> SUFFICES ASSUME NEW a \in Assets
                 PROVE  v[a] = IF a = Target(p) THEN w[a] + g
                               ELSE IF a = Source(p) THEN w[a] + r ELSE w[a]
      OBVIOUS
    <3>1. w[a] \in Nat /\ u[a] \in Int
      BY <2>2
    <3> QED
      BY <1>2, <1>3, <2>1, <2>3, <3>1
  <2> QED
    BY <1>2, <2>4 DEF WalletShifts
<1>6. jd \in [Legs -> 0..Len(ps)] /\ jd[l] = Len(os) + 1 /\ \A k \in Legs : k # l => jd[k] = id[k]
  BY <1>1, <1>2
<1>7. \A k \in Legs : id[k] # None => id[k] \in 1..Len(os)
  BY QuantitiesAre
<1> HIDE DEF ps, jd, o, u, v, r, y
<1>8. /\ \A k \in Legs : k # l => (Stands(ps, jd, k) <=> Stands(os, id, k))
      /\ Stands(ps, jd, l) /\ ~Stands(os, id, l)
  BY <1>1, <1>2, <1>6, <1>7 DEF Stands, None
<1>9. LentShifts(os, id, ps, jd, LegOf(y), r)
  <2>1. Lent(ps, jd, l) = Lent(os, id, l) - r
    BY <1>2, <1>8 DEF Lent, r
  <2>2. \A k \in Legs : k # l => Lent(ps, jd, k) = Lent(os, id, k)
    BY <1>8 DEF Lent
  <2> QED
    BY <1>2, <2>1, <2>2 DEF LentShifts
<1>10. ASSUME NEW k \in Ways, LegOf(k) # l
       PROVE  Into(ps, jd, k) = Into(os, id, k)
  <2>1. LegOf(k) \in Legs
    BY WaysAre
  <2>2. Stands(os, id, LegOf(k)) => ps[jd[LegOf(k)]] = os[id[LegOf(k)]]
    BY <1>1, <1>6, <1>7, <1>10, <2>1 DEF Stands
  <2> QED
    BY <1>8, <1>10, <2>1, <2>2 DEF Into
<1>11. ASSUME NEW k \in Ways, LegOf(k) = l
       PROVE  Into(os, id, k) = 0 /\ Into(ps, jd, k) = IF y = k THEN g ELSE 0
  BY <1>1, <1>6, <1>8, <1>11 DEF Into, y
<1>12. IntoShifts(os, id, ps, jd, y, g)
  <2> SUFFICES ASSUME NEW k \in Ways
               PROVE  Into(ps, jd, k) = IF k = y THEN Into(os, id, k) + g ELSE Into(os, id, k)
    BY DEF IntoShifts
  <2> HIDE DEF g
  <2>1. CASE LegOf(k) # l
    BY <1>2, <1>10, <2>1
  <2>2. CASE LegOf(k) = l
    BY <1>3, <1>11, <2>2
  <2> QED
    BY <2>1, <2>2
<1>13. /\ \A k \in Legs : Lent(os, id, k) \in Nat
       /\ \A k \in Ways : Into(os, id, k) \in Nat
  BY QuantitiesAre
<1>14. Balanced(ps, jd, v)
  <2>1. g \in Int
    BY <1>3
  <2> HIDE DEF g
  <2> QED
    BY <1>2, <1>3, <1>5, <1>9, <1>12, <1>13, <2>1, Shifted DEF Accounted
<1>15. AllNamed(ps, jd)
  <2>1. ASSUME NEW i \in 1..Len(ps), ~IsDead(ps[i])
        PROVE  i = jd[ps[i].leg] /\ ps[i].qty = Qty
    <3>1. CASE i = Len(os) + 1
      BY <1>1, <1>3, <1>6, <3>1
    <3>2. CASE i # Len(os) + 1
      <4>1. i \in 1..Len(os) /\ ps[i] = os[i]
        BY <1>1, <3>2
      <4>2. i = id[os[i].leg] /\ os[i].qty = Qty
        BY <2>1, <4>1 DEF Accounted, AllNamed
      <4>3. os[i].leg \in Legs
        BY <4>1, ElementOfSeq DEF LegOrders
      <4>4. os[i].leg # l
        BY <1>8, <2>1, <4>1, <4>2 DEF Stands, None
      <4> QED
        BY <1>6, <4>1, <4>2, <4>3, <4>4
    <3> QED
      BY <3>1, <3>2
  <2>2. ASSUME NEW k \in Legs, jd[k] # None
        PROVE  ps[jd[k]].leg = k /\ (ps[jd[k]].back => k = 2)
    <3>1. CASE k = l
      BY <1>1, <1>6, <3>1
    <3>2. CASE k # l
      BY <1>1, <1>6, <1>7, <2>2, <3>2 DEF Accounted, AllNamed
    <3> QED
      BY <3>1, <3>2
  <2> QED
    BY <2>1, <2>2 DEF AllNamed
<1>16. Into(ps, jd, y) = p.executed
  BY <1>2, <1>11
<1> QED
  BY <1>6, <1>8, <1>10, <1>14, <1>15, <1>16 DEF Accounted, ps, jd, v, o, u, y

\* An order that is dead when it is answered leaves the account as it is.
LEMMA TriesAccounted ==
    ASSUME NEW os \in Seq(LegOrders), NEW id \in [Legs -> 0..Len(os)], NEW w \in [Assets -> Nat],
           Accounted(os, id, w), NEW p \in LegOrders, p.back => p.leg = 2, IsDead(p), p.executed = 0
    PROVE  LET ps == Append(os, p)
               v == Booked([w EXCEPT ![Source(p)] = @ - p.qty],
                           [p EXCEPT !.status = "NEW", !.executed = 0], p)
           IN  /\ Accounted(ps, id, v)
               /\ \A k \in Legs : Stands(ps, id, k) <=> Stands(os, id, k)
               /\ \A y \in Ways : Into(ps, id, y) = Into(os, id, y)
<1> DEFINE ps == Append(os, p)
           o == [p EXCEPT !.status = "NEW", !.executed = 0]
           u == [w EXCEPT ![Source(p)] = @ - p.qty]
           v == Booked(u, o, p)
<1>1. /\ ps \in Seq(LegOrders) /\ Len(ps) = Len(os) + 1 /\ ps[Len(os) + 1] = p
      /\ \A i \in 1..Len(os) : ps[i] = os[i]
      /\ Len(os) \in Nat
  BY AppendProperties
<1>2. Source(p) # Target(p) /\ Source(p) \in Assets /\ Target(p) \in Assets
  BY WayOf
<1>3. p.qty \in Nat
  BY DEF LegOrders
<1>4. Source(o) = Source(p) /\ Target(o) = Target(p) /\ o.executed = 0 /\ o.qty = p.qty
  BY DEF Source, Target, LegOrders
<1>5. \A a \in Assets : v[a] = w[a]
  <2>1. \A a \in Assets : u[a] = IF a = Source(p) THEN w[a] - p.qty ELSE w[a]
    BY <1>2, <1>3
  <2>2. u \in [Assets -> Int]
    BY <1>2, <1>3
  <2> HIDE DEF u, o
  <2>3. \A a \in Assets : v[a] = IF a = Target(p) THEN u[a] + (0 - 0)
                                 ELSE IF a = Source(p) THEN u[a] + (p.qty - 0) ELSE u[a]
    BY <1>2, <1>4, <2>2 DEF Booked
  <2> HIDE DEF v
  <2> TAKE a \in Assets
  <2>4. w[a] \in Nat /\ u[a] \in Int
    BY <2>2
  <2> QED
    BY <1>2, <1>3, <2>1, <2>3, <2>4
<1>6. \A k \in Legs : id[k] # None => ps[id[k]] = os[id[k]] /\ id[k] \in 1..Len(os)
  BY <1>1, QuantitiesAre
<1> HIDE DEF ps, o, u, v
<1>7. \A k \in Legs : Stands(ps, id, k) <=> Stands(os, id, k)
  BY <1>6 DEF Stands
<1>8. \A k \in Legs : Lent(ps, id, k) = Lent(os, id, k)
  BY <1>7 DEF Lent
<1>9. \A y \in Ways : Into(ps, id, y) = Into(os, id, y)
  <2> TAKE y \in Ways
  <2>1. LegOf(y) \in Legs
    BY WaysAre
  <2>2. Stands(os, id, LegOf(y)) => ps[id[LegOf(y)]] = os[id[LegOf(y)]]
    BY <1>6, <2>1 DEF Stands
  <2> QED
    BY <1>7, <2>1, <2>2 DEF Into
<1>10. Balanced(ps, id, v)
  BY <1>5, <1>8, <1>9, WaysAre DEF Accounted, Balanced
<1>11. AllNamed(ps, id)
  <2>1. ASSUME NEW i \in 1..Len(ps), ~IsDead(ps[i])
        PROVE  i = id[ps[i].leg] /\ ps[i].qty = Qty
    <3>1. i \in 1..Len(os) /\ ps[i] = os[i]
      BY <1>1, <2>1
    <3> QED
      BY <2>1, <3>1 DEF Accounted, AllNamed
  <2>2. ASSUME NEW k \in Legs, id[k] # None
        PROVE  ps[id[k]].leg = k /\ (ps[id[k]].back => k = 2)
    BY <1>6, <2>2 DEF Accounted, AllNamed
  <2> QED
    BY <2>1, <2>2 DEF AllNamed
<1> QED
  BY <1>7, <1>9, <1>10, <1>11 DEF Accounted, ps, v, u, o

-----------------------------------------------------------------------------
(***************************************************************************)
(* The account while the swap is executed.                                 *)
(***************************************************************************)
\* Nothing failed, no order died partly executed, and none that sells back was cut by the
\* balance.
Clean ==
    \A n \in 1..Len(orders) :
        /\ IsDead(orders[n]) => orders[n].executed = 0
        /\ orders[n].back => orders[n].qty = Qty
Fine == faults = 0 /\ crashes = 0 /\ Clean

\* The action that knows the orders: the copy until it is saved, else the row.
Holder == IF exec.pc \in {"save", "saveOrPanic"} THEN exec.action ELSE row
Synced == exec.pc \in Work => exec.action = row

\* The copy of a leg that is done says that the whole was executed, so that the next leg
\* is of the whole quantity; a leg is done with an order that has executed something.
Earned ==
    /\ Heading \in AtCopy /\ exec.held[exec.leg].status = "FILLED"
         => exec.held[exec.leg].executed = Qty
    /\ Heading \in {"chain", "leg"} /\ exec.leg > 1 => exec.held[exec.leg - 1].executed = Qty
    /\ Heading = "legDone" \/ (Heading = "judge" /\ exec.held[exec.leg].status = "PARTIALLY_FILLED")
         => Into(orders, exec.action.id, exec.leg) > 0

\* Forth on three legs, or forth on the first and back
Complete(os, id) ==
    /\ Into(os, id, 1) > 0
    /\ \/ Into(os, id, 2) > 0 /\ Into(os, id, 3) > 0
       \/ Into(os, id, 4) > 0 /\ ~Stands(os, id, 3)

Books ==
    /\ Synced /\ Earned
    /\ Accounted(orders, Holder.id, free)
    /\ Holder.status = "success" => Complete(orders, Holder.id)

\* What an action does to the orders and to the account
Works(n, p) ==
    /\ IsLive(orders[n]) /\ p.leg = orders[n].leg /\ p.back = orders[n].back
    /\ p.qty = orders[n].qty /\ p.executed >= orders[n].executed
    /\ orders' = [orders EXCEPT ![n] = p] /\ free' = Booked(free, orders[n], p)

LEMMA HolderIs ==
    ASSUME IInv
    PROVE  /\ Holder.id \in [Legs -> 0..Len(orders)]
           /\ orders \in Seq(LegOrders) /\ free \in [Assets -> Nat]
BY TypesAre DEF IInv, Holder, Execs, ActionsOf

LEMMA HolderIsNext ==
    ASSUME IInv'
    PROVE  /\ Holder'.id \in [Legs -> 0..Len(orders')]
           /\ orders' \in Seq(LegOrders) /\ free' \in [Assets -> Nat]
<1>1. /\ row' \in ActionsOf(orders') /\ exec'.action \in ActionsOf(orders')
      /\ orders' \in Seq(LegOrders) /\ free' \in [Assets -> Nat]
  BY DEF IInv, TypeOK, Actions, ActionsOf
<1> QED
  BY <1>1 DEF Holder, ActionsOf

\* Where Execute has the action in hand it is the row.
LEMMA WorkHolder ==
    ASSUME IInv, Books, exec.pc \in Work
    PROVE  Holder = row /\ exec.action = row /\ Holder.status # "success"
<1>1. exec.pc \notin {"idle", "leaveSwapMode", "save", "saveOrPanic"}
  BY DEF Work
<1>2. row.status \in Active
  BY <1>1, Working
<1> QED
  BY <1>1, <1>2 DEF Books, Synced, Holder

\* An order that is filled, or partly filled and not dead, has brought something.
LEMMA Brings ==
    ASSUME NEW os \in Seq(LegOrders), NEW id \in [Legs -> 0..Len(os)], NEW l \in Legs,
           id[l] # None, os[id[l]].leg = l, ~os[id[l]].back,
           IsFilled(os[id[l]]) \/ IsPartiallyFilled(os[id[l]])
    PROVE  Stands(os, id, l) /\ Into(os, id, l) > 0
<1>1. os[id[l]] \in LegOrders
  BY QuantitiesAre
<1>2. os[id[l]].executed > 0 /\ ~IsDead(os[id[l]])
  BY <1>1 DEF LegOrders, WellFormed, IsFilled, IsPartiallyFilled, IsDead, IsCanceled, IsExpired
<1>3. LegOf(l) = l /\ Way(os[id[l]]) = l
  BY WaysAre DEF LegOf, Way
<1> QED
  BY <1>2, <1>3 DEF Stands, Into

\* A filled order that stands is of the whole quantity.
LEMMA BringsAll ==
    ASSUME NEW os \in Seq(LegOrders), NEW id, NEW w, Accounted(os, id, w), NEW n \in 1..Len(os),
           IsFilled(os[n])
    PROVE  os[n].executed = Qty
<1>1. os[n] \in LegOrders
  BY ElementOfSeq
<1>2. os[n].executed = os[n].qty /\ ~IsDead(os[n])
  BY <1>1 DEF LegOrders, WellFormed, IsFilled, IsDead, IsCanceled, IsExpired
<1> QED
  BY <1>2 DEF Accounted, AllNamed

\* The books are kept while the orders rest, if what the holder forgets is dead.
LEMMA BooksKept ==
    ASSUME IInv, IInv', Books, UNCHANGED <<orders, free>>, Synced', Earned',
           \A l \in Legs : \/ Holder'.id[l] = Holder.id[l]
                           \/ Holder'.id[l] = None /\ ~Stands(orders, Holder.id, l),
           Holder'.status = "success" => Holder.status = "success" \/ Complete(orders, Holder.id)
    PROVE  Books'
<1>1. /\ Holder.id \in [Legs -> 0..Len(orders)] /\ orders \in Seq(LegOrders)
      /\ Holder'.id \in [Legs -> 0..Len(orders)]
  BY HolderIs, HolderIsNext
<1>2. /\ Accounted(orders, Holder'.id, free)
      /\ \A y \in Ways : Into(orders, Holder'.id, y) = Into(orders, Holder.id, y)
      /\ \A l \in Legs : Stands(orders, Holder'.id, l) <=> Stands(orders, Holder.id, l)
  BY <1>1, ForgottenAccount DEF Books
<1>3. Complete(orders, Holder.id) => Complete(orders, Holder'.id)
  BY <1>2, WaysAre DEF Complete
<1>4. Holder'.status = "success" => Complete(orders, Holder'.id)
  BY <1>3 DEF Books
<1> QED
  BY <1>2, <1>4 DEF Books

-----------------------------------------------------------------------------
\* The exchange works on an order, or the account cancels it.
LEMMA ExchangeWorks ==
    ASSUME IInv, Exchange
    PROVE  \E n \in 1..Len(orders) : \E p \in LegOrders : Works(n, p)
<1>1. PICK n \in DOMAIN orders : \E p \in Later(orders[n]) :
         /\ IsLive(orders[n]) /\ WellFormed(p, p.qty)
         /\ orders' = [orders EXCEPT ![n] = p] /\ free' = Booked(free, orders[n], p)
  BY DEF Exchange
<1>2. PICK p \in Later(orders[n]) :
         /\ IsLive(orders[n]) /\ WellFormed(p, p.qty)
         /\ orders' = [orders EXCEPT ![n] = p] /\ free' = Booked(free, orders[n], p)
  BY <1>1
<1>3. n \in 1..Len(orders) /\ orders[n] \in LegOrders
  BY <1>1, TypesAre, ElementOfSeq DEF IInv
<1>4. p \in LegOrders /\ p.leg = orders[n].leg /\ p.back = orders[n].back
        /\ p.qty = orders[n].qty /\ p.executed >= orders[n].executed
  BY <1>2, <1>3, LaterIsOrder
<1> QED
  BY <1>2, <1>3, <1>4 DEF Works

LEMMA CancelWorks ==
    ASSUME IInv, exec.pc \in AtOrder, CancelOrdered
    PROVE  \E n \in 1..Len(orders) : \E p \in LegOrders : Works(n, p)
<1> DEFINE n == exec.action.id[exec.leg]
           p == [orders[n] EXCEPT !.status = "CANCELED"]
<1>1. n \in 1..Len(orders) /\ orders \in Seq(LegOrders)
  BY OrderOfLeg, TypesAre DEF IInv, Heading, AtOrder
<1>2. orders[n] \in LegOrders /\ IsLive(orders[n])
  BY <1>1, ElementOfSeq DEF CancelOrdered, Ordered
<1>3. orders[n].executed \in Nat
  BY <1>2 DEF LegOrders
<1>4. p \in LegOrders /\ p.leg = orders[n].leg /\ p.back = orders[n].back /\ p.qty = orders[n].qty
        /\ p.executed = orders[n].executed
  BY <1>2 DEF LegOrders, WellFormed, Statuses, IsLive
<1>5. orders' = [orders EXCEPT ![n] = p] /\ free' = Booked(free, orders[n], p)
  BY DEF CancelOrdered, Ordered
<1> HIDE DEF p, n
<1>6. Works(n, p)
  BY <1>2, <1>3, <1>4, <1>5 DEF Works
<1> QED
  BY <1>1, <1>4, <1>6

\* The orders that were dead are dead, with what they had executed.
LEMMA WorksClean ==
    ASSUME IInv, NEW n \in 1..Len(orders), NEW p \in LegOrders, Works(n, p), Clean'
    PROVE  Clean /\ (IsDead(p) => p.executed = 0)
<1>1. orders \in Seq(LegOrders)
  BY TypesAre DEF IInv
<1>2. /\ Len(orders') = Len(orders)
      /\ \A i \in 1..Len(orders) : orders'[i] = IF i = n THEN p ELSE orders[i]
  BY <1>1, ExceptSeq DEF Works
<1>3. ~IsDead(orders[n]) /\ p.back = orders[n].back /\ p.qty = orders[n].qty
  BY DEF Works, IsLive, IsDead, IsCanceled, IsExpired
<1>4. \A i \in 1..Len(orders) :
         /\ IsDead(orders'[i]) => orders'[i].executed = 0
         /\ orders'[i].back => orders'[i].qty = Qty
  BY <1>2 DEF Clean
<1>5. Clean
  BY <1>2, <1>3, <1>4 DEF Clean
<1> QED
  BY <1>2, <1>4, <1>5

LEMMA TakeClean ==
    ASSUME IInv, NEW p, orders' = Append(orders, p), p \in LegOrders, Clean'
    PROVE  Clean /\ (IsDead(p) => p.executed = 0) /\ (p.back => p.qty = Qty)
<1>1. orders \in Seq(LegOrders) /\ Len(orders) \in Nat
  BY LegTypes
<1>2. /\ Len(orders') = Len(orders) + 1 /\ orders'[Len(orders) + 1] = p
      /\ \A i \in 1..Len(orders) : orders'[i] = orders[i]
  BY <1>1, AppendProperties
<1>3. \A i \in 1..(Len(orders) + 1) :
         /\ IsDead(orders'[i]) => orders'[i].executed = 0
         /\ orders'[i].back => orders'[i].qty = Qty
  BY <1>2 DEF Clean
<1>4. Clean
  BY <1>1, <1>2, <1>3 DEF Clean
<1> QED
  BY <1>1, <1>2, <1>3, <1>4

\* The order of the leg, and those of the rollback and of the forced leg
LEMMA PlaceLegTakes ==
    ASSUME IInv, PlaceLeg
    PROVE  \E p \in LegOrders : orders' = Append(orders, p)
<1>1. exec.leg \in Legs
  BY LegTypes
<1>2. PICK q \in 1..LegQuantity(exec.leg) : \E p \in Accepted(exec.leg, q, FALSE, "GTC") : Take(p)
  BY DEF PlaceLeg
<1>3. PICK p \in Accepted(exec.leg, q, FALSE, "GTC") : Take(p)
  BY <1>2
<1>4. p \in LegOrders
  BY <1>1, <1>2, OrderedInRange, GoesForth
<1> QED
  BY <1>3, <1>4 DEF Take

LEMMA TryRollbackTakes ==
    ASSUME IInv, TryRollback
    PROVE  UNCHANGED orders \/ \E p \in LegOrders : orders' = Append(orders, p)
<1> DEFINE q == Lesser(exec.held[1].executed, exec.balance)
<1>1. CASE UNCHANGED orders
  BY <1>1
<1>2. CASE q > 0 /\ \E p \in Accepted(2, q, TRUE, "IOC") : Take(p)
  <2>1. PICK p \in Accepted(2, q, TRUE, "IOC") : Take(p)
    BY <1>2
  <2>2. q \in 1..Qty
    BY <1>2, CutInRange DEF Legs
  <2> HIDE DEF q
  <2>3. p \in LegOrders
    BY <2>2, SellsBack
  <2> QED
    BY <2>1, <2>3 DEF Take
<1> QED
  BY <1>1, <1>2 DEF TryRollback

LEMMA TryForceTakes ==
    ASSUME IInv, TryForce
    PROVE  UNCHANGED orders \/ \E p \in LegOrders : orders' = Append(orders, p)
<1> DEFINE q == Lesser(exec.held[2].executed, exec.balance)
<1>1. CASE UNCHANGED orders
  BY <1>1
<1>2. CASE q > 0 /\ \E p \in Accepted(3, q, FALSE, "IOC") : Take(p)
  <2>1. PICK p \in Accepted(3, q, FALSE, "IOC") : Take(p)
    BY <1>2
  <2>2. q \in 1..Qty
    BY <1>2, CutInRange DEF Legs
  <2> HIDE DEF q
  <2>3. p \in LegOrders
    BY <2>2, ForcesLeg
  <2> QED
    BY <2>1, <2>3 DEF Take
<1> QED
  BY <1>1, <1>2 DEF TryForce

\* What is fine was fine before.
LEMMA FineBefore ==
    ASSUME IInv, IInv', DeadIsDead, [Next]_vars, Fine'
    PROVE  Fine /\ UNCHANGED <<faults, crashes>>
<1>1. crashes' >= crashes /\ faults' >= faults
  BY EveryLegStep, LostGrows
<1>2. crashes = 0 /\ faults = 0 /\ crashes' = 0 /\ faults' = 0
  BY <1>1, OpenFacts DEF Fine
<1>3. Clean'
  BY DEF Fine
<1>4. ASSUME UNCHANGED orders PROVE Clean
  BY <1>3, <1>4 DEF Clean
<1>5. ASSUME \E n \in 1..Len(orders) : \E p \in LegOrders : Works(n, p) PROVE Clean
  BY <1>3, <1>5, WorksClean
<1>6. ASSUME \E p \in LegOrders : orders' = Append(orders, p) PROVE Clean
  BY <1>3, <1>6, TakeClean
<1>7. Clean
  <2>1. CASE CancelOne
    <3>1. exec.pc \in AtOrder
      BY <2>1 DEF CancelOne, AtOrder
    <3> QED
      BY <1>4, <1>5, <2>1, <3>1, CancelWorks DEF CancelOne, CancelRefused
  <2>2. CASE CancelLeg
    <3>1. exec.pc \in AtOrder
      BY <2>2 DEF CancelLeg, AtOrder
    <3> QED
      BY <1>4, <1>5, <2>2, <3>1, CancelWorks DEF CancelLeg, CancelRefused
  <2>3. CASE Exchange
    BY <1>5, <2>3, ExchangeWorks
  <2>4. CASE PlaceLeg
    BY <1>6, <2>4, PlaceLegTakes
  <2>5. CASE TryRollback
    BY <1>4, <1>6, <2>5, TryRollbackTakes
  <2>6. CASE TryForce
    BY <1>4, <1>6, <2>6, TryForceTakes
  <2>7. CASE \/ Begin \/ GetSwapChainById \/ Save \/ LeaveSwapMode \/ LegRefused \/ ResumeLeg
             \/ Watch \/ Judge \/ LegDone \/ Consider \/ ReadBalance \/ SaveOrPanic \/ Crash
             \/ UNCHANGED vars
    <3>1. UNCHANGED orders
      BY <2>7 DEF Begin, GetSwapChainById, Save, LeaveSwapMode, LegRefused, ResumeLeg, Watch, Judge,
                  LegDone, Consider, ReadBalance, SaveOrPanic, Crash, vars
    <3> QED
      BY <1>4, <3>1
  <2> QED
    BY <2>1, <2>2, <2>3, <2>4, <2>5, <2>6, <2>7 DEF Next, Execute, Terminated
<1> QED
  BY <1>2, <1>7 DEF Fine

-----------------------------------------------------------------------------
\* A step without failures
Accounting == LegInv /\ LegInv' /\ Fine /\ Fine' /\ Books /\ UNCHANGED <<faults, crashes>>

LEMMA NothingFails ==
    ASSUME Accounting
    PROVE  ~Fault /\ IInv /\ IInv' /\ faults = 0 /\ Clean' /\ DeadIsDead /\ Chain /\ Books
<1>1. faults = 0 /\ faults' = 0
  BY DEF Accounting, Fine
<1> QED
  BY <1>1 DEF Accounting, LegInv, Fine, Fault

\* Where Execute has nothing to say of what its leg brought
LEMMA NothingEarned ==
    ASSUME Heading' \notin {"judge", "legDone", "chain", "leg"}
    PROVE  Earned'
BY DEF Earned

\* Execute goes on with the action in hand, or saves another.
LEMMA WorkBooks ==
    ASSUME Accounting, exec.pc \in Work, UNCHANGED <<orders, free, row>>,
           exec'.pc \in Work \cup {"save"}, exec'.pc \in Work => exec'.action = exec.action,
           \A l \in Legs : \/ exec'.action.id[l] = exec.action.id[l]
                           \/ exec'.action.id[l] = None /\ ~Stands(orders, exec.action.id, l),
           exec'.action.status = "success" => Complete(orders, exec.action.id) \/ exec'.pc \in Work,
           Earned'
    PROVE  Books'
<1>1. IInv /\ IInv' /\ Books
  BY NothingFails
<1>2. Holder = row /\ exec.action = row /\ Holder.status # "success"
  BY <1>1, WorkHolder
<1>3. CASE exec'.pc \in Work
  <2>1. Holder' = Holder /\ Synced'
    BY <1>2, <1>3 DEF Holder, Synced, Work
  <2> QED
    BY <1>1, <2>1, BooksKept
<1>4. CASE exec'.pc = "save"
  <2>1. Holder' = exec'.action /\ Synced' /\ exec'.pc \notin Work
    BY <1>4 DEF Holder, Synced, Work
  <2> QED
    BY <1>1, <1>2, <2>1, BooksKept
<1> QED
  BY <1>3, <1>4

\* Execute returns.
LEMMA LeaveBooks ==
    ASSUME Accounting, Leave, UNCHANGED <<orders, free>>, row' = Holder
    PROVE  Books'
<1>1. IInv /\ IInv' /\ Books
  BY NothingFails
<1>2. exec'.pc = "idle"
  BY IdleIs DEF Leave
<1>3. Holder' = Holder /\ Synced' /\ Earned'
  BY <1>2, NothingEarned DEF Holder, Synced, Work
<1> QED
  BY <1>1, <1>3, BooksKept

LEMMA BeginBooks ==
    ASSUME Accounting, Begin
    PROVE  Books'
<1>1. IInv /\ IInv' /\ Books /\ ~Fault
  BY NothingFails
<1>2. exec \in Execs(orders) /\ row \in ActionsOf(orders) /\ exec.pc = "idle"
        /\ UNCHANGED <<orders, free, row>> /\ Holder = row
  BY <1>1, TypesAre DEF IInv, Begin, Holder
<1>3. CASE row.status \notin Active /\ Goto("leaveSwapMode")
  <2>1. exec'.pc = "leaveSwapMode"
    BY <1>2, <1>3 DEF Goto, Execs
  <2>2. Holder' = row /\ Synced' /\ Earned'
    BY <1>2, <2>1, NothingEarned DEF Holder, Synced, Work
  <2> QED
    BY <1>1, <1>2, <2>2, BooksKept
<1>4. CASE row.status \in Active /\ exec' = [Idle EXCEPT !.pc = "save", !.then = "chain",
                                                       !.action = [row EXCEPT !.status = "process"]]
  <2>1. /\ exec'.pc = "save" /\ exec'.then = "chain" /\ exec'.leg = 1
        /\ exec'.action.id = row.id /\ exec'.action.status = "process"
    BY <1>2, <1>4 DEF Idle, ActionsOf
  <2>2. Holder' = exec'.action /\ Synced' /\ Earned'
    BY <2>1 DEF Holder, Synced, Earned, Work
  <2> QED
    BY <1>1, <1>2, <2>1, <2>2, BooksKept
<1>5. CASE row.status \in Active /\ exec' = [Idle EXCEPT !.pc = "chain", !.action = row]
  <2>1. exec'.pc = "chain" /\ exec'.leg = 1 /\ exec'.action = row
    BY <1>5 DEF Idle
  <2>2. Holder' = row /\ Synced' /\ Earned'
    BY <1>2, <2>1 DEF Holder, Synced, Earned
  <2> QED
    BY <1>1, <1>2, <2>2, BooksKept
<1> QED
  BY <1>1, <1>3, <1>4, <1>5 DEF Begin

LEMMA GetChainBooks ==
    ASSUME Accounting, GetSwapChainById
    PROVE  Books'
<1>1. IInv /\ Books /\ ~Fault
  BY NothingFails
<1>2. exec \in Execs(orders) /\ exec.pc = "chain" /\ exec.pc \in Work /\ UNCHANGED <<orders, free, row>>
  BY <1>1, TypesAre DEF IInv, GetSwapChainById, Work
<1>3. exec' = [exec EXCEPT !.pc = "leg"]
  BY <1>1 DEF GetSwapChainById, Goto
<1>4. /\ exec'.pc = "leg" /\ exec'.pc \in Work /\ exec'.leg = exec.leg /\ exec'.held = exec.held
      /\ exec'.action = exec.action
  BY <1>2, <1>3 DEF Execs, Work
<1>5. Earned'
  BY <1>1, <1>2, <1>4 DEF Books, Earned
<1> QED
  BY <1>2, <1>4, <1>5, WorkBooks

LEMMA SaveBooks ==
    ASSUME Accounting, Save
    PROVE  Books'
<1>1. IInv /\ IInv' /\ Books /\ ~Fault
  BY NothingFails
<1>2. /\ exec \in Execs(orders) /\ exec.pc = "save" /\ UNCHANGED <<orders, free>>
      /\ row' = exec.action /\ Holder = exec.action
  BY <1>1, TypesAre DEF IInv, Save, Holder
<1>3. CASE exec.then = "idle"
  BY <1>2, <1>3, LeaveBooks DEF Save
<1>4. CASE exec.then # "idle"
  <2>1. /\ exec'.pc = exec.then /\ exec'.leg = exec.leg /\ exec'.held = exec.held
        /\ exec'.action = exec.action
    BY <1>2, <1>4 DEF Save, Goto, Execs
  <2>2. exec'.pc \in Resumed
    BY <1>1, <1>2, <2>1 DEF IInv, Control, LegOfPlace
  <2>3. exec'.pc \notin {"save", "saveOrPanic"} /\ Heading' = Heading
    BY <1>2, <2>1, <2>2
  <2>4. Holder' = Holder /\ Synced'
    BY <1>2, <2>1, <2>3 DEF Holder, Synced
  <2>5. Earned'
    <3>1. Earned
      BY <1>1 DEF Books
    <3> HIDE DEF Heading
    <3> QED
      BY <1>2, <2>1, <2>3, <3>1 DEF Earned
  <2> QED
    BY <1>1, <1>2, <2>4, <2>5, BooksKept
<1> QED
  BY <1>3, <1>4

LEMMA ReturnBooks ==
    ASSUME Accounting, LeaveSwapMode \/ SaveOrPanic
    PROVE  Books'
<1>1. ~Fault
  BY NothingFails
<1>2. Leave /\ UNCHANGED <<orders, free>> /\ row' = Holder
  BY <1>1 DEF LeaveSwapMode, SaveOrPanic, Holder
<1> QED
  BY <1>2, LeaveBooks

\* The current order of a leg, in what Execute holds
LEMMA OrderedIs ==
    ASSUME Accounting, exec.pc \in Work, exec.action.id[exec.leg] # None
    PROVE  /\ exec \in Execs(orders) /\ exec.leg \in Legs
           /\ orders \in Seq(LegOrders) /\ exec.action.id \in [Legs -> 0..Len(orders)]
           /\ CurrentId \in 1..Len(orders) /\ Ordered = orders[CurrentId]
           /\ Ordered \in LegOrders /\ Ordered.leg = exec.leg /\ ~Ordered.back
           /\ IsFilled(Ordered) => Ordered.executed = Qty
           /\ IsFilled(Ordered) \/ IsPartiallyFilled(Ordered) => Into(orders, exec.action.id, exec.leg) > 0
<1>1. IInv /\ Books
  BY NothingFails
<1>2. /\ exec \in Execs(orders) /\ exec.leg \in Legs /\ orders \in Seq(LegOrders)
      /\ exec.action.id \in [Legs -> 0..Len(orders)]
  BY <1>1, LegTypes
<1>3. CurrentId \in 1..Len(orders) /\ Ordered = orders[CurrentId] /\ CurrentId # None
  BY <1>2 DEF CurrentId, Ordered, None
<1>4. Ordered \in LegOrders
  BY <1>2, <1>3, ElementOfSeq
<1>5. Ordered.leg = exec.leg /\ ~Ordered.back
  <2>1. exec.pc \notin {"idle", "leaveSwapMode", "save", "saveOrPanic"}
    BY DEF Work
  <2>2. Names(orders, exec.action)
    BY <1>1, <2>1, Working
  <2> QED
    BY <1>2, <2>2 DEF Names, Ordered
<1>6. IsFilled(Ordered) => Ordered.executed = Qty
  <2>1. Accounted(orders, exec.action.id, free)
    BY <1>1, WorkHolder DEF Books
  <2> QED
    BY <1>2, <1>3, <2>1, BringsAll
<1>7. IsFilled(Ordered) \/ IsPartiallyFilled(Ordered) => Into(orders, exec.action.id, exec.leg) > 0
  BY <1>2, <1>3, <1>5, Brings DEF CurrentId
<1> QED
  BY <1>2, <1>3, <1>4, <1>5, <1>6, <1>7

LEMMA HoldingIs ==
    ASSUME exec \in Execs(orders), NEW p
    PROVE  /\ Holding(p)[exec.leg].status = p.status /\ Holding(p)[exec.leg].executed = p.executed
           /\ \A l \in Legs : l # exec.leg => Holding(p)[l] = exec.held[l]
BY DEF Execs, Holding

\* The new copy of the leg's order is right.
LEMMA CopyBooks ==
    ASSUME Accounting, exec.pc \in Work, exec.action.id[exec.leg] # None,
           UNCHANGED <<orders, free, row>>,
           exec'.pc = "save", exec'.action = exec.action, exec'.leg = exec.leg,
           exec'.held = Holding(Ordered),
           exec'.then \in {"watch", "judge", "legDone"}, exec'.then = "legDone" => IsFilled(Ordered)
    PROVE  Books'
<1>1. /\ exec \in Execs(orders)
      /\ IsFilled(Ordered) => Ordered.executed = Qty
      /\ IsFilled(Ordered) \/ IsPartiallyFilled(Ordered) => Into(orders, exec.action.id, exec.leg) > 0
  BY OrderedIs
<1>2. /\ exec'.held[exec'.leg].status = Ordered.status
      /\ exec'.held[exec'.leg].executed = Ordered.executed
  BY <1>1, HoldingIs
<1>3. Into(orders', exec'.action.id, exec'.leg) = Into(orders, exec.action.id, exec.leg)
  OBVIOUS
<1>4. Heading' = exec'.then
  OBVIOUS
<1> HIDE DEF Heading
<1>5. Earned'
  BY <1>1, <1>2, <1>3, <1>4 DEF Earned, IsFilled, IsPartiallyFilled
<1>6. exec'.pc \notin Work /\ exec'.action.status # "success"
  <2>1. Holder.status # "success" /\ exec.action = row /\ Holder = row
    BY NothingFails, WorkHolder
  <2> QED
    BY <2>1 DEF Work
<1> QED
  BY <1>5, <1>6, WorkBooks

LEMMA ResumeBooks ==
    ASSUME Accounting, ResumeLeg
    PROVE  Books'
<1>1. /\ exec.pc = "leg" /\ exec.pc \in Work /\ exec.action.id[exec.leg] # None
      /\ UNCHANGED <<orders, free, row>> /\ ~Fault
  BY NothingFails DEF ResumeLeg, Work
<1>2. exec \in Execs(orders) /\ exec.action.id \in [Legs -> 0..Len(orders)] /\ exec.action \in ActionsOf(orders)
  BY <1>1, OrderedIs DEF Execs
<1>3. CASE Gone(Ordered) /\ SaveThen(WithId(None), "idle")
  <2>1. /\ exec'.pc = "save" /\ exec'.then = "idle" /\ exec'.action = WithId(None)
        /\ WithId(None).status = exec.action.status
        /\ \A l \in Legs : WithId(None).id[l] = IF l = exec.leg THEN None ELSE exec.action.id[l]
    BY <1>2, <1>3 DEF SaveThen, Execs, WithId, ActionsOf
  <2>2. ~Stands(orders, exec.action.id, exec.leg)
    BY <1>3, GoneIsDead DEF Stands, Ordered
  <2>3. exec'.action.status # "success" /\ exec'.pc \notin Work /\ Earned'
    BY <1>1, <2>1, NothingEarned, NothingFails, WorkHolder DEF Work
  <2> QED
    BY <1>1, <2>1, <2>2, <2>3, WorkBooks
<1>4. CASE exec' = [exec EXCEPT !.pc = "save", !.then = AfterAnswer(Ordered), !.held = Holding(Ordered)]
  <2>1. /\ exec'.pc = "save" /\ exec'.then = AfterAnswer(Ordered) /\ exec'.held = Holding(Ordered)
        /\ exec'.leg = exec.leg /\ exec'.action = exec.action
    BY <1>2, <1>4 DEF Execs
  <2>2. AfterAnswer(Ordered) \in {"legDone", "watch"} /\ (AfterAnswer(Ordered) = "legDone" => IsFilled(Ordered))
    BY DEF AfterAnswer
  <2> QED
    BY <1>1, <2>1, <2>2, CopyBooks
<1> QED
  BY <1>1, <1>3, <1>4 DEF ResumeLeg

LEMMA WatchBooks ==
    ASSUME Accounting, Watch
    PROVE  Books'
<1>1. exec.pc = "watch" /\ exec.pc \in Work /\ UNCHANGED <<orders, free, row>> /\ ~Fault /\ IInv
  BY NothingFails DEF Watch, Work
<1>2. exec.action.id[exec.leg] # None
  BY <1>1 DEF IInv, Control, HasOrder
<1>3. exec \in Execs(orders)
  BY <1>1, <1>2, OrderedIs
<1>4. exec' = [exec EXCEPT !.pc = "save", !.then = "judge", !.held = Holding(Ordered)]
  BY <1>1 DEF Watch
<1>5. /\ exec'.pc = "save" /\ exec'.then = "judge" /\ exec'.held = Holding(Ordered)
      /\ exec'.leg = exec.leg /\ exec'.action = exec.action
  BY <1>3, <1>4 DEF Execs
<1> QED
  BY <1>1, <1>2, <1>5, CopyBooks

\* Execute goes on to a place where nothing is said of what the leg brought.
LEMMA GotoBooks ==
    ASSUME Accounting, exec.pc \in Work, UNCHANGED <<orders, free, row>>,
           exec'.pc \in Work \ {"chain", "leg", "judge", "legDone"}, exec'.action = exec.action
    PROVE  Books'
<1>1. Heading' \notin {"judge", "legDone", "chain", "leg"} /\ exec'.pc \in Work
  BY DEF Work
<1> QED
  BY <1>1, NothingEarned, WorkBooks

\* The action is canceled as it is.
LEMMA CanceledBooks ==
    ASSUME Accounting, exec.pc \in Work, UNCHANGED <<orders, free, row>>,
           SaveThen(Canceled(exec.action), "leaveSwapMode")
    PROVE  Books'
<1>1. exec \in Execs(orders) /\ exec.action \in ActionsOf(orders)
  BY NothingFails, TypesAre DEF IInv, Execs
<1>2. /\ exec'.pc = "save" /\ exec'.then = "leaveSwapMode"
      /\ exec'.action.id = exec.action.id /\ exec'.action.status = "canceled"
  BY <1>1 DEF SaveThen, Execs, Canceled, ActionsOf
<1>3. Earned' /\ exec'.pc \notin Work
  BY <1>2, NothingEarned DEF Work
<1> QED
  BY <1>2, <1>3, WorkBooks

LEMMA LegRefusedBooks ==
    ASSUME Accounting, LegRefused
    PROVE  Books'
<1>1. exec.pc = "leg" /\ exec.pc \in Work /\ UNCHANGED <<orders, free, row>>
  BY DEF LegRefused, Work
<1>2. CASE SaveThen(Canceled(exec.action), "leaveSwapMode")
  BY <1>1, <1>2, CanceledBooks
<1>3. CASE Leave
  <2>1. row' = Holder
    BY <1>1 DEF Holder
  <2> QED
    BY <1>1, <1>3, <2>1, LeaveBooks
<1> QED
  BY <1>2, <1>3 DEF LegRefused

\* What Execute held of the leg is held, and it goes on or saves the action as it is.
LEMMA JudgedBooks ==
    ASSUME Accounting, exec.pc = "judge", UNCHANGED <<orders, free, row>>,
           exec'.action = exec.action, exec'.leg = exec.leg, exec'.held = exec.held,
           exec'.pc = "legDone" \/ (exec'.pc = "save" /\ exec'.then \in {"watch", "legDone"}),
           Heading' = "legDone" => exec.held[exec.leg].status \in {"FILLED", "PARTIALLY_FILLED"}
    PROVE  Books'
<1>1. IInv /\ Earned /\ exec.pc \in Work
  BY NothingFails DEF Books, Work
<1>2. exec.action.id[exec.leg] # None
  BY <1>1 DEF IInv, Control, HasOrder
<1>3. exec.held[exec.leg].status = "FILLED" =>
        /\ exec.held[exec.leg].executed = Qty /\ Into(orders, exec.action.id, exec.leg) > 0
  <2>1. exec.held[exec.leg].status = "FILLED" => IsFilled(Ordered)
    BY <1>1 DEF IInv, OrderFacts, CopyIsRight, Ordered
  <2>2. IsFilled(Ordered) => Into(orders, exec.action.id, exec.leg) > 0
    BY <1>1, <1>2, OrderedIs
  <2>3. exec.held[exec.leg].status = "FILLED" => exec.held[exec.leg].executed = Qty
    BY <1>1 DEF Earned
  <2> QED
    BY <2>1, <2>2, <2>3
<1>4. exec.held[exec.leg].status = "PARTIALLY_FILLED" => Into(orders, exec.action.id, exec.leg) > 0
  BY <1>1 DEF Earned
<1>5. Into(orders', exec'.action.id, exec'.leg) = Into(orders, exec.action.id, exec.leg)
  OBVIOUS
<1>6. Heading' \in {"watch", "legDone"}
  OBVIOUS
<1> HIDE DEF Heading
<1>7. Earned'
  BY <1>3, <1>4, <1>5, <1>6 DEF Earned
<1>8. exec'.action.status # "success" /\ exec'.pc \in Work \cup {"save"}
  BY <1>1, NothingFails, WorkHolder DEF Work
<1> QED
  BY <1>1, <1>7, <1>8, WorkBooks

LEMMA JudgeBooks ==
    ASSUME Accounting, Judge
    PROVE  Books'
<1> DEFINE o == exec.held[exec.leg]
<1>1. exec.pc = "judge" /\ exec.pc \in Work /\ UNCHANGED <<orders, free, row>> /\ IInv /\ DeadIsDead
  BY NothingFails DEF Judge, Work
<1>2. exec \in Execs(orders) /\ exec.action \in ActionsOf(orders) /\ exec.leg \in Legs
  BY <1>1, TypesAre DEF IInv, Execs
<1>3. CASE IsFilled(o) /\ Goto("legDone")
  <2>1. exec'.pc = "legDone" /\ exec'.action = exec.action /\ exec'.leg = exec.leg /\ exec'.held = exec.held
    BY <1>2, <1>3 DEF Goto, Execs
  <2> QED
    BY <1>1, <1>3, <2>1, JudgedBooks DEF IsFilled
<1>4. CASE SaveThen(Canceled(exec.action), "leaveSwapMode")
  BY <1>1, <1>4, CanceledBooks
<1>5. CASE Gone(o) /\ SaveThen(WithId(None), "idle")
  <2>1. /\ exec'.pc = "save" /\ exec'.then = "idle" /\ exec'.action = WithId(None)
        /\ WithId(None).status = exec.action.status
        /\ \A l \in Legs : WithId(None).id[l] = IF l = exec.leg THEN None ELSE exec.action.id[l]
    BY <1>2, <1>5 DEF SaveThen, Execs, WithId, ActionsOf
  <2>2. ~Stands(orders, exec.action.id, exec.leg)
    BY <1>1, <1>5 DEF Stands, DeadIsDead, CopyIsDead, IsDeadId, CurrentId
  <2>3. exec'.action.status # "success" /\ exec'.pc \notin Work /\ Earned'
    BY <1>1, <2>1, NothingEarned, NothingFails, WorkHolder DEF Work
  <2> QED
    BY <1>1, <2>1, <2>2, <2>3, WorkBooks
<1>6. CASE Goto("watch") \/ Goto(GiveUp(exec.leg))
  <2>1. GiveUp(exec.leg) \in {"cancelOne", "rollback", "force"}
    BY <1>2 DEF GiveUp, Legs
  <2> HIDE DEF GiveUp
  <2>2. exec'.pc \in {"watch", "cancelOne", "rollback", "force"} /\ exec'.action = exec.action
    BY <1>2, <1>6, <2>1 DEF Goto, Execs
  <2>3. exec'.pc \in Work \ {"chain", "leg", "judge", "legDone"}
    BY <2>2 DEF Work
  <2> QED
    BY <1>1, <2>2, <2>3, GotoBooks
<1>7. CASE IsPartiallyFilled(o) /\ (SaveThen(exec.action, "watch") \/ SaveThen(exec.action, "legDone"))
  <2>1. /\ exec'.pc = "save" /\ exec'.then \in {"watch", "legDone"} /\ exec'.action = exec.action
        /\ exec'.leg = exec.leg /\ exec'.held = exec.held
    BY <1>2, <1>7 DEF SaveThen, Execs
  <2> QED
    BY <1>1, <1>7, <2>1, JudgedBooks DEF IsPartiallyFilled
<1> QED
  BY <1>3, <1>4, <1>5, <1>6, <1>7 DEF Judge

\* The legs before the current one have brought the whole.
LEMMA BroughtBefore ==
    ASSUME Accounting, exec.pc \in Work, NEW l \in Legs, l < exec.leg
    PROVE  /\ Stands(orders, exec.action.id, l)
           /\ Into(orders, exec.action.id, l) = Qty
<1>1. IInv /\ Books /\ Behind
  BY NothingFails DEF Chain
<1>2. orders \in Seq(LegOrders) /\ exec.action.id \in [Legs -> 0..Len(orders)]
  BY <1>1, LegTypes
<1>3. exec.action.id[l] # None /\ IsFilled(orders[exec.action.id[l]])
  BY <1>1 DEF Behind, OnLeg
<1>4. orders[exec.action.id[l]].leg = l /\ ~orders[exec.action.id[l]].back
  <2>1. exec.pc \notin {"idle", "leaveSwapMode", "save", "saveOrPanic"}
    BY DEF Work
  <2>2. Names(orders, exec.action)
    BY <1>1, <2>1, Working
  <2> QED
    BY <1>3, <2>2 DEF Names
<1>5. exec.action.id[l] \in 1..Len(orders)
  BY <1>2, <1>3 DEF None
<1>6. orders[exec.action.id[l]].executed = Qty
  <2>1. Accounted(orders, exec.action.id, free)
    BY <1>1, WorkHolder DEF Books
  <2> QED
    BY <1>2, <1>3, <1>5, <2>1, BringsAll
<1>7. Stands(orders, exec.action.id, l)
  BY <1>2, <1>3, <1>4, Brings
<1>8. LegOf(l) = l /\ Way(orders[exec.action.id[l]]) = l
  BY <1>4, WaysAre DEF LegOf, Way
<1> QED
  BY <1>6, <1>7, <1>8 DEF Into

LEMMA LegDoneBooks ==
    ASSUME Accounting, LegDone
    PROVE  Books'
<1>1. exec.pc = "legDone" /\ exec.pc \in Work /\ UNCHANGED <<orders, free, row>> /\ IInv /\ Earned
  BY NothingFails DEF LegDone, Work, Books
<1>2. exec \in Execs(orders) /\ exec.action \in ActionsOf(orders) /\ exec.leg \in Legs
  BY <1>1, TypesAre DEF IInv, Execs
<1>3. CASE exec.leg < 3 /\ exec' = [exec EXCEPT !.pc = "leg", !.leg = @ + 1]
  <2>1. /\ exec'.pc = "leg" /\ exec'.pc \in Work /\ exec'.leg = exec.leg + 1
        /\ exec'.action = exec.action /\ exec'.held = exec.held
    BY <1>2, <1>3 DEF Execs, Work
  <2>2. exec.held[exec.leg].executed = Qty
    BY <1>1, <1>3 DEF IInv, Control, DoneIsFilled, Earned
  <2>3. exec'.leg - 1 = exec.leg
    BY <1>2, <2>1 DEF Legs
  <2>4. Earned'
    BY <2>1, <2>2, <2>3 DEF Earned
  <2> QED
    BY <1>1, <2>1, <2>4, WorkBooks
<1>4. CASE exec.leg = 3 /\ SaveThen([exec.action EXCEPT !.status = "success"], "leaveSwapMode")
  <2>1. /\ exec'.pc = "save" /\ exec'.then = "leaveSwapMode" /\ exec'.action.id = exec.action.id
    BY <1>2, <1>4 DEF SaveThen, Execs, ActionsOf
  <2>2. Into(orders, exec.action.id, 3) > 0
    BY <1>1, <1>4 DEF Earned
  <2>3. Into(orders, exec.action.id, 1) = Qty /\ Into(orders, exec.action.id, 2) = Qty
    BY <1>1, <1>4, BroughtBefore DEF Legs
  <2>4. Complete(orders, exec.action.id)
    BY <2>2, <2>3 DEF Complete
  <2>5. exec'.pc \notin Work /\ Earned'
    BY <2>1, NothingEarned DEF Work
  <2> QED
    BY <1>1, <2>1, <2>4, <2>5, WorkBooks
<1>5. exec.leg < 3 \/ exec.leg = 3
  BY <1>2 DEF Legs
<1> QED
  BY <1>3, <1>4, <1>5 DEF LegDone

LEMMA ConsiderBooks ==
    ASSUME Accounting, Consider \/ ReadBalance
    PROVE  Books'
<1>1. /\ exec.pc \in {"rollback", "force", "readBalance"} /\ exec.pc \in Work
      /\ UNCHANGED <<orders, free, row>>
  BY DEF Consider, ReadBalance, Work
<1>2. exec \in Execs(orders)
  BY NothingFails, TypesAre DEF IInv
<1>3. exec'.pc \in {"watch", "cancelLeg", "tryForce"} /\ exec'.action = exec.action
  BY <1>2 DEF Consider, ReadBalance, Goto, Execs
<1>4. exec'.pc \in Work \ {"chain", "leg", "judge", "legDone"}
  BY <1>3 DEF Work
<1> QED
  BY <1>1, <1>3, <1>4, GotoBooks

\* An order works: what was brought stays, and the account follows.
LEMMA WorksBooks ==
    ASSUME Accounting, NEW n \in 1..Len(orders), NEW p \in LegOrders, Works(n, p),
           Holder'.id = Holder.id, Holder'.status = "success" => Holder.status = "success"
    PROVE  /\ Accounted(orders', Holder'.id, free')
           /\ Holder'.status = "success" => Complete(orders', Holder'.id)
           /\ \A y \in Ways : Into(orders, Holder.id, y) > 0 => Into(orders', Holder.id, y) > 0
<1>1. IInv /\ Books /\ Clean'
  BY NothingFails
<1>2. /\ Holder.id \in [Legs -> 0..Len(orders)] /\ orders \in Seq(LegOrders)
      /\ free \in [Assets -> Nat] /\ Accounted(orders, Holder.id, free)
  BY <1>1, HolderIs DEF Books
<1>3. /\ orders' = [orders EXCEPT ![n] = p] /\ free' = Booked(free, orders[n], p)
      /\ IsLive(orders[n]) /\ p.leg = orders[n].leg /\ p.back = orders[n].back
      /\ p.qty = orders[n].qty /\ p.executed >= orders[n].executed
      /\ IsDead(p) => p.executed = 0
  BY <1>1, WorksClean DEF Works
<1>4. /\ Accounted(orders', Holder.id, free')
      /\ \A y \in Ways : Into(orders', Holder.id, y) >= Into(orders, Holder.id, y)
      /\ \A l \in Legs : Stands(orders', Holder.id, l) => Stands(orders, Holder.id, l)
  BY <1>2, <1>3, WorksAccounted
<1>5. /\ \A y \in Ways : Into(orders, Holder.id, y) \in Nat
      /\ Len(orders') = Len(orders) /\ orders' \in Seq(LegOrders)
  BY <1>2, <1>3, QuantitiesAre, ExceptSeq
<1>6. \A y \in Ways : Into(orders', Holder.id, y) \in Nat
  BY <1>2, <1>5, QuantitiesAre
<1>7. \A y \in Ways : Into(orders, Holder.id, y) > 0 => Into(orders', Holder.id, y) > 0
  BY <1>4, <1>5, <1>6
<1>8. Complete(orders, Holder.id) => Complete(orders', Holder.id)
  BY <1>4, <1>7, WaysAre DEF Complete
<1> QED
  BY <1>1, <1>4, <1>7, <1>8 DEF Books

LEMMA ExchangeBooks ==
    ASSUME Accounting, Exchange
    PROVE  Books'
<1>1. IInv /\ Books /\ UNCHANGED <<exec, row>>
  BY NothingFails DEF Exchange
<1>2. PICK n \in 1..Len(orders) : \E p \in LegOrders : Works(n, p)
  BY <1>1, ExchangeWorks
<1>3. PICK p \in LegOrders : Works(n, p)
  BY <1>2
<1>4. Holder' = Holder /\ Synced'
  BY <1>1 DEF Holder, Synced, Books
<1>5. /\ Accounted(orders', Holder'.id, free')
      /\ Holder'.status = "success" => Complete(orders', Holder'.id)
      /\ \A y \in Ways : Into(orders, Holder.id, y) > 0 => Into(orders', Holder.id, y) > 0
  BY <1>3, <1>4, WorksBooks
<1>6. exec.leg \in Ways
  BY <1>1, LegTypes DEF Legs, Ways
<1>7. Heading \in {"judge", "legDone"} => Holder = exec.action
  <2>1. CASE exec.pc = "save"
    BY <2>1 DEF Holder
  <2>2. CASE exec.pc \in {"judge", "legDone"}
    BY <1>1, <2>2, WorkHolder DEF Work
  <2> QED
    BY <2>1, <2>2
<1>8. Heading \in {"judge", "legDone"} /\ Into(orders, exec.action.id, exec.leg) > 0
        => Into(orders', exec.action.id, exec.leg) > 0
  BY <1>5, <1>6, <1>7
<1>9. Heading' = Heading
  BY <1>1
<1> HIDE DEF Heading
<1>10. Earned'
  BY <1>1, <1>8, <1>9 DEF Earned, Books
<1> QED
  BY <1>4, <1>5, <1>10 DEF Books

\* The account cancels the order of the leg.
LEMMA CancelBooks ==
    ASSUME Accounting, exec.pc \in {"cancelOne", "cancelLeg"}, CancelOrdered, row' = row,
           exec'.action.id = exec.action.id,
           \/ exec'.pc \in {"tryRollback", "readBalance"} /\ exec'.action = exec.action
           \/ exec'.pc = "save" /\ exec'.then = "leaveSwapMode" /\ exec'.action.status # "success"
    PROVE  Books'
<1>1. exec.pc \in Work /\ exec.pc \in AtOrder /\ IInv /\ Books
  BY NothingFails DEF Work
<1>2. PICK n \in 1..Len(orders) : \E p \in LegOrders : Works(n, p)
  BY <1>1, CancelWorks
<1>3. PICK p \in LegOrders : Works(n, p)
  BY <1>2
<1>4. Holder = row /\ exec.action = row /\ Holder.status # "success"
  BY <1>1, WorkHolder
<1>5. Holder'.id = Holder.id /\ Holder'.status # "success" /\ Synced'
  BY <1>4 DEF Holder, Synced, Work
<1>6. /\ Accounted(orders', Holder'.id, free')
      /\ Holder'.status = "success" => Complete(orders', Holder'.id)
  BY <1>3, <1>5, WorksBooks
<1>7. Earned'
  BY NothingEarned
<1> QED
  BY <1>5, <1>6, <1>7 DEF Books

LEMMA CancelOneBooks ==
    ASSUME Accounting, CancelOne
    PROVE  Books'
<1>1. exec.pc = "cancelOne" /\ exec.pc \in Work /\ row' = row /\ ~Fault
  BY NothingFails DEF CancelOne, Work
<1>2. exec \in Execs(orders) /\ exec.action \in ActionsOf(orders)
  BY NothingFails, TypesAre DEF IInv, Execs
<1>3. CASE CancelOrdered /\ SaveThen(Canceled(exec.action), "leaveSwapMode")
  <2>1. /\ exec'.pc = "save" /\ exec'.then = "leaveSwapMode"
        /\ exec'.action.id = exec.action.id /\ exec'.action.status # "success"
    BY <1>2, <1>3 DEF SaveThen, Execs, Canceled, ActionsOf
  <2> QED
    BY <1>1, <1>3, <2>1, CancelBooks
<1>4. CASE CancelRefused /\ Goto("watch")
  <2>1. exec'.pc = "watch" /\ exec'.action = exec.action /\ UNCHANGED <<orders, free>>
    BY <1>2, <1>4 DEF Goto, Execs, CancelRefused
  <2>2. exec'.pc \in Work \ {"chain", "leg", "judge", "legDone"}
    BY <2>1 DEF Work
  <2> QED
    BY <1>1, <2>1, <2>2, GotoBooks
<1> QED
  BY <1>3, <1>4 DEF CancelOne

LEMMA CancelLegBooks ==
    ASSUME Accounting, CancelLeg
    PROVE  Books'
<1>1. exec.pc = "cancelLeg" /\ exec.pc \in Work /\ row' = row
  BY DEF CancelLeg, Work
<1>2. exec \in Execs(orders)
  BY NothingFails, TypesAre DEF IInv
<1>3. CASE CancelOrdered /\ exec' = [exec EXCEPT !.pc = IF exec.leg = 2 THEN "tryRollback" ELSE "readBalance",
                                                 !.attempt = 1]
  <2>1. exec'.pc \in {"tryRollback", "readBalance"} /\ exec'.action = exec.action
    BY <1>2, <1>3 DEF Execs
  <2> QED
    BY <1>1, <1>3, <2>1, CancelBooks
<1>4. CASE CancelRefused /\ Goto("watch")
  <2>1. exec'.pc = "watch" /\ exec'.action = exec.action /\ UNCHANGED <<orders, free>>
    BY <1>2, <1>4 DEF Goto, Execs, CancelRefused
  <2>2. exec'.pc \in Work \ {"chain", "leg", "judge", "legDone"}
    BY <2>1 DEF Work
  <2> QED
    BY <1>1, <2>1, <2>2, GotoBooks
<1> QED
  BY <1>3, <1>4 DEF CancelLeg

\* What the exchange may answer to the order of a leg, and to one that replaces it
LEMMA PlacedIs ==
    ASSUME NEW l, NEW p \in Accepted(l, Qty, FALSE, "GTC")
    PROVE  p.qty = Qty /\ ~IsDead(p) /\ (IsFilled(p) => p.executed = Qty)
BY DEF Accepted, Later, WellFormed, IsDead, IsCanceled, IsExpired, IsFilled

LEMMA SoldBackIs ==
    ASSUME NEW q, NEW p \in Accepted(2, q, TRUE, "IOC")
    PROVE  p.qty = q /\ p.back /\ p.leg = 2 /\ (IsFilled(p) => p.executed = q)
BY DEF Accepted, Later, WellFormed, IsFilled

LEMMA ForcedIs ==
    ASSUME NEW p \in Accepted(3, Qty, FALSE, "IOC")
    PROVE  p.qty = Qty /\ ~p.back /\ p.leg = 3 /\ (IsFilled(p) => p.executed = Qty)
BY DEF Accepted, Later, WellFormed, IsFilled

\* An order of the whole quantity is taken for a leg whose order does not stand.
LEMMA TakeBooks ==
    ASSUME Accounting, exec.pc \in Work, NEW p \in LegOrders, p.back => p.leg = 2, p.leg = exec.leg,
           p.qty = Qty, ~IsDead(p), ~Stands(orders, exec.action.id, exec.leg), Take(p),
           exec'.pc \in {"save", "saveOrPanic"},
           exec'.action.id = [exec.action.id EXCEPT ![exec.leg] = Len(orders) + 1]
    PROVE  /\ Synced' /\ Holder' = exec'.action
           /\ Accounted(orders', exec'.action.id, free')
           /\ Into(orders', exec'.action.id, Way(p)) = p.executed
           /\ \A k \in Legs : k # exec.leg =>
                 (Stands(orders', exec'.action.id, k) <=> Stands(orders, exec.action.id, k))
           /\ \A y \in Ways : LegOf(y) # exec.leg =>
                 Into(orders', exec'.action.id, y) = Into(orders, exec.action.id, y)
<1>1. IInv /\ Books
  BY NothingFails
<1>2. /\ exec.action.id \in [Legs -> 0..Len(orders)] /\ orders \in Seq(LegOrders)
      /\ free \in [Assets -> Nat] /\ Accounted(orders, exec.action.id, free)
  BY <1>1, WorkHolder, HolderIs DEF Books
<1>3. /\ orders' = Append(orders, p)
      /\ free' = Booked([free EXCEPT ![Source(p)] = @ - p.qty],
                        [p EXCEPT !.status = "NEW", !.executed = 0], p)
  BY DEF Take
<1>4. exec'.action.id = [exec.action.id EXCEPT ![p.leg] = Len(orders) + 1]
  OBVIOUS
<1>5. LET ps == Append(orders, p)
          jd == [exec.action.id EXCEPT ![p.leg] = Len(orders) + 1]
          v == Booked([free EXCEPT ![Source(p)] = @ - p.qty],
                      [p EXCEPT !.status = "NEW", !.executed = 0], p)
      IN  /\ Accounted(ps, jd, v)
          /\ Into(ps, jd, Way(p)) = p.executed
          /\ \A k \in Legs : k # p.leg => (Stands(ps, jd, k) <=> Stands(orders, exec.action.id, k))
          /\ \A y \in Ways : LegOf(y) # p.leg => Into(ps, jd, y) = Into(orders, exec.action.id, y)
  <2>1. ~Stands(orders, exec.action.id, p.leg)
    OBVIOUS
  <2> QED
    BY <1>2, <2>1, PlacesAccounted
<1>6. /\ Accounted(orders', exec'.action.id, free')
      /\ Into(orders', exec'.action.id, Way(p)) = p.executed
      /\ \A k \in Legs : k # p.leg =>
            (Stands(orders', exec'.action.id, k) <=> Stands(orders, exec.action.id, k))
      /\ \A y \in Ways : LegOf(y) # p.leg =>
            Into(orders', exec'.action.id, y) = Into(orders, exec.action.id, y)
  BY <1>3, <1>4, <1>5, Zenon
<1>7. Synced' /\ Holder' = exec'.action
  BY DEF Synced, Holder, Work
<1> QED
  BY <1>6, <1>7

\* What the leg before brought covers the leg.
LEMMA WholeCovers ==
    ASSUME NEW m \in Nat, NEW b \in Nat, m = Qty, b >= Qty
    PROVE  FormatQuantity(Lesser(m, b)) = Qty /\ Lesser(m, b) = Qty
BY DEF FormatQuantity, Lesser

LEMMA FreeCovers ==
    ASSUME Accounting, exec.pc \in Work, exec.leg > 1, ~Stands(orders, exec.action.id, exec.leg)
    PROVE  exec.leg - 1 \in Assets /\ free[exec.leg - 1] \in Nat /\ free[exec.leg - 1] >= Qty
<1>1. IInv /\ Books
  BY NothingFails
<1>2. exec.leg \in Legs /\ free \in [Assets -> Nat]
  BY <1>1, LegTypes, TypesAre DEF IInv
<1>3. exec.leg - 1 \in Legs /\ exec.leg - 1 < exec.leg /\ exec.leg - 1 \in Assets
  BY <1>2 DEF Legs, Assets
<1>4. Into(orders, exec.action.id, exec.leg - 1) = Qty
  BY <1>1, <1>3, BroughtBefore
<1>5. Lent(orders, exec.action.id, exec.leg) = 0
  BY DEF Lent
<1>6. Balanced(orders, exec.action.id, free)
  BY <1>1, WorkHolder DEF Books, Accounted
<1>7. free[exec.leg - 1] = Spare - 0 + Qty
  <2>1. CASE exec.leg = 2
    <3>1. free[1] = Spare - Lent(orders, exec.action.id, 2) + Into(orders, exec.action.id, 1)
      BY <1>6 DEF Balanced
    <3> QED
      BY <1>4, <1>5, <2>1, <3>1
  <2>2. CASE exec.leg = 3
    <3>1. free[2] = Spare - Lent(orders, exec.action.id, 3) + Into(orders, exec.action.id, 2)
      BY <1>6 DEF Balanced
    <3> QED
      BY <1>4, <1>5, <2>2, <3>1
  <2> QED
    BY <1>2, <2>1, <2>2 DEF Legs
<1> QED
  BY <1>2, <1>3, <1>7

LEMMA LegIsWhole ==
    ASSUME Accounting, exec.pc = "leg", exec.action.id[exec.leg] = None
    PROVE  LegQuantity(exec.leg) = Qty
<1>1. IInv /\ Books /\ exec.pc \in Work
  BY NothingFails DEF Work
<1>2. exec.leg \in Legs
  BY <1>1, LegTypes
<1>3. CASE exec.leg = 1
  BY <1>3 DEF LegQuantity
<1>4. CASE exec.leg # 1
  <2>1. exec.leg > 1 /\ ~Stands(orders, exec.action.id, exec.leg)
    BY <1>2, <1>4 DEF Legs, Stands
  <2>2. exec.held[exec.leg - 1].executed = Qty
    BY <1>1, <2>1 DEF Books, Earned
  <2>3. free[exec.leg - 1] \in Nat /\ free[exec.leg - 1] >= Qty
    BY <1>1, <2>1, FreeCovers
  <2>4. LegQuantity(exec.leg)
          = FormatQuantity(Lesser(exec.held[exec.leg - 1].executed, free[exec.leg - 1]))
    BY <1>4 DEF LegQuantity
  <2> QED
    BY <2>2, <2>3, <2>4, WholeCovers
<1> QED
  BY <1>3, <1>4

LEMMA PlaceLegBooks ==
    ASSUME Accounting, PlaceLeg
    PROVE  Books'
<1>1. /\ exec.pc = "leg" /\ exec.pc \in Work /\ exec.action.id[exec.leg] = None
      /\ IInv /\ Books /\ ~Fault
  BY NothingFails DEF PlaceLeg, Work
<1>2. /\ exec \in Execs(orders) /\ exec.action \in ActionsOf(orders) /\ exec.leg \in Legs
  BY <1>1, TypesAre DEF IInv, Execs
<1>3. PICK q \in 1..LegQuantity(exec.leg) : \E p \in Accepted(exec.leg, q, FALSE, "GTC") :
         /\ Take(p)
         /\ exec' = [exec EXCEPT !.pc = "save", !.then = AfterAnswer(p),
                                 !.action = WithId(Len(orders) + 1), !.held = Holding(p)]
         /\ IF q = LegQuantity(exec.leg) THEN UNCHANGED faults ELSE Fault
  BY DEF PlaceLeg
<1>4. q = Qty
  <2>1. LegQuantity(exec.leg) = Qty
    BY <1>1, LegIsWhole
  <2> HIDE DEF LegQuantity
  <2> QED
    BY <1>1, <1>3, <2>1
<1>5. PICK p \in Accepted(exec.leg, Qty, FALSE, "GTC") :
         /\ Take(p)
         /\ exec' = [exec EXCEPT !.pc = "save", !.then = AfterAnswer(p),
                                 !.action = WithId(Len(orders) + 1), !.held = Holding(p)]
  BY <1>3, <1>4
<1>6. p \in LegOrders /\ p.leg = exec.leg /\ ~p.back
  <2>1. Qty \in 1..Qty /\ "GTC" \in {"GTC", "IOC"}
    OBVIOUS
  <2> QED
    BY <1>2, <2>1, GoesForth, Zenon
<1>7. p.qty = Qty /\ ~IsDead(p) /\ (IsFilled(p) => p.executed = Qty)
  BY PlacedIs
<1>8. /\ exec'.pc = "save" /\ exec'.then = AfterAnswer(p) /\ exec'.action = WithId(Len(orders) + 1)
      /\ exec'.held = Holding(p) /\ exec'.leg = exec.leg
  BY <1>2, <1>5 DEF Execs
<1>9. /\ exec'.action.id = [exec.action.id EXCEPT ![exec.leg] = Len(orders) + 1]
      /\ exec'.action.status = exec.action.status
  BY <1>2, <1>8 DEF WithId, ActionsOf
<1>10. ~Stands(orders, exec.action.id, exec.leg)
  BY <1>1 DEF Stands
<1>11. /\ Synced' /\ Holder' = exec'.action
       /\ Accounted(orders', exec'.action.id, free')
       /\ Into(orders', exec'.action.id, Way(p)) = p.executed
  BY <1>1, <1>5, <1>6, <1>7, <1>8, <1>9, <1>10, TakeBooks
<1>12. exec'.action.status # "success"
  BY <1>1, <1>9, WorkHolder
<1>13. AfterAnswer(p) \in {"legDone", "watch"} /\ (AfterAnswer(p) = "legDone" => IsFilled(p))
  BY DEF AfterAnswer
<1>14. Holding(p)[exec.leg].status = p.status /\ Holding(p)[exec.leg].executed = p.executed
  BY <1>2, HoldingIs
<1>15. Way(p) = exec.leg
  BY <1>6 DEF Way
<1>16. Heading' = AfterAnswer(p)
  BY <1>8
<1>17. IsFilled(p) => Into(orders', exec'.action.id, exec'.leg) > 0
  BY <1>7, <1>8, <1>11, <1>15
<1> HIDE DEF Heading, AfterAnswer, Holding
<1>18. Earned'
  BY <1>7, <1>8, <1>13, <1>14, <1>16, <1>17 DEF Earned
<1> QED
  BY <1>11, <1>12, <1>18 DEF Books

\* An order that replaces the cancelled one of its leg is filled, and the action is done;
\* or it is tried again.
LEMMA ReplaceBooks ==
    ASSUME Accounting, exec.pc \in {"tryRollback", "tryForce"}, row' = row,
           NEW p \in LegOrders, p.leg = exec.leg, p.back => p.leg = 2, p.qty = Qty,
           IsFilled(p) => p.executed = Qty, IsFilled(p) \/ IsDead(p), Take(p),
           IF IsFilled(p) THEN Done(p) ELSE Attempted,
           p.back \/ p.leg = 3, p.back => ~Stands(orders, exec.action.id, 3)
    PROVE  Books'
<1>1. exec.pc \in Work /\ exec.pc \in AtDead /\ IInv /\ IInv' /\ Books /\ DeadIsDead /\ Clean'
  BY NothingFails DEF Work, AtDead
<1>2. /\ exec \in Execs(orders) /\ exec.action \in ActionsOf(orders) /\ exec.leg \in Legs
  BY <1>1, TypesAre DEF IInv, Execs
<1>3. ~Stands(orders, exec.action.id, exec.leg)
  BY <1>1 DEF DeadIsDead, DeadIsHeld, IsDeadId, CurrentId, Stands
<1>4. CASE IsFilled(p)
  <2>1. exec' = [exec EXCEPT !.pc = "saveOrPanic",
                             !.action = [WithId(Len(orders) + 1) EXCEPT !.status = "success"]]
    BY <1>4 DEF Done
  <2>2. /\ exec'.pc = "saveOrPanic" /\ exec'.leg = exec.leg
        /\ exec'.action = [WithId(Len(orders) + 1) EXCEPT !.status = "success"]
    BY <1>2, <2>1 DEF Execs
  <2>3. exec'.action.id = [exec.action.id EXCEPT ![exec.leg] = Len(orders) + 1]
    BY <1>2, <2>2 DEF WithId, ActionsOf
  <2>4. ~IsDead(p) /\ p.executed = Qty
    BY <1>4, FilledIsNotDead
  <2>5. /\ Synced' /\ Holder' = exec'.action
        /\ Accounted(orders', exec'.action.id, free')
        /\ Into(orders', exec'.action.id, Way(p)) = p.executed
        /\ \A k \in Legs : k # exec.leg =>
              (Stands(orders', exec'.action.id, k) <=> Stands(orders, exec.action.id, k))
        /\ \A y \in Ways : LegOf(y) # exec.leg =>
              Into(orders', exec'.action.id, y) = Into(orders, exec.action.id, y)
    BY <1>1, <1>3, <2>2, <2>3, <2>4, TakeBooks
  <2>6. Earned'
    BY <2>2, NothingEarned
  <2>7. Complete(orders', exec'.action.id)
    <3>1. LegOf(1) = 1 /\ LegOf(2) = 2
      BY DEF LegOf
    <3>2. Into(orders, exec.action.id, 1) = Qty
      BY <1>1, <1>2, BroughtBefore DEF Legs
    <3>3. Into(orders', exec'.action.id, 1) = Qty
      BY <2>5, <3>1, <3>2, WaysAre
    <3>4. CASE p.back
      <4>1. Way(p) = 4 /\ exec.leg = 2
        BY <3>4 DEF Way
      <4>2. Into(orders', exec'.action.id, 4) = Qty
        BY <2>4, <2>5, <4>1
      <4>3. ~Stands(orders', exec'.action.id, 3)
        BY <2>5, <3>4, <4>1, WaysAre
      <4> QED
        BY <3>3, <4>2, <4>3 DEF Complete
    <3>5. CASE ~p.back
      <4>1. Way(p) = 3 /\ exec.leg = 3
        BY <3>5 DEF Way
      <4>2. Into(orders', exec'.action.id, 3) = Qty
        BY <2>4, <2>5, <4>1
      <4>3. Into(orders, exec.action.id, 2) = Qty
        BY <1>1, <4>1, BroughtBefore, WaysAre
      <4>4. Into(orders', exec'.action.id, 2) = Qty
        BY <2>5, <3>1, <4>1, <4>3, WaysAre
      <4> QED
        BY <3>3, <4>2, <4>4 DEF Complete
    <3> QED
      BY <3>4, <3>5
  <2> QED
    BY <2>5, <2>6, <2>7 DEF Books
<1>5. CASE ~IsFilled(p)
  <2>1. exec'.pc \in {"tryRollback", "tryForce", "watch"} /\ exec'.action = exec.action
    BY <1>2, <1>5 DEF Attempted, Goto, Execs
  <2>2. IsDead(p) /\ p.executed = 0
    BY <1>1, <1>5, TakeClean DEF Take
  <2>3. /\ exec.action.id \in [Legs -> 0..Len(orders)] /\ orders \in Seq(LegOrders)
        /\ free \in [Assets -> Nat] /\ Accounted(orders, exec.action.id, free)
        /\ Holder = row /\ exec.action = row /\ Holder.status # "success"
    BY <1>1, WorkHolder, HolderIs DEF Books
  <2>4. Accounted(Append(orders, p), exec.action.id,
                  Booked([free EXCEPT ![Source(p)] = @ - p.qty],
                         [p EXCEPT !.status = "NEW", !.executed = 0], p))
    BY <2>2, <2>3, TriesAccounted
  <2>5. Accounted(orders', exec.action.id, free')
    BY <2>4 DEF Take
  <2>6. Holder' = Holder /\ Synced'
    BY <1>1, <2>1, <2>3 DEF Holder, Synced
  <2>7. Earned'
    BY <2>1, NothingEarned
  <2> QED
    BY <2>3, <2>5, <2>6, <2>7 DEF Books
<1> QED
  BY <1>4, <1>5

\* An attempt that orders nothing
LEMMA AttemptBooks ==
    ASSUME Accounting, exec.pc \in {"tryRollback", "tryForce"}, UNCHANGED <<orders, free, row>>,
           Attempted \/ Goto("watch")
    PROVE  Books'
<1>1. exec.pc \in Work /\ exec \in Execs(orders)
  BY NothingFails, TypesAre DEF IInv, Work
<1>2. exec'.pc \in {"tryRollback", "tryForce", "watch"} /\ exec'.action = exec.action
  BY <1>1 DEF Attempted, Goto, Execs
<1>3. exec'.pc \in Work \ {"chain", "leg", "judge", "legDone"}
  BY <1>2 DEF Work
<1> QED
  BY <1>1, <1>2, <1>3, GotoBooks

\* While a leg is worked on, the copy of the leg before says that the whole was executed;
\* and the balance read after the cancel covers the forced leg.
Covers ==
    /\ exec.leg > 1 => exec.held[exec.leg - 1].executed = Qty
    /\ exec.pc = "tryForce" => exec.balance >= Qty

\* It stays so while Execute stays with the leg,
LEMMA CoversStays ==
    ASSUME exec \in Execs(orders), Covers, exec'.leg = exec.leg,
           exec'.held = exec.held \/ \E p : exec'.held = Holding(p),
           exec'.pc = "tryForce" => exec.pc = "tryForce" /\ exec'.balance = exec.balance
    PROVE  Covers'
<1>1. exec.held \in [Legs -> [status : Statuses \cup {"none"}, executed : 0..Qty]] /\ exec.leg \in Legs
  BY DEF Execs
<1>2. ASSUME exec.leg > 1 PROVE exec'.held[exec.leg - 1] = exec.held[exec.leg - 1]
  <2>1. exec.leg - 1 \in Legs /\ exec.leg - 1 # exec.leg
    BY <1>1, <1>2 DEF Legs
  <2>2. ASSUME NEW p, exec'.held = Holding(p) PROVE exec'.held[exec.leg - 1] = exec.held[exec.leg - 1]
    BY <1>1, <2>1, <2>2 DEF Holding
  <2> QED
    BY <2>2
<1> QED
  BY <1>2 DEF Covers

\* ... and nothing is to be covered when it begins or ends.
LEMMA CoversAfresh ==
    ASSUME exec'.leg = 1, exec'.pc # "tryForce"
    PROVE  Covers'
BY DEF Covers

LEMMA StepCovers ==
    ASSUME Accounting, Covers, [Next]_vars
    PROVE  Covers'
<1>1. IInv /\ Books /\ DeadIsDead /\ ~Fault
  BY NothingFails
<1>2. exec \in Execs(orders) /\ exec.leg \in Legs
  BY <1>1, TypesAre, LegTypes DEF IInv
<1>3. CASE UNCHANGED exec
  BY <1>2, <1>3, CoversStays
<1>4. CASE Leave
  BY <1>4, CoversAfresh DEF Leave, Idle
<1>5. ASSUME NEW pc, pc # "tryForce", Goto(pc) PROVE Covers'
  <2>1. exec'.leg = exec.leg /\ exec'.held = exec.held /\ exec'.pc = pc
    BY <1>2, <1>5 DEF Goto, Execs
  <2> QED
    BY <1>2, <1>5, <2>1, CoversStays
<1>6. ASSUME NEW action, NEW then, SaveThen(action, then) PROVE Covers'
  <2>1. exec'.leg = exec.leg /\ exec'.held = exec.held /\ exec'.pc = "save"
    BY <1>2, <1>6 DEF SaveThen, Execs
  <2> QED
    BY <1>2, <2>1, CoversStays
<1>7. CASE Attempted
  <2>1. CASE exec' = [exec EXCEPT !.attempt = @ + 1]
    <3>1. exec'.leg = exec.leg /\ exec'.held = exec.held /\ exec'.pc = exec.pc /\ exec'.balance = exec.balance
      BY <1>2, <2>1 DEF Execs
    <3> QED
      BY <1>2, <3>1, CoversStays
  <2> QED
    BY <1>5, <1>7, <2>1 DEF Attempted
<1>8. ASSUME NEW p, Done(p) PROVE Covers'
  <2>1. exec'.leg = exec.leg /\ exec'.held = exec.held /\ exec'.pc = "saveOrPanic"
    BY <1>2, <1>8 DEF Done, Execs
  <2> QED
    BY <1>2, <2>1, CoversStays
<1>9. CASE Begin
  <2>1. CASE exec' = [Idle EXCEPT !.pc = "save", !.then = "chain",
                                  !.action = [row EXCEPT !.status = "process"]]
    <3>1. exec'.leg = 1 /\ exec'.pc = "save"
      BY <2>1 DEF Idle
    <3> QED
      BY <3>1, CoversAfresh
  <2>2. CASE exec' = [Idle EXCEPT !.pc = "chain", !.action = row]
    <3>1. exec'.leg = 1 /\ exec'.pc = "chain"
      BY <2>2 DEF Idle
    <3> QED
      BY <3>1, CoversAfresh
  <2>3. CASE UNCHANGED exec \/ Goto("leaveSwapMode")
    BY <1>3, <1>5, <2>3
  <2> QED
    BY <1>9, <2>1, <2>2, <2>3 DEF Begin
<1>10. CASE GetSwapChainById \/ LeaveSwapMode \/ LegRefused \/ CancelOne \/ SaveOrPanic \/ Crash
  BY <1>4, <1>5, <1>6, <1>10 DEF GetSwapChainById, LeaveSwapMode, LegRefused, CancelOne, SaveOrPanic, Crash
<1>11. CASE Save
  <2>1. exec.then # "tryForce"
    BY <1>1, <1>11 DEF Save, IInv, Control, LegOfPlace
  <2> QED
    BY <1>4, <1>5, <1>11, <2>1 DEF Save
<1>12. CASE PlaceLeg
  <2>1. PICK p : exec' = [exec EXCEPT !.pc = "save", !.then = AfterAnswer(p),
                                      !.action = WithId(Len(orders) + 1), !.held = Holding(p)]
    BY <1>12 DEF PlaceLeg
  <2>2. exec'.leg = exec.leg /\ exec'.held = Holding(p) /\ exec'.pc = "save"
    BY <1>2, <2>1 DEF Execs
  <2> QED
    BY <1>2, <2>2, CoversStays
<1>13. CASE ResumeLeg \/ Watch
  <2>1. ASSUME NEW then,
               exec' = [exec EXCEPT !.pc = "save", !.then = then, !.held = Holding(Ordered)]
        PROVE  Covers'
    <3>1. exec'.leg = exec.leg /\ exec'.held = Holding(Ordered) /\ exec'.pc = "save"
      BY <1>2, <2>1 DEF Execs
    <3> QED
      BY <1>2, <3>1, CoversStays
  <2>2. CASE Watch
    BY <1>3, <1>13, <2>1, <2>2 DEF Watch
  <2>3. CASE ResumeLeg
    <3>1. CASE SaveThen(WithId(None), "idle")
      BY <1>6, <3>1
    <3>2. CASE Leave
      BY <1>4, <3>2
    <3>3. CASE exec' = [exec EXCEPT !.pc = "save", !.then = AfterAnswer(Ordered),
                                    !.held = Holding(Ordered)]
      BY <2>1, <3>3
    <3> QED
      BY <2>3, <3>1, <3>2, <3>3 DEF ResumeLeg
  <2> QED
    BY <1>13, <2>2, <2>3
<1>14. CASE Judge
  <2>1. GiveUp(exec.leg) # "tryForce"
    BY <1>2 DEF GiveUp, Legs
  <2>2. CASE Goto("legDone") \/ Goto("watch") \/ Goto(GiveUp(exec.leg))
    BY <1>5, <2>1, <2>2
  <2>3. CASE \/ SaveThen(Canceled(exec.action), "leaveSwapMode") \/ SaveThen(WithId(None), "idle")
             \/ SaveThen(exec.action, "watch") \/ SaveThen(exec.action, "legDone")
    BY <1>6, <2>3
  <2> QED
    BY <1>14, <2>2, <2>3 DEF Judge
<1>15. CASE LegDone
  <2>1. CASE exec.leg < 3 /\ exec' = [exec EXCEPT !.pc = "leg", !.leg = @ + 1]
    <3>1. exec'.pc = "leg" /\ exec'.leg = exec.leg + 1 /\ exec'.held = exec.held
      BY <1>2, <2>1 DEF Execs
    <3>2. exec'.leg - 1 = exec.leg
      BY <1>2, <3>1 DEF Legs
    <3>3. exec.held[exec.leg].executed = Qty
      BY <1>1, <1>15, <2>1 DEF LegDone, IInv, Control, DoneIsFilled, Books, Earned
    <3> QED
      BY <3>1, <3>2, <3>3 DEF Covers
  <2> QED
    BY <1>6, <1>15, <2>1 DEF LegDone
<1>16. CASE Consider \/ CancelLeg
  <2>1. CASE \E pc \in {"cancelLeg", "tryRollback", "readBalance"} : \E b, n :
                exec' = [exec EXCEPT !.pc = pc, !.balance = b, !.attempt = n]
    <3>1. exec'.leg = exec.leg /\ exec'.held = exec.held /\ exec'.pc # "tryForce"
      BY <1>2, <2>1 DEF Execs
    <3> QED
      BY <1>2, <3>1, CoversStays
  <2>2. CASE Consider /\ ~Goto("watch")
    <3>1. exec' = [exec EXCEPT !.pc = "cancelLeg", !.balance = free[exec.leg - 1], !.attempt = exec.attempt]
      BY <1>2, <2>2 DEF Consider, Execs
    <3> QED
      BY <2>1, <3>1
  <2>3. CASE CancelLeg /\ ~Goto("watch")
    <3>1. PICK pc \in {"tryRollback", "readBalance"} : exec' = [exec EXCEPT !.pc = pc, !.attempt = 1]
      BY <2>3 DEF CancelLeg
    <3>2. exec' = [exec EXCEPT !.pc = pc, !.balance = exec.balance, !.attempt = 1]
      BY <1>2, <3>1 DEF Execs
    <3> QED
      BY <2>1, <3>1, <3>2
  <2> QED
    BY <1>5, <1>16, <2>2, <2>3
<1>17. CASE ReadBalance
  <2>1. CASE exec' = [exec EXCEPT !.pc = "tryForce", !.balance = free[2]]
    <3>1. exec'.pc = "tryForce" /\ exec'.leg = exec.leg /\ exec'.held = exec.held /\ exec'.balance = free[2]
      BY <1>2, <2>1 DEF Execs
    <3>2. exec.pc = "readBalance" /\ exec.leg = 3 /\ exec.pc \in Work /\ exec.pc \in AtDead
      BY <1>1, <1>17 DEF ReadBalance, IInv, Control, LegOfPlace, Work, AtDead
    <3>3. ~Stands(orders, exec.action.id, exec.leg)
      BY <1>1, <3>2 DEF DeadIsDead, DeadIsHeld, IsDeadId, CurrentId, Stands
    <3>4. free[2] >= Qty
      BY <3>2, <3>3, FreeCovers
    <3> QED
      BY <3>1, <3>4 DEF Covers
  <2> QED
    BY <1>5, <1>17, <2>1 DEF ReadBalance
<1>18. CASE TryRollback \/ TryForce
  BY <1>5, <1>7, <1>8, <1>18 DEF TryRollback, TryForce
<1>19. CASE Exchange \/ Terminated \/ UNCHANGED vars
  BY <1>3, <1>19 DEF Exchange, Terminated, vars
<1> QED
  BY <1>9, <1>10, <1>11, <1>12, <1>13, <1>14, <1>15, <1>16, <1>17, <1>18, <1>19 DEF Next, Execute

\* So the forced leg is of the whole quantity.
LEMMA ForcedWhole ==
    ASSUME Accounting, Covers, exec.pc = "tryForce", exec.leg = 3
    PROVE  Lesser(exec.held[2].executed, exec.balance) = Qty
<1>1. exec.balance \in Nat /\ exec.balance >= Qty
  BY NothingFails, TypesAre DEF IInv, Execs, Covers
<1>2. exec.held[2].executed = Qty
  <2>1. exec.leg - 1 = 2 /\ exec.leg > 1
    OBVIOUS
  <2> QED
    BY <2>1 DEF Covers
<1> QED
  BY <1>1, <1>2, WholeCovers

LEMMA TryRollbackBooks ==
    ASSUME Accounting, TryRollback
    PROVE  Books'
<1> DEFINE q == Lesser(exec.held[1].executed, exec.balance)
<1>1. /\ exec.pc = "tryRollback" /\ row' = row /\ IInv /\ DeadIsDead /\ Chain /\ Clean'
  BY NothingFails DEF TryRollback
<1>2. exec.leg = 2
  BY <1>1 DEF IInv, Control, LegOfPlace
<1>3. CASE Goto("watch") /\ UNCHANGED <<orders, free>>
  BY <1>1, <1>3, AttemptBooks
<1>4. CASE q > 0 /\ \E p \in Accepted(2, q, TRUE, "IOC") :
              Take(p) /\ IF IsFilled(p) THEN Done(p) ELSE Attempted
  <2>1. PICK p \in Accepted(2, q, TRUE, "IOC") :
              Take(p) /\ IF IsFilled(p) THEN Done(p) ELSE Attempted
    BY <1>4
  <2>2. q \in 1..Qty
    BY <1>1, <1>4, CutInRange DEF Legs
  <2> HIDE DEF q
  <2>3. p \in LegOrders /\ (IsFilled(p) \/ IsDead(p))
    BY <2>2, SellsBack, ImmediateOrDead
  <2>4. p.qty = Qty /\ p.back /\ p.leg = 2 /\ (IsFilled(p) => p.executed = Qty)
    <3>1. p.qty = q /\ p.back /\ p.leg = 2 /\ (IsFilled(p) => p.executed = q)
      BY SoldBackIs
    <3>2. p.back => p.qty = Qty
      BY <1>1, <2>1, <2>3, TakeClean DEF Take
    <3> QED
      BY <3>1, <3>2
  <2>5. exec.action.id[3] = None
    <3>1. Prefix(orders, exec.action.id)
      BY <1>1 DEF Chain, Prefixes, OnLeg, Work
    <3>2. IsDead(orders[exec.action.id[2]])
      BY <1>1, <1>2 DEF DeadIsDead, DeadIsHeld, AtDead, IsDeadId, CurrentId
    <3>3. ~IsFilled(orders[exec.action.id[2]])
      BY <3>2, FilledIsNotDead
    <3>4. 2 \in Legs /\ 3 \in Legs /\ 2 < 3
      BY DEF Legs
    <3> QED
      BY <3>1, <3>3, <3>4 DEF Prefix
  <2>6. ~Stands(orders, exec.action.id, 3)
    BY <2>5 DEF Stands
  <2> QED
    BY <1>1, <1>2, <2>1, <2>3, <2>4, <2>6, ReplaceBooks
<1> QED
  BY <1>3, <1>4 DEF TryRollback

LEMMA TryForceBooks ==
    ASSUME Accounting, Covers, TryForce
    PROVE  Books'
<1> DEFINE q == Lesser(exec.held[2].executed, exec.balance)
<1>1. /\ exec.pc = "tryForce" /\ row' = row /\ IInv
  BY NothingFails DEF TryForce
<1>2. exec.leg = 3
  BY <1>1 DEF IInv, Control, LegOfPlace
<1>3. CASE (Attempted \/ Goto("watch")) /\ UNCHANGED <<orders, free>>
  BY <1>1, <1>3, AttemptBooks
<1>4. CASE q > 0 /\ \E p \in Accepted(3, q, FALSE, "IOC") :
              Take(p) /\ IF IsFilled(p) THEN Done(p) ELSE Attempted
  <2>1. q = Qty
    BY <1>1, <1>2, ForcedWhole
  <2>2. PICK p \in Accepted(3, Qty, FALSE, "IOC") :
              Take(p) /\ IF IsFilled(p) THEN Done(p) ELSE Attempted
    BY <1>4, <2>1
  <2>3. Qty \in 1..Qty
    OBVIOUS
  <2>4. p \in LegOrders /\ (IsFilled(p) \/ IsDead(p))
    BY <2>3, ForcesLeg, ImmediateOrDead
  <2>5. p.qty = Qty /\ ~p.back /\ p.leg = 3 /\ (IsFilled(p) => p.executed = Qty)
    BY ForcedIs
  <2> QED
    BY <1>1, <1>2, <2>2, <2>4, <2>5, ReplaceBooks
<1> QED
  BY <1>3, <1>4 DEF TryForce

-----------------------------------------------------------------------------
Account == Fine => Books /\ Covers

LEMMA InitAccount == Init => Account
<1> SUFFICES ASSUME Init PROVE Books
  BY IdleIs DEF Account, Covers, Init
<1>1. /\ Len(orders) = 0 /\ row = NewAction /\ exec.pc = "idle"
      /\ free = [a \in Assets |-> IF a = 0 THEN Qty ELSE Spare]
  BY IdleIs DEF Init
<1>2. Synced /\ Earned /\ Holder = row
  BY <1>1 DEF Synced, Earned, Holder, Work
<1>3. \A l \in Legs : row.id[l] = None
  BY <1>1 DEF NewAction
<1>4. \A l \in Legs : ~Stands(orders, row.id, l)
  BY <1>3 DEF Stands
<1>5. /\ \A l \in Legs : Lent(orders, row.id, l) = 0
      /\ \A y \in Ways : Into(orders, row.id, y) = 0
  BY <1>4, WaysAre DEF Lent, Into
<1>6. Balanced(orders, row.id, free)
  BY <1>1, <1>5, WaysAre DEF Balanced
<1>7. AllNamed(orders, row.id)
  BY <1>1, <1>3 DEF AllNamed
<1>8. row.status # "success"
  BY <1>1 DEF NewAction
<1> QED
  BY <1>2, <1>6, <1>7, <1>8 DEF Books, Accounted

LEMMA StepAccount ==
    ASSUME LegInv, LegInv', Account, [Next]_vars
    PROVE  Account'
<1> SUFFICES ASSUME Fine' PROVE Books' /\ Covers'
  BY DEF Account
<1>1. Fine /\ UNCHANGED <<faults, crashes>>
  BY FineBefore DEF LegInv
<1>2. Accounting /\ Books /\ Covers
  BY <1>1 DEF Accounting, Account
<1> SUFFICES Books'
  BY <1>2, StepCovers
<1>3. CASE Execute
  BY <1>2, <1>3, BeginBooks, GetChainBooks, SaveBooks, ReturnBooks, PlaceLegBooks, LegRefusedBooks,
     ResumeBooks, WatchBooks, JudgeBooks, LegDoneBooks, CancelOneBooks, ConsiderBooks, CancelLegBooks,
     TryRollbackBooks, TryForceBooks DEF Execute
<1>4. CASE Exchange
  BY <1>2, <1>4, ExchangeBooks
<1>5. CASE Crash
  <2>1. crashes \in Nat /\ crashes' = crashes + 1
    BY <1>5, LegTypes DEF LegInv, Crash
  <2> QED
    BY <1>1, <2>1
<1>6. CASE UNCHANGED vars
  <2>1. Holder' = Holder /\ Synced' = Synced /\ Earned' = Earned
    BY <1>6 DEF vars, Holder, Synced, Earned
  <2> QED
    BY <1>2, <1>6, <2>1 DEF Books, vars
<1> QED
  BY <1>3, <1>4, <1>5, <1>6 DEF Next, Terminated

\* When every order that stands is filled, what it brought is the whole.
Settled(os) == \A n \in 1..Len(os) : IsDead(os[n]) \/ IsFilled(os[n])

LEMMA BroughtAll ==
    ASSUME NEW os \in Seq(LegOrders), NEW id \in [Legs -> 0..Len(os)], NEW w, Accounted(os, id, w),
           Settled(os), NEW y \in Ways, Into(os, id, y) > 0
    PROVE  /\ Into(os, id, y) = Qty /\ Lent(os, id, LegOf(y)) = Qty
           /\ \A z \in Ways : LegOf(z) = LegOf(y) /\ z # y => Into(os, id, z) = 0
<1>1. Stands(os, id, LegOf(y)) /\ Way(os[id[LegOf(y)]]) = y
  BY DEF Into
<1>2. LegOf(y) \in Legs
  BY WaysAre
<1>3. id[LegOf(y)] \in 1..Len(os)
  BY <1>1, <1>2, QuantitiesAre DEF Stands
<1>4. IsFilled(os[id[LegOf(y)]])
  BY <1>1, <1>3 DEF Settled, Stands
<1>5. os[id[LegOf(y)]].executed = Qty
  BY <1>3, <1>4, BringsAll
<1>6. Into(os, id, y) = Qty /\ Lent(os, id, LegOf(y)) = Qty
  BY <1>1, <1>5 DEF Into, Lent
<1>7. ASSUME NEW z \in Ways, LegOf(z) = LegOf(y), z # y PROVE Into(os, id, z) = 0
  BY <1>1, <1>7 DEF Into
<1> QED
  BY <1>6, <1>7

LEMMA CompleteBalance ==
    ASSUME NEW os \in Seq(LegOrders), NEW id \in [Legs -> 0..Len(os)], NEW w, Accounted(os, id, w),
           Settled(os), Complete(os, id)
    PROVE  w[0] = Qty /\ w[1] = Spare /\ w[2] = Spare
<1>1. LegOf(1) = 1 /\ LegOf(2) = 2 /\ LegOf(3) = 3 /\ LegOf(4) = 2
  BY DEF LegOf
<1>2. Into(os, id, 1) = Qty /\ Lent(os, id, 1) = Qty
  BY <1>1, BroughtAll, WaysAre DEF Complete
<1>3. Balanced(os, id, w)
  BY DEF Accounted
<1>4. CASE Into(os, id, 2) > 0 /\ Into(os, id, 3) > 0
  <2>1. Into(os, id, 2) = Qty /\ Lent(os, id, 2) = Qty /\ Into(os, id, 4) = 0
    BY <1>1, <1>4, BroughtAll, WaysAre
  <2>2. Into(os, id, 3) = Qty /\ Lent(os, id, 3) = Qty
    BY <1>1, <1>4, BroughtAll, WaysAre
  <2>3. /\ w[0] = Qty - Qty + Qty + 0
        /\ w[1] = Spare - Qty + Qty
        /\ w[2] = Spare - Qty + Qty
    BY <1>2, <1>3, <2>1, <2>2 DEF Balanced
  <2> QED
    BY <2>3
<1>5. CASE Into(os, id, 4) > 0 /\ ~Stands(os, id, 3)
  <2>1. Into(os, id, 4) = Qty /\ Lent(os, id, 2) = Qty /\ Into(os, id, 2) = 0
    BY <1>1, <1>5, BroughtAll, WaysAre
  <2>2. Into(os, id, 3) = 0 /\ Lent(os, id, 3) = 0
    BY <1>1, <1>5 DEF Into, Lent
  <2>3. /\ w[0] = Qty - Qty + 0 + Qty
        /\ w[1] = Spare - Qty + Qty
        /\ w[2] = Spare - 0 + 0
    BY <1>2, <1>3, <2>1, <2>2 DEF Balanced
  <2> QED
    BY <2>3
<1> QED
  BY <1>4, <1>5 DEF Complete

\* When nothing fails, the process does not crash and no order dies partly executed, an
\* action that is written as a success has sold all that each leg earned and left nothing
\* in the two other assets, whether its three legs were filled, the second was sold back
\* whole or the third was forced; the balance never cuts the forced leg, which reads it
\* after the cancel (swap_executor.go 55-88, 594-702, 704-852).
THEOREM SuccessIsCompleteCorrect == Spec => []SuccessIsComplete
<1>1. LegInv /\ Account => SuccessIsComplete
  <2> SUFFICES ASSUME LegInv, Account, row.status = "success", faults = 0, crashes = 0,
                      \A o \in Placed : IsFilled(o) \/ (IsDead(o) /\ ~HasExecutedQuantity(o)),
                      \A o \in Placed : o.back => o.qty = Qty
               PROVE  free = [a \in Assets |-> IF a = 0 THEN Qty ELSE Spare]
    BY DEF SuccessIsComplete
  <2>1. IInv /\ orders \in Seq(LegOrders) /\ free \in [Assets -> Nat]
    BY TypesAre DEF LegInv, IInv
  <2>2. \A n \in 1..Len(orders) : orders[n] \in Placed /\ orders[n] \in LegOrders
    BY <2>1, ElementOfSeq DEF Placed
  <2>3. Clean /\ Settled(orders)
    <3>1. \A n \in 1..Len(orders) : orders[n].executed \in Nat
      BY <2>2 DEF LegOrders
    <3> QED
      BY <2>2, <3>1, FilledIsNotDead DEF Clean, Settled, HasExecutedQuantity
  <2>4. Books
    BY <2>3 DEF Account, Fine
  <2>5. Holder = row
    BY <2>1 DEF IInv, Control, EndIsTheEnd, Holder
  <2>6. row.id \in [Legs -> 0..Len(orders)]
    BY <2>1, LegTypes
  <2>7. free[0] = Qty /\ free[1] = Spare /\ free[2] = Spare
    BY <2>1, <2>3, <2>4, <2>5, <2>6, CompleteBalance DEF Books
  <2>8. \A a \in Assets : free[a] = IF a = 0 THEN Qty ELSE Spare
    BY <2>7 DEF Assets
  <2> QED
    BY <2>1, <2>8
<1>2. Init => LegInv /\ Account
  BY InitLegInv, InitAccount
<1>3. LegInv /\ Account /\ [Next]_vars => (LegInv /\ Account)'
  BY StepLegInv, StepAccount
<1> QED
  BY <1>1, <1>2, <1>3, PTL DEF Spec
=============================================================================
