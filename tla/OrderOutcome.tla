---------------------------- MODULE OrderOutcome ----------------------------
(***************************************************************************)
(* What OrderExecutor.tryLimitOrder promises about one limit order, and    *)
(* nothing about how: the call ends once, with success and the executed    *)
(* quantity when the settled order bought or sold something, with an error *)
(* when it did not.  Only when the exchange or the database failed to      *)
(* answer may it end with an error whatever became of the order.           *)
(***************************************************************************)
EXTENDS ExchangeOrder

VARIABLES
    order,           \* the order as the exchange knows it
    outcome,         \* "pending", or what the call returned: "ok" or "error"
    reported,        \* the executed quantity handed to the caller with "ok"
    faults           \* the failures met so far

outcomeVars == <<order, outcome, reported, faults>>

OutcomeInit ==
    /\ order \in Orders
    /\ outcome = "pending"
    /\ reported = 0
    /\ faults = 0

Exchange ==
    /\ order' \in Orders
    /\ Progress(order, order')
    /\ UNCHANGED <<outcome, reported, faults>>

\* The call ends on a settled order and reports exactly what was executed.
Conclude ==
    /\ outcome = "pending"
    /\ IsSettled(order)
    /\ outcome' = IF HasExecutedQuantity(order) THEN "ok" ELSE "error"
    /\ reported' = order.executed
    /\ UNCHANGED <<order, faults>>

\* A request to the exchange or to the database fails.
Fault ==
    /\ faults' = faults + 1
    /\ UNCHANGED <<order, outcome, reported>>

\* The call gives up on an order whose state it could not learn.
GiveUp ==
    /\ outcome = "pending"
    /\ faults' \in {faults, faults + 1}
    /\ faults' > 0
    /\ outcome' = "error"
    /\ UNCHANGED <<order, reported>>

OutcomeNext == Exchange \/ Conclude \/ Fault \/ GiveUp

OutcomeSpec == OutcomeInit /\ [][OutcomeNext]_outcomeVars /\ WF_outcomeVars(Conclude)
=============================================================================
