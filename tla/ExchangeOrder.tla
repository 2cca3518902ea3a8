--------------------------- MODULE ExchangeOrder ----------------------------
(***************************************************************************)
(* A limit order at the exchange, as the bot sees it (model.BinanceOrder): *)
(* side, status and executed quantity, with quantities in lots.  The price *)
(* and the timestamps are left out.  EXPIRED stands for both EXPIRED and   *)
(* EXPIRED_IN_MATCH, which IsExpired does not tell apart.                  *)
(***************************************************************************)
EXTENDS Naturals

CONSTANTS Qty        \* the largest OrigQty, in lots

ASSUME QtyAssumption == Qty \in Nat \ {0}

Sides == {"BUY", "SELL"}
Statuses == {"NEW", "PARTIALLY_FILLED", "FILLED", "CANCELED", "EXPIRED"}

IsNew(o) == o.status = "NEW"
IsPartiallyFilled(o) == o.status = "PARTIALLY_FILLED"
IsFilled(o) == o.status = "FILLED"
IsCanceled(o) == o.status = "CANCELED"
IsExpired(o) == o.status = "EXPIRED"
HasExecutedQuantity(o) == o.executed > 0

\* The exchange may still match the order; once it cannot, the order is settled.
IsLive(o) == o.status \in {"NEW", "PARTIALLY_FILLED"}
IsSettled(o) == o.status \in {"FILLED", "CANCELED", "EXPIRED"}

\* The states an order of q lots goes through
WellFormed(o, q) ==
    /\ o.executed \in 0..q
    /\ o.status = "NEW" => o.executed = 0
    /\ o.status = "PARTIALLY_FILLED" => o.executed \in 1..(q - 1)
    /\ o.status = "FILLED" <=> o.executed = q

Orders == { o \in [side : Sides, status : Statuses, executed : 0..Qty] :
              WellFormed(o, Qty) }

\* The exchange matches part or all of order o, cancels it or lets it expire,
\* and it becomes p.
Progress(o, p) ==
    /\ IsLive(o)
    /\ p.side = o.side
    /\ p.executed >= o.executed
    /\ IsNew(p) => IsNew(o)

\* p is the order o now or later.
Follows(o, p) == p = o \/ Progress(o, p)
=============================================================================
