--------------------------- MODULE MCSocketClient ---------------------------
(***************************************************************************)
(* Instances of SocketClient for TLC: who calls what.                      *)
(***************************************************************************)
EXTENDS SocketClient

CONSTANTS c1, c2

\* Every method is called, the cached history by both.
Mixed ==
    [c \in Calls |-> IF c = c1 THEN {"order.status", "klinesCached"}
                               ELSE AllMethods \ {"order.status"}]

Queries == [c \in Calls |-> {"order.status"}]
Placements == [c \in Calls |-> {"order.place"}]
Histories == [c \in Calls |-> {"klinesCached"}]
=============================================================================
