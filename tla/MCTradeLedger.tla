--------------------------- MODULE MCTradeLedger ---------------------------
(***************************************************************************)
(* Instances of TradeLedger for TLC.  The ids are model values that only   *)
(* differ from each other; so are the pollers.                             *)
(***************************************************************************)
EXTENDS TradeLedger, TLC

Symmetry ==
    Permutations(OrderIds) \cup Permutations(PositionIds) \cup Permutations(Pollers)
=============================================================================
