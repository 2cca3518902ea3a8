---------------------------- MODULE MCSwapSearch ----------------------------
(***************************************************************************)
(* An instance of SwapSearch for TLC: SOL with pairs for one chain of each *)
(* kind, SOL > ETH > GBP > SOL (SSB), SOL > GBP > ETH > SOL (SBB) and      *)
(* SOL > ETH > ABC > SOL (SBS).  Prices are in ticks.                      *)
(***************************************************************************)
EXTENDS SwapSearch

MCTraded == { <<"SOL", "USDT">>, <<"SOL", "ETH">>, <<"SOL", "GBP">>, <<"ETH", "GBP">>,
              <<"ABC", "USDT">>, <<"ABC", "ETH">>, <<"ABC", "SOL">>, <<"ETH", "USDT">> }
MCLimits == { <<"SOL", "USDT">>, <<"ABC", "USDT">>, <<"ETH", "USDT">> }
MCKnown == { <<"SOL", "ETH">>, <<"SOL", "GBP">>, <<"ETH", "GBP">>, <<"ABC", "ETH">> }
MCSupported == {"ETH", "GBP", "SOL"}

Show(buy, sell, up, down) == [buy |-> buy, sell |-> sell, up |-> up, down |-> down]

MCQuotesOf ==
    [s \in MCTraded |->
       CASE s = <<"SOL", "ETH">> -> { Show(50, 51, FALSE, TRUE), Show(70, 71, FALSE, TRUE) }
         [] s = <<"SOL", "GBP">> -> { Show(80, 82, TRUE, TRUE) }
         [] s = <<"ETH", "GBP">> -> { Show(10, 12, TRUE, TRUE), Show(48, 50, TRUE, FALSE) }
         [] s = <<"ABC", "ETH">> -> { Show(30, 31, FALSE, TRUE) }
         [] s = <<"ABC", "SOL">> -> { Show(-2, -1, TRUE, FALSE) }
         [] OTHER -> {}]
=============================================================================
