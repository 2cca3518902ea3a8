-------------------------- MODULE SwapSearchProofs --------------------------
(***************************************************************************)
(* Theorems about SwapSearch, for any symbols, prices, fee and limits: the *)
(* saved chains are cycles, the greatest percent of a chain covers the     *)
(* current one, and a swap is made only from a row that says the required  *)
(* percent and of legs offered with a margin.                              *)
(*                                                                         *)
(* A finder works on prices it reads, a searching goroutine carries the    *)
(* chain from one request to the next, table `swap_chain` keeps it while   *)
(* other goroutines write the same rows, and the trader checks a list it   *)
(* has read before.  The inductive invariant follows a chain along this    *)
(* way: what is true of the legs when they are found (Sound) is true of    *)
(* every record that carries them, and stays true when goroutines that     *)
(* write the same row exchange its legs one by one (Exchanged): its hash   *)
(* fixes the symbol and the operation of each.                             *)
(***************************************************************************)
EXTENDS SwapSearch, FiniteSetTheorems, TLAPS

Quotes == [buy : Int, sell : Int, up : BOOLEAN, down : BOOLEAN]
Pairs == [quote : Quotes \cup {None}, age : Int]
Legs == [type : {"SBB", "SBS", "SSB"}, symbol : Traded, operation : {"SELL", "BUY"},
         price : Int, seen : Quotes]
Chains == Legs \X Legs \X Legs
Rows == [legs : Chains, percent : Int, age : Int, id : {0, 1}, max : Int]
Offers == [legs : Chains, percent : Int]

\* What a finder does of the pairs it goes through
Operations == [SBB |-> <<"SELL", "BUY", "BUY">>, SBS |-> <<"SELL", "BUY", "SELL">>,
               SSB |-> <<"SELL", "SELL", "BUY">>]

\* A leg is offered at a price worse than the book's.
LeavesMargin(leg) ==
    IF leg.operation = "SELL" THEN leg.price < leg.seen.sell ELSE leg.seen.buy < leg.price

\* What holds of the legs of a chain a finder returns
Sound(legs) ==
    /\ legs \in Chains
    /\ IsCycle(legs)
    /\ legs[1].symbol # legs[2].symbol
    /\ legs[1].symbol # legs[3].symbol
    /\ legs[2].symbol # legs[3].symbol
    /\ LeavesMargin(legs[1]) /\ LeavesMargin(legs[2]) /\ LeavesMargin(legs[3])
    /\ legs[1].operation = Operations[legs[1].type][1]
    /\ legs[2].operation = Operations[legs[1].type][2]
    /\ legs[3].operation = Operations[legs[1].type][3]

\* ... of a row made of them, whoever wrote the rest of it
SoundRow(row) ==
    /\ row \in Rows
    /\ Sound(row.legs)
    /\ Threshold <= row.percent
    /\ row.percent <= row.max

\* ... and of what the trader takes of it
SoundOffer(row) == row \in Offers /\ Sound(row.legs)

PairsSound == pairs \in [Traded -> Pairs \cup {None}]

SearcherStates ==
    [pc : {"boot", "idle", "find", "read", "transition", "row", "cache"}, kind : 1..3,
     chain : Chains \cup {None}, row : Rows \cup {None}, leg : 1..3]

Carries(state) ==
    /\ state.pc = "read" => Sound(state.chain) /\ Threshold <= ProfitOf(state.chain)
    /\ state.pc \in {"transition", "row"} => SoundRow(state.row)

SearchersSound ==
    /\ searcher \in [Searchers -> SearcherStates]
    /\ \A g \in Searchers : Carries(searcher[g])

ChainsSound ==
    /\ chains = [h \in DOMAIN chains |-> chains[h]]
    /\ \A h \in DOMAIN chains : SoundRow(chains[h]) /\ HashOf(chains[h].legs) = h

Lists == SUBSET Offers
TraderStates ==
    [pc : {"idle", "invalidate", "next", "validate", "make"}, rows : Lists,
     row : Offers \cup {None}, leg : 1..3, read : Seq(Quotes)]

TraderSound ==
    /\ trader \in TraderStates
    /\ \A row \in trader.rows : SoundOffer(row)
    /\ trader.pc \in {"validate", "make"} =>
         SoundOffer(trader.row) /\ MinPercent <= trader.row.percent

MadeSound == made # None => SoundOffer(made.row) /\ MinPercent <= made.row.percent

\* The inductive invariant
SearchSound == PairsSound /\ SearchersSound /\ ChainsSound /\ TraderSound /\ MadeSound

-----------------------------------------------------------------------------
(***************************************************************************)
(* Legs and rows.                                                          *)
(***************************************************************************)
\* An option has a row with a price.
LEMMA OptionPriced ==
    ASSUME PairsSound, NEW s \in Options
    PROVE  s \in Traded /\ pairs[s] \in Pairs /\ pairs[s].quote \in Quotes
BY DEF PairsSound, Options, Priced, Pairs

\* A sale is offered below the book's price, a purchase above it.
LEMMA SellLeg ==
    ASSUME PairsSound, NEW s \in Options, NEW kind \in {"SBB", "SBS", "SSB"},
           NEW margin \in {2, 10}
    PROVE  /\ Sell(kind, s, margin) \in Legs
           /\ Sell(kind, s, margin).symbol = s
           /\ Sell(kind, s, margin).type = kind
           /\ Sell(kind, s, margin).operation = "SELL"
           /\ LeavesMargin(Sell(kind, s, margin))
BY OptionPriced DEF Sell, Legs, LeavesMargin, Quotes

LEMMA BuyLeg ==
    ASSUME PairsSound, NEW s \in Options, NEW kind \in {"SBB", "SBS", "SSB"},
           NEW margin \in {2, 10}
    PROVE  /\ Buy(kind, s, margin) \in Legs
           /\ Buy(kind, s, margin).symbol = s
           /\ Buy(kind, s, margin).type = kind
           /\ Buy(kind, s, margin).operation = "BUY"
           /\ LeavesMargin(Buy(kind, s, margin))
BY OptionPriced DEF Buy, Legs, LeavesMargin, Quotes

\* A sale of the base leaves its quote, a purchase for the quote leaves the base.
LEMMA SaleLeaves ==
    ASSUME NEW held, NEW leg, leg.operation = "SELL", held = Base(leg.symbol)
    PROVE  AfterLeg(held, leg) = Quote(leg.symbol)
BY DEF AfterLeg

LEMMA PurchaseLeaves ==
    ASSUME NEW held, NEW leg, leg.operation = "BUY", held = Quote(leg.symbol)
    PROVE  AfterLeg(held, leg) = Base(leg.symbol)
BY DEF AfterLeg

-----------------------------------------------------------------------------
(***************************************************************************)
(* The finders.                                                            *)
(***************************************************************************)
\* Sell the asset, sell what it brought, buy the asset back: a chain of finder SSB.
LEMMA SSBSound ==
    ASSUME PairsSound, NEW c \in SSBChains(Asset)
    PROVE  Sound(c)
<1>1. PICK t \in GetSwapPairsByBaseAsset(Asset) \X Options \X GetSwapPairsByBaseAsset(Asset) :
           /\ Base(t[2]) = Quote(t[1]) /\ Quote(t[3]) = Quote(t[2])
           /\ c = <<Sell("SSB", t[1], 2), Sell("SSB", t[2], 2), Buy("SSB", t[3], 10)>>
    BY DEF SSBChains
<1>2. /\ t[1] \in Options /\ t[2] \in Options /\ t[3] \in Options
      /\ Base(t[1]) = Asset /\ Base(t[3]) = Asset
    BY DEF GetSwapPairsByBaseAsset
<1>3. /\ c[1] = Sell("SSB", t[1], 2) /\ c[2] = Sell("SSB", t[2], 2)
      /\ c[3] = Buy("SSB", t[3], 10)
    BY <1>1
<1>4. /\ c[1] \in Legs /\ c[1].symbol = t[1] /\ c[1].operation = "SELL" /\ LeavesMargin(c[1])
      /\ c[2] \in Legs /\ c[2].symbol = t[2] /\ c[2].operation = "SELL" /\ LeavesMargin(c[2])
    BY <1>2, <1>3, SellLeg
<1>5. c[3] \in Legs /\ c[3].symbol = t[3] /\ c[3].operation = "BUY" /\ LeavesMargin(c[3])
    BY <1>2, <1>3, BuyLeg
<1>6. c \in Chains
    BY <1>1, <1>3, <1>4, <1>5 DEF Chains
<1>7. IsCycle(c)
  <2>1. AfterLeg(Asset, c[1]) = Quote(t[1])
      BY <1>2, <1>4, SaleLeaves
  <2>2. AfterLeg(Quote(t[1]), c[2]) = Quote(t[2])
      BY <1>1, <1>4, SaleLeaves
  <2>3. AfterLeg(Quote(t[2]), c[3]) = Asset
      BY <1>1, <1>2, <1>5, PurchaseLeaves
  <2>4. QED
      BY <2>1, <2>2, <2>3 DEF IsCycle
<1>8. \A s \in {t[1], t[2], t[3]} : Base(s) # Quote(s)
    BY <1>2, OptionPriced, SearchAssumption DEF Base, Quote
<1>9. t[1] # t[2] /\ t[1] # t[3] /\ t[2] # t[3]
    BY <1>1, <1>2, <1>8
<1>10. c[1].type = "SSB"
    BY <1>2, <1>3, SellLeg
<1>11. QED
    BY <1>10, <1>4, <1>5, <1>6, <1>7, <1>9 DEF Sound, Operations

\* Sell the asset, buy another with what it brought, buy the asset back: SBB.
LEMMA SBBSound ==
    ASSUME PairsSound, NEW c \in SBBChains(Asset)
    PROVE  Sound(c)
<1>1. PICK t \in GetSwapPairsByBaseAsset(Asset) \X Options \X GetSwapPairsByBaseAsset(Asset) :
           /\ Quote(t[2]) = Quote(t[1]) /\ Base(t[2]) # Asset
           /\ Quote(t[3]) = Base(t[2])
           /\ c = <<Sell("SBB", t[1], 2), Buy("SBB", t[2], 2), Buy("SBB", t[3], 10)>>
    BY DEF SBBChains
<1>2. /\ t[1] \in Options /\ t[2] \in Options /\ t[3] \in Options
      /\ Base(t[1]) = Asset /\ Quote(t[2]) = Quote(t[1]) /\ Base(t[3]) = Asset
    BY <1>1 DEF GetSwapPairsByBaseAsset, GetSwapPairsByQuoteAsset
<1>3. /\ c[1] = Sell("SBB", t[1], 2) /\ c[2] = Buy("SBB", t[2], 2)
      /\ c[3] = Buy("SBB", t[3], 10)
    BY <1>1
<1>4. c[1] \in Legs /\ c[1].symbol = t[1] /\ c[1].operation = "SELL" /\ LeavesMargin(c[1])
    BY <1>2, <1>3, SellLeg
<1>5. /\ c[2] \in Legs /\ c[2].symbol = t[2] /\ c[2].operation = "BUY" /\ LeavesMargin(c[2])
      /\ c[3] \in Legs /\ c[3].symbol = t[3] /\ c[3].operation = "BUY" /\ LeavesMargin(c[3])
    BY <1>2, <1>3, BuyLeg
<1>6. c \in Chains
    BY <1>1, <1>3, <1>4, <1>5 DEF Chains
<1>7. IsCycle(c)
  <2>1. AfterLeg(Asset, c[1]) = Quote(t[1])
      BY <1>2, <1>4, SaleLeaves
  <2>2. AfterLeg(Quote(t[1]), c[2]) = Base(t[2])
      BY <1>2, <1>5, PurchaseLeaves
  <2>3. AfterLeg(Base(t[2]), c[3]) = Asset
      BY <1>1, <1>2, <1>5, PurchaseLeaves
  <2>4. QED
      BY <2>1, <2>2, <2>3 DEF IsCycle
<1>8. \A s \in {t[1], t[2], t[3]} : Base(s) # Quote(s)
    BY <1>2, OptionPriced, SearchAssumption DEF Base, Quote
<1>9. t[1] # t[2] /\ t[1] # t[3] /\ t[2] # t[3]
    BY <1>1, <1>2, <1>8
<1>10. c[1].type = "SBB"
    BY <1>2, <1>3, SellLeg
<1>11. QED
    BY <1>10, <1>4, <1>5, <1>6, <1>7, <1>9 DEF Sound, Operations

\* Sell the asset, buy another with what it brought, sell that for the asset: SBS.
LEMMA SBSSound ==
    ASSUME PairsSound, NEW c \in SBSChains(Asset)
    PROVE  Sound(c)
<1>1. PICK t \in GetSwapPairsByBaseAsset(Asset) \X Options \X GetSwapPairsByQuoteAsset(Asset) :
           /\ Quote(t[2]) = Quote(t[1]) /\ Base(t[2]) # Asset
           /\ Base(t[3]) = Base(t[2])
           /\ c = <<Sell("SBS", t[1], 2), Buy("SBS", t[2], 2), Sell("SBS", t[3], 10)>>
    BY DEF SBSChains
<1>2. /\ t[1] \in Options /\ t[2] \in Options /\ t[3] \in Options
      /\ Base(t[1]) = Asset /\ Quote(t[2]) = Quote(t[1]) /\ Quote(t[3]) = Asset
    BY <1>1 DEF GetSwapPairsByBaseAsset, GetSwapPairsByQuoteAsset
<1>3. /\ c[1] = Sell("SBS", t[1], 2) /\ c[2] = Buy("SBS", t[2], 2)
      /\ c[3] = Sell("SBS", t[3], 10)
    BY <1>1
<1>4. /\ c[1] \in Legs /\ c[1].symbol = t[1] /\ c[1].operation = "SELL" /\ LeavesMargin(c[1])
      /\ c[3] \in Legs /\ c[3].symbol = t[3] /\ c[3].operation = "SELL" /\ LeavesMargin(c[3])
    BY <1>2, <1>3, SellLeg
<1>5. c[2] \in Legs /\ c[2].symbol = t[2] /\ c[2].operation = "BUY" /\ LeavesMargin(c[2])
    BY <1>2, <1>3, BuyLeg
<1>6. c \in Chains
    BY <1>1, <1>3, <1>4, <1>5 DEF Chains
<1>7. IsCycle(c)
  <2>1. AfterLeg(Asset, c[1]) = Quote(t[1])
      BY <1>2, <1>4, SaleLeaves
  <2>2. AfterLeg(Quote(t[1]), c[2]) = Base(t[2])
      BY <1>2, <1>5, PurchaseLeaves
  <2>3. AfterLeg(Base(t[2]), c[3]) = Asset
      BY <1>1, <1>2, <1>4, SaleLeaves
  <2>4. QED
      BY <2>1, <2>2, <2>3 DEF IsCycle
<1>8. \A s \in {t[1], t[2], t[3]} : Base(s) # Quote(s)
    BY <1>2, OptionPriced, SearchAssumption DEF Base, Quote
<1>9. t[1] # t[2] /\ t[1] # t[3] /\ t[2] # t[3]
    BY <1>1, <1>2, <1>8
<1>10. c[1].type = "SBS"
    BY <1>2, <1>3, SellLeg
<1>11. QED
    BY <1>10, <1>4, <1>5, <1>6, <1>7, <1>9 DEF Sound, Operations

\* Whatever a search finds is sound: it is one of the chains of its finder.
LEMMA FoundSound ==
    ASSUME PairsSound, NEW k \in 1..3, NEW c \in BestChains(Kinds[k])
    PROVE  Sound(c)
<1>1. Kinds[k] \in {"SBB", "SBS", "SSB"}
    BY DEF Kinds
<1>2. c \in ChainsOf(Kinds[k])
    BY DEF BestChains
<1>3. CASE Kinds[k] = "SBB"
    BY <1>2, <1>3, SBBSound DEF ChainsOf
<1>4. CASE Kinds[k] = "SBS"
    BY <1>2, <1>4, SBSSound DEF ChainsOf
<1>5. CASE Kinds[k] = "SSB"
    BY <1>2, <1>5, SSBSound DEF ChainsOf
<1>6. QED
    BY <1>1, <1>3, <1>4, <1>5

\* A rounded percent is a number.
LEMMA FixedIsNumber ==
    ASSUME NEW x \in Int
    PROVE  ToFixed(x) \in Int
<1>1. Cent \in Int /\ 2 * Cent \in Nat \ {0}
    BY SearchAssumption
<1>2. \A n \in Int : n \div (2 * Cent) \in Int
  <2> DEFINE d == 2 * Cent
  <2>1. d \in Nat \ {0}
      BY <1>1
  <2> HIDE DEF d
  <2>2. \A n \in Int : n \div d \in Int
      BY <2>1
  <2>3. QED
      BY <2>2 DEF d
<1>3. 2 * x + Cent \in Int /\ 2 * (-x) + Cent \in Int
    BY <1>1
<1> DEFINE up == (2 * x + Cent) \div (2 * Cent)
           down == (2 * (-x) + Cent) \div (2 * Cent)
<1>4. up \in Int /\ down \in Int
    BY <1>2, <1>3
<1>5. ToFixed(x) = IF x >= 0 THEN Cent * up ELSE -(Cent * down)
    BY DEF ToFixed
<1> HIDE DEF up, down
<1>6. QED
    BY <1>1, <1>4, <1>5

\* So is the percent of a chain.
LEMMA ProfitIsNumber ==
    ASSUME NEW legs \in Chains
    PROVE  ProfitOf(legs) \in Int
<1>1. Fee \in Int
    BY SearchAssumption
<1>2. legs[1] \in Legs /\ legs[2] \in Legs /\ legs[3] \in Legs
    BY DEF Chains
<1>3. ASSUME NEW leg \in Legs, NEW amount \in Int
      PROVE  Traverse(amount, leg) \in Int
    BY <1>1 DEF Legs, Traverse
<1>4. Traverse(Traverse(Traverse(0, legs[1]), legs[2]), legs[3]) \in Int
  <2>1. Traverse(0, legs[1]) \in Int
      BY <1>2, <1>3
  <2>2. Traverse(Traverse(0, legs[1]), legs[2]) \in Int
      BY <1>2, <1>3, <2>1
  <2>3. QED
      BY <1>2, <1>3, <2>2
<1>5. QED
    BY <1>4, FixedIsNumber DEF ProfitOf

\* Two chains of one hash go through the same pairs in the same way: a leg of one in
\* the place of the other's leaves a sound chain of that hash.
LEMMA Exchanged ==
    ASSUME NEW legs, NEW other, Sound(legs), Sound(other), HashOf(legs) = HashOf(other),
           NEW i \in 1..3
    PROVE  Sound([legs EXCEPT ![i] = other[i]]) /\ HashOf([legs EXCEPT ![i] = other[i]]) = HashOf(legs)
<1> DEFINE mixed == [legs EXCEPT ![i] = other[i]]
<1>1. /\ legs[1] \in Legs /\ legs[2] \in Legs /\ legs[3] \in Legs
      /\ other[1] \in Legs /\ other[2] \in Legs /\ other[3] \in Legs
    BY DEF Sound, Chains
<1>2. /\ legs[1].type = other[1].type /\ legs[1].symbol = other[1].symbol
      /\ legs[2].symbol = other[2].symbol /\ legs[3].symbol = other[3].symbol
    BY DEF HashOf
<1>3. /\ legs[1].operation = other[1].operation /\ legs[2].operation = other[2].operation
      /\ legs[3].operation = other[3].operation
    BY <1>2 DEF Sound
<1>4. /\ mixed[1] \in {legs[1], other[1]} /\ mixed[2] \in {legs[2], other[2]}
      /\ mixed[3] \in {legs[3], other[3]} /\ mixed \in Chains
  <2>1. legs = <<legs[1], legs[2], legs[3]>>
      BY DEF Sound, Chains
  <2>2. CASE i = 1
    <3>1. mixed = <<other[1], legs[2], legs[3]>>
        BY <2>1, <2>2
    <3> HIDE DEF mixed
    <3>2. QED
        BY <1>1, <3>1 DEF Chains
  <2>3. CASE i = 2
    <3>1. mixed = <<legs[1], other[2], legs[3]>>
        BY <2>1, <2>3
    <3> HIDE DEF mixed
    <3>2. QED
        BY <1>1, <3>1 DEF Chains
  <2>4. CASE i = 3
    <3>1. mixed = <<legs[1], legs[2], other[3]>>
        BY <2>1, <2>4
    <3> HIDE DEF mixed
    <3>2. QED
        BY <1>1, <3>1 DEF Chains
  <2>5. QED
      BY <2>2, <2>3, <2>4
<1> HIDE DEF mixed
<1>5. /\ mixed[1].type = legs[1].type /\ mixed[1].symbol = legs[1].symbol
      /\ mixed[2].symbol = legs[2].symbol /\ mixed[3].symbol = legs[3].symbol
      /\ mixed[1].operation = legs[1].operation /\ mixed[2].operation = legs[2].operation
      /\ mixed[3].operation = legs[3].operation
    BY <1>2, <1>3, <1>4
<1>6. LeavesMargin(mixed[1]) /\ LeavesMargin(mixed[2]) /\ LeavesMargin(mixed[3])
    BY <1>4 DEF Sound
<1>7. IsCycle(mixed)
  <2>1. \A held : /\ AfterLeg(held, mixed[1]) = AfterLeg(held, legs[1])
                  /\ AfterLeg(held, mixed[2]) = AfterLeg(held, legs[2])
                  /\ AfterLeg(held, mixed[3]) = AfterLeg(held, legs[3])
      BY <1>5 DEF AfterLeg
  <2>2. IsCycle(legs)
      BY DEF Sound
  <2>3. QED
      BY <2>1, <2>2 DEF IsCycle
<1>8. Sound(mixed)
    BY <1>4, <1>5, <1>6, <1>7 DEF Sound
<1>9. HashOf(mixed) = HashOf(legs)
    BY <1>5 DEF HashOf
<1>10. QED
    BY <1>8, <1>9 DEF mixed

-----------------------------------------------------------------------------
(***************************************************************************)
(* The initial state and the steps.                                        *)
(***************************************************************************)
\* A searching goroutine's step leaves the others where they are.
LEMMA OneSearcher ==
    ASSUME SearchersSound, NEW g \in Searchers, NEW state \in SearcherStates, Carries(state),
           searcher' = [searcher EXCEPT ![g] = state]
    PROVE  SearchersSound'
<1>1. /\ searcher' \in [Searchers -> SearcherStates]
      /\ searcher'[g] = state
      /\ \A h \in Searchers : h # g => searcher'[h] = searcher[h]
    BY DEF SearchersSound
<1>2. \A h \in Searchers : Carries(searcher'[h])
    BY <1>1 DEF SearchersSound
<1>3. QED
    BY <1>1, <1>2 DEF SearchersSound, Carries

\* A goroutine between two chains carries nothing.
LEMMA RestingCarries ==
    /\ Resting \in SearcherStates /\ Carries(Resting)
    /\ \A pc \in {"boot", "find", "cache"}, k \in 1..3 :
         At(pc, k) \in SearcherStates /\ Carries(At(pc, k))
<1>1. \A pc \in {"boot", "idle", "find", "cache"}, k \in 1..3 :
        At(pc, k) \in SearcherStates /\ At(pc, k).pc = pc
    BY DEF At, SearcherStates
<1>2. Resting \in SearcherStates /\ Resting.pc = "idle"
    BY <1>1 DEF Resting
<1>3. QED
    BY <1>1, <1>2 DEF Carries

LEMMA NextKindSound ==
    ASSUME SearchersSound, NEW g \in Searchers, NextKind(g)
    PROVE  SearchersSound'
<1>1. searcher[g].kind \in 1..3
    BY DEF SearchersSound, SearcherStates
<1>2. CASE searcher[g].kind = Len(Kinds)
    BY <1>2, RestingCarries, OneSearcher DEF NextKind
<1>3. CASE searcher[g].kind # Len(Kinds)
  <2>1. searcher[g].kind + 1 \in 1..3
      BY <1>1, <1>3 DEF Kinds
  <2>2. QED
      BY <1>3, <2>1, RestingCarries, OneSearcher DEF NextKind
<1>4. QED
    BY <1>2, <1>3

LEMMA InitSound == Init => SearchSound
<1> SUFFICES ASSUME Init PROVE SearchSound
    OBVIOUS
<1>1. PairsSound
  <2>1. PICK quote \in [Known -> UNION { QuotesOf[s] : s \in Known }] :
            /\ \A s \in Known : quote[s] \in QuotesOf[s]
            /\ pairs = [s \in Traded |->
                          IF s \in Known THEN [quote |-> quote[s], age |-> 1] ELSE None]
      BY DEF Init
  <2>2. \A s \in Known : quote[s] \in Quotes
      BY <2>1, SearchAssumption DEF Quotes
  <2>3. QED
      BY <2>1, <2>2 DEF PairsSound, Pairs
<1>2. SearchersSound
  <2>1. At("boot", 1) \in SearcherStates /\ Carries(At("boot", 1))
      BY RestingCarries
  <2>2. QED
      BY <2>1 DEF Init, SearchersSound
<1>3. ChainsSound
    BY DEF Init, ChainsSound
<1>4. TraderSound /\ MadeSound
    BY DEF Init, TraderSound, MadeSound, Untried, TraderStates, Lists
<1>5. QED
    BY <1>1, <1>2, <1>3, <1>4 DEF SearchSound

\* Time changes only ages.
LEMMA OlderSound ==
    ASSUME NEW n \in Nat
    PROVE  /\ \A pair \in Pairs : Older(pair, n) \in Pairs
           /\ \A row \in Rows : Older(row, n) \in Rows
           /\ \A row : SoundRow(row) => SoundRow(Older(row, n)) /\ Older(row, n).legs = row.legs
<1>1. ASSUME NEW pair \in Pairs PROVE Older(pair, n) \in Pairs
    BY DEF Older, Pairs
<1>2. ASSUME NEW row \in Rows
      PROVE  /\ Older(row, n) \in Rows
             /\ Older(row, n).legs = row.legs
             /\ Older(row, n).percent = row.percent
             /\ Older(row, n).max = row.max
    BY DEF Older, Rows
<1>3. ASSUME NEW row, SoundRow(row)
      PROVE  SoundRow(Older(row, n)) /\ Older(row, n).legs = row.legs
    BY <1>2, <1>3 DEF SoundRow
<1>4. QED
    BY <1>1, <1>2, <1>3

LEMMA UpdateSwapPairsSound ==
    ASSUME SearchSound, UpdateSwapPairs
    PROVE  SearchSound'
<1>1. PairsSound'
  <2>1. PICK wanted \in {Wanted, {}} :
            pairs' = [s \in Traded |->
                        IF s \in wanted /\ pairs[s] = None THEN NewPair ELSE pairs[s]]
      BY DEF UpdateSwapPairs
  <2>2. NewPair \in Pairs
      BY DEF NewPair, Pairs
  <2>3. QED
      BY <2>1, <2>2 DEF SearchSound, PairsSound
<1>2. SearchersSound'
  <2>1. \A g \in Searchers : searcher'[g] = Resting
      BY DEF UpdateSwapPairs
  <2>2. searcher' \in [Searchers -> SearcherStates]
      BY RestingCarries DEF UpdateSwapPairs
  <2>3. QED
      BY <2>1, <2>2, RestingCarries DEF SearchersSound, Carries
<1>3. ChainsSound' /\ TraderSound' /\ MadeSound'
    BY DEF UpdateSwapPairs, SearchSound, ChainsSound, TraderSound, MadeSound
<1>4. QED
    BY <1>1, <1>2, <1>3 DEF SearchSound

LEMMA UpdateSwapPairSound ==
    ASSUME SearchSound, NEW s \in Traded, UpdateSwapPair(s)
    PROVE  SearchSound'
<1>1. PairsSound'
  <2>1. PICK q \in QuotesOf[s] : pairs' = [pairs EXCEPT ![s] = [quote |-> q, age |-> 0]]
      BY DEF UpdateSwapPair
  <2>2. [quote |-> q, age |-> 0] \in Pairs
      BY SearchAssumption DEF Pairs, Quotes
  <2>3. QED
      BY <2>1, <2>2 DEF SearchSound, PairsSound
<1>2. SearchersSound'
  <2>1. CASE UNCHANGED searcher
      BY <2>1 DEF SearchSound, SearchersSound, Carries
  <2>2. ASSUME NEW g \in Streams, searcher' = [searcher EXCEPT ![g].pc = "find"]
        PROVE  SearchersSound'
    <3> DEFINE state == [searcher[g] EXCEPT !.pc = "find"]
    <3>1. g \in Searchers /\ SearchersSound
        BY DEF Searchers, SearchSound
    <3>2. searcher[g] \in SearcherStates
        BY <3>1 DEF SearchersSound
    <3>3. state \in SearcherStates /\ state.pc = "find"
        BY <3>2 DEF SearcherStates
    <3>4. searcher' = [searcher EXCEPT ![g] = state]
        BY <2>2
    <3> HIDE DEF state
    <3>5. Carries(state)
        BY <3>3 DEF Carries
    <3>6. QED
        BY <3>1, <3>3, <3>4, <3>5, OneSearcher
  <2>3. QED
      BY <2>1, <2>2 DEF UpdateSwapPair
<1>3. ChainsSound' /\ TraderSound' /\ MadeSound'
    BY DEF UpdateSwapPair, SearchSound, ChainsSound, TraderSound, MadeSound
<1>4. QED
    BY <1>1, <1>2, <1>3 DEF SearchSound

LEMMA TickSound ==
    ASSUME SearchSound, Tick
    PROVE  SearchSound'
<1> PICK n \in Lapses :
      /\ pairs' = [s \in Traded |-> IF pairs[s] = None THEN None ELSE Older(pairs[s], n)]
      /\ chains' = [h \in DOMAIN chains |-> Older(chains[h], n)]
      /\ searcher' = [g \in Searchers |->
                        IF searcher[g].row = None THEN searcher[g]
                        ELSE [searcher[g] EXCEPT !.row = Older(@, n)]]
    BY DEF Tick
<1>1. n \in Nat
    BY SearchAssumption
<1>2. PairsSound'
  <2>1. \A s \in Traded : pairs[s] # None => Older(pairs[s], n) \in Pairs
      BY <1>1, OlderSound DEF SearchSound, PairsSound
  <2>2. QED
      BY <2>1 DEF PairsSound
<1>3. SearchersSound'
  <2>1. ASSUME NEW g \in Searchers
        PROVE  searcher'[g] \in SearcherStates /\ Carries(searcher'[g])
    <3>1. searcher[g] \in SearcherStates /\ Carries(searcher[g])
        BY DEF SearchSound, SearchersSound
    <3>2. CASE searcher[g].row = None
        BY <3>1, <3>2
    <3>3. CASE searcher[g].row # None
      <4> DEFINE row == Older(searcher[g].row, n)
      <4>1. searcher[g].row \in Rows
          BY <3>1, <3>3 DEF SearcherStates
      <4>2. row \in Rows /\ (SoundRow(searcher[g].row) => SoundRow(row))
          BY <1>1, <4>1, OlderSound
      <4>3. searcher'[g] = [searcher[g] EXCEPT !.row = row]
          BY <3>3
      <4> HIDE DEF row
      <4>4. /\ searcher'[g] \in SearcherStates
            /\ searcher'[g].pc = searcher[g].pc /\ searcher'[g].chain = searcher[g].chain
            /\ searcher'[g].row = row
          BY <3>1, <4>2, <4>3 DEF SearcherStates
      <4>5. QED
          BY <3>1, <4>2, <4>4 DEF Carries
    <3>4. QED
        BY <3>2, <3>3
  <2>2. searcher' = [g \in Searchers |-> searcher'[g]]
      OBVIOUS
  <2>3. searcher' \in [Searchers -> SearcherStates]
      BY <2>1, <2>2
  <2>4. QED
      BY <2>1, <2>3 DEF SearchersSound, Carries
<1>4. ChainsSound'
  <2>1. \A h \in DOMAIN chains : SoundRow(chains'[h]) /\ HashOf(chains'[h].legs) = h
      BY <1>1, OlderSound DEF SearchSound, ChainsSound
  <2>2. QED
      BY <2>1 DEF ChainsSound
<1>5. TraderSound' /\ MadeSound'
    BY DEF Tick, SearchSound, TraderSound, MadeSound
<1>6. QED
    BY <1>2, <1>3, <1>4, <1>5 DEF SearchSound

LEMMA CalculateSwapOptionsSound ==
    ASSUME SearchSound, CalculateSwapOptions
    PROVE  SearchSound'
<1> DEFINE state == [searcher[Loop] EXCEPT !.pc = "find"]
<1>1. Loop \in Searchers /\ SearchersSound
    BY DEF Searchers, SearchSound
<1>2. searcher[Loop] \in SearcherStates
    BY <1>1 DEF SearchersSound
<1>3. state \in SearcherStates /\ state.pc = "find"
    BY <1>2 DEF SearcherStates
<1>4. searcher' = [searcher EXCEPT ![Loop] = state]
    BY DEF CalculateSwapOptions
<1> HIDE DEF state
<1>5. SearchersSound'
    BY <1>1, <1>3, <1>4, OneSearcher DEF Carries
<1>6. PairsSound' /\ ChainsSound' /\ TraderSound' /\ MadeSound'
    BY DEF CalculateSwapOptions, SearchSound, PairsSound, ChainsSound, TraderSound, MadeSound
<1>7. QED
    BY <1>5, <1>6 DEF SearchSound

LEMMA FindSound ==
    ASSUME SearchSound, NEW g \in Searchers, Find(g)
    PROVE  SearchSound'
<1>1. SearchersSound /\ PairsSound /\ searcher[g] \in SearcherStates
    BY DEF SearchSound, SearchersSound
<1>2. ASSUME NEW c \in BestChains(Kinds[searcher[g].kind]), ProfitOf(c) >= Threshold,
             searcher' = [searcher EXCEPT ![g].pc = "read", ![g].chain = c]
      PROVE  SearchersSound'
  <2> DEFINE state == [searcher[g] EXCEPT !.pc = "read", !.chain = c]
  <2>1. Sound(c)
      BY <1>1, FoundSound DEF SearcherStates
  <2>2. c \in Chains /\ ProfitOf(c) \in Int /\ Threshold \in Int
      BY <2>1, ProfitIsNumber, SearchAssumption DEF Sound
  <2>3. state \in SearcherStates /\ state.pc = "read" /\ state.chain = c
      BY <1>1, <2>2 DEF SearcherStates
  <2>4. searcher' = [searcher EXCEPT ![g] = state]
      BY <1>1, <1>2 DEF SearchersSound
  <2> HIDE DEF state
  <2>5. Carries(state)
      BY <1>2, <2>1, <2>2, <2>3 DEF Carries
  <2>6. QED
      BY <1>1, <2>3, <2>4, <2>5, OneSearcher
<1>3. SearchersSound'
    BY <1>1, <1>2, NextKindSound DEF Find
<1>4. PairsSound' /\ ChainsSound' /\ TraderSound' /\ MadeSound'
    BY DEF Find, SearchSound, PairsSound, ChainsSound, TraderSound, MadeSound
<1>5. QED
    BY <1>3, <1>4 DEF SearchSound

\* The row made of a found chain, on the row the table has of it or on none
LEMMA BuiltSound ==
    ASSUME NEW legs, Sound(legs), Threshold <= ProfitOf(legs),
           NEW found, found # None => SoundRow(found)
    PROVE  SoundRow(BuildEntity(legs, found))
<1>1. legs \in Chains /\ ProfitOf(legs) \in Int
    BY ProfitIsNumber DEF Sound
<1>2. CASE found = None
    BY <1>1, <1>2 DEF BuildEntity, SoundRow, Rows
<1>3. CASE found # None
  <2>1. found.max \in Int
      BY <1>3 DEF SoundRow, Rows
  <2>2. /\ Greater(found.max, ProfitOf(legs)) \in Int
        /\ ProfitOf(legs) <= Greater(found.max, ProfitOf(legs))
      BY <1>1, <2>1 DEF Greater
  <2>3. QED
      BY <1>1, <1>3, <2>2 DEF BuildEntity, SoundRow, Rows
<1>4. QED
    BY <1>2, <1>3

LEMMA ReadChainSound ==
    ASSUME SearchSound, NEW g \in Searchers, ReadChain(g)
    PROVE  SearchSound'
<1> DEFINE found == GetSwapChain(HashOf(searcher[g].chain))
           row == BuildEntity(searcher[g].chain, found)
           pc == IF found = None THEN "row" ELSE "transition"
           state == [searcher[g] EXCEPT !.pc = pc, !.row = row]
<1>1. SearchersSound /\ searcher[g] \in SearcherStates
    BY DEF SearchSound, SearchersSound
<1>2. Sound(searcher[g].chain) /\ Threshold <= ProfitOf(searcher[g].chain)
    BY <1>1 DEF ReadChain, SearchersSound, Carries
<1>3. found # None => SoundRow(found)
    BY DEF SearchSound, ChainsSound, GetSwapChain
<1>4. SoundRow(row)
  <2> HIDE DEF found
  <2>1. QED
      BY <1>2, <1>3, BuiltSound
<1>5. searcher' = [searcher EXCEPT ![g] = state]
    BY <1>1 DEF ReadChain, SearchersSound
<1> HIDE DEF row
<1>6. /\ state \in SearcherStates /\ state.row = row
      /\ state.pc \in {"transition", "row"}
  <2>1. pc \in {"transition", "row"}
      OBVIOUS
  <2> HIDE DEF pc
  <2>2. QED
      BY <1>1, <1>4, <2>1 DEF SearcherStates, SoundRow
<1> HIDE DEF state
<1>7. SearchersSound'
    BY <1>1, <1>4, <1>5, <1>6, OneSearcher DEF Carries
<1>8. PairsSound' /\ ChainsSound' /\ TraderSound' /\ MadeSound'
    BY DEF ReadChain, SearchSound, PairsSound, ChainsSound, TraderSound, MadeSound
<1>9. QED
    BY <1>7, <1>8 DEF SearchSound

\* One leg of a saved row is exchanged, or none.
LEMMA UpdateSwapTransitionSound ==
    ASSUME SearchSound, NEW g \in Searchers, UpdateSwapTransition(g)
    PROVE  SearchSound'
<1> DEFINE row == searcher[g].row
           i == searcher[g].leg
           h == HashOf(row.legs)
           pc == IF i = 3 THEN "row" ELSE "transition"
           next == IF i = 3 THEN 1 ELSE i + 1
           state == [searcher[g] EXCEPT !.pc = pc, !.leg = next]
<1>1. /\ SearchersSound /\ searcher[g] \in SearcherStates /\ SoundRow(row)
      /\ ChainsSound /\ i \in 1..3
    BY DEF SearchSound, SearchersSound, Carries, UpdateSwapTransition, SearcherStates
<1>2. ASSUME chains' = [chains EXCEPT ![h].legs[i] = row.legs[i]], h \in DOMAIN chains
      PROVE  ChainsSound'
  <2> DEFINE old == chains[h]
             mixed == [old.legs EXCEPT ![i] = row.legs[i]]
             new == [old EXCEPT !.legs = mixed]
  <2>1. SoundRow(old) /\ HashOf(old.legs) = h
      BY <1>1, <1>2 DEF ChainsSound
  <2>2. Sound(old.legs) /\ Sound(row.legs) /\ old \in Rows
      BY <1>1, <2>1 DEF SoundRow
  <2>3. chains' = [chains EXCEPT ![h] = new]
      BY <1>2
  <2> HIDE DEF old, row, i
  <2>4. Sound(mixed) /\ HashOf(mixed) = h
      BY <1>1, <2>1, <2>2, Exchanged
  <2> HIDE DEF mixed, h
  <2>5. new \in Rows /\ new.legs = mixed /\ new.percent = old.percent /\ new.max = old.max
      BY <2>2, <2>4 DEF Rows, Sound
  <2> HIDE DEF new
  <2>6. SoundRow(new) /\ HashOf(new.legs) = h
      BY <2>1, <2>4, <2>5 DEF SoundRow
  <2>7. QED
      BY <1>1, <2>3, <2>6 DEF ChainsSound
<1>3. ChainsSound'
  <2>1. CASE chains' = chains
      BY <1>1, <2>1 DEF ChainsSound
  <2>2. CASE chains' = [chains EXCEPT ![h].legs[i] = row.legs[i]] /\ h \notin DOMAIN chains
    <3>1. chains' = chains
        BY <1>1, <2>2 DEF ChainsSound
    <3>2. QED
        BY <2>1, <3>1
  <2>3. QED
      BY <1>2, <2>1, <2>2 DEF UpdateSwapTransition
<1>4. searcher' = [searcher EXCEPT ![g] = state]
    BY <1>1 DEF UpdateSwapTransition, SearchersSound
<1>5. pc \in {"transition", "row"} /\ next \in 1..3
    BY <1>1
<1> HIDE DEF pc, next
<1>6. /\ state \in SearcherStates /\ state.row = row
      /\ state.pc \in {"transition", "row"}
    BY <1>1, <1>5 DEF SearcherStates
<1> HIDE DEF state, row
<1>7. SearchersSound'
    BY <1>1, <1>4, <1>6, OneSearcher DEF Carries
<1>8. PairsSound' /\ TraderSound' /\ MadeSound'
    BY DEF UpdateSwapTransition, SearchSound, PairsSound, TraderSound, MadeSound
<1>9. QED
    BY <1>3, <1>7, <1>8 DEF SearchSound

\* What a goroutine that has written its row carries
LEMMA WrittenSound ==
    ASSUME SearchersSound, NEW g \in Searchers, Written(g)
    PROVE  SearchersSound'
<1>1. searcher[g].kind \in 1..3
    BY DEF SearchersSound, SearcherStates
<1>2. QED
    BY <1>1, RestingCarries, OneSearcher DEF Written

LEMMA SaveRowSound ==
    ASSUME SearchSound, NEW g \in Searchers, SaveRow(g)
    PROVE  SearchSound'
<1> DEFINE row == searcher[g].row
           h == HashOf(row.legs)
<1>1. /\ SearchersSound /\ searcher[g] \in SearcherStates /\ SoundRow(row) /\ row \in Rows
      /\ ChainsSound
    BY DEF SearchSound, SearchersSound, Carries, SaveRow, SoundRow
<1>2. ASSUME chains' = chains
      PROVE  ChainsSound'
    BY <1>1, <1>2 DEF ChainsSound
<1>3. ASSUME chains' = [k \in DOMAIN chains \cup {h} |->
                        IF k = h THEN [row EXCEPT !.id = 1] ELSE chains[k]]
      PROVE  ChainsSound'
  <2> DEFINE new == [row EXCEPT !.id = 1]
  <2> HIDE DEF row
  <2>1. /\ new \in Rows /\ new.legs = row.legs /\ new.percent = row.percent
        /\ new.max = row.max
      BY <1>1 DEF Rows
  <2>2. chains' = [k \in DOMAIN chains \cup {h} |-> IF k = h THEN new ELSE chains[k]]
      BY <1>3
  <2> HIDE DEF new
  <2>3. SoundRow(new) /\ HashOf(new.legs) = h
      BY <1>1, <2>1 DEF SoundRow
  <2> HIDE DEF h
  <2>4. QED
      BY <1>1, <2>2, <2>3 DEF ChainsSound
<1>4. ASSUME chains' = [chains EXCEPT ![h] = [row EXCEPT !.legs = chains[h].legs]],
             h \in DOMAIN chains
      PROVE  ChainsSound'
  <2> DEFINE new == [row EXCEPT !.legs = chains[h].legs]
             legs == chains[h].legs
  <2> HIDE DEF row, h
  <2>1. SoundRow(chains[h]) /\ Sound(legs) /\ HashOf(legs) = h
      BY <1>1, <1>4 DEF ChainsSound, SoundRow
  <2>2. chains' = [chains EXCEPT ![h] = new] /\ new = [row EXCEPT !.legs = legs]
      BY <1>4
  <2> HIDE DEF new, legs
  <2>3. new \in Rows /\ new.legs = legs /\ new.percent = row.percent /\ new.max = row.max
      BY <1>1, <2>1, <2>2 DEF Rows, Sound
  <2>4. SoundRow(new) /\ HashOf(new.legs) = h
      BY <1>1, <2>1, <2>3 DEF SoundRow
  <2>5. QED
      BY <1>1, <2>2, <2>4 DEF ChainsSound
<1>5. ASSUME chains' = [chains EXCEPT ![h] = [row EXCEPT !.legs = chains[h].legs]],
             h \notin DOMAIN chains
      PROVE  ChainsSound'
  <2> DEFINE new == [row EXCEPT !.legs = chains[h].legs]
  <2>1. chains' = [chains EXCEPT ![h] = new]
      BY <1>5
  <2> HIDE DEF new, h, row
  <2>2. chains' = chains
      BY <1>1, <1>5, <2>1 DEF ChainsSound
  <2>3. QED
      BY <1>2, <2>2
<1>6. ChainsSound'
    BY <1>2, <1>3, <1>4, <1>5 DEF SaveRow
<1>7. SearchersSound'
    BY <1>1, WrittenSound DEF SaveRow
<1>8. PairsSound' /\ TraderSound' /\ MadeSound'
    BY DEF SaveRow, SearchSound, PairsSound, TraderSound, MadeSound
<1>9. QED
    BY <1>6, <1>7, <1>8 DEF SearchSound

LEMMA LoseRowSound ==
    ASSUME SearchSound, NEW g \in Searchers, LoseRow(g)
    PROVE  SearchSound'
<1>1. SearchersSound'
    BY WrittenSound DEF SearchSound, LoseRow
<1>2. PairsSound' /\ ChainsSound' /\ TraderSound' /\ MadeSound'
    BY DEF LoseRow, SearchSound, PairsSound, ChainsSound, TraderSound, MadeSound
<1>3. QED
    BY <1>1, <1>2 DEF SearchSound

LEMMA SaveSwapChainCacheSound ==
    ASSUME SearchSound, NEW g \in Searchers, SaveSwapChainCache(g)
    PROVE  SearchSound'
<1>1. SearchersSound'
    BY NextKindSound DEF SearchSound, SaveSwapChainCache
<1>2. PairsSound' /\ ChainsSound' /\ TraderSound' /\ MadeSound'
    BY DEF SaveSwapChainCache, SearchSound, PairsSound, ChainsSound, TraderSound, MadeSound
<1>3. QED
    BY <1>1, <1>2 DEF SearchSound

-----------------------------------------------------------------------------
(***************************************************************************)
(* The trader.                                                             *)
(***************************************************************************)
\* A trader that starts with a list, and one that takes a row of it
LEMMA TraderTakes ==
    ASSUME NEW pc \in {"invalidate", "next", "validate"}, NEW rows \in Lists,
           NEW row \in Offers \cup {None},
           trader' = [pc |-> pc, rows |-> rows, row |-> row, leg |-> 1, read |-> << >>]
    PROVE  /\ trader' \in TraderStates
           /\ trader'.pc = pc /\ trader'.rows = rows /\ trader'.row = row
<1> DEFINE start == << >>
<1>1. start \in Seq(Quotes)
    OBVIOUS
<1>2. trader' = [pc |-> pc, rows |-> rows, row |-> row, leg |-> 1, read |-> start]
    OBVIOUS
<1> HIDE DEF start
<1>3. QED
    BY <1>1, <1>2 DEF TraderStates

\* What is left of SearchSound when only the trader moves
LEMMA OnlyTrader ==
    ASSUME SearchSound, UNCHANGED <<pairs, chains, searcher, made>>, TraderSound'
    PROVE  SearchSound'
BY DEF SearchSound, PairsSound, SearchersSound, ChainsSound, MadeSound, Carries

\* The list is read from the table: its rows are sound.
LEMMA TrySwapSound ==
    ASSUME SearchSound, TrySwap
    PROVE  SearchSound'
<1>1. \A row \in FreshRows : SoundOffer(row)
  <2>1. ASSUME NEW h \in DOMAIN chains
        PROVE  SoundOffer([legs |-> chains[h].legs, percent |-> chains[h].percent])
    <3>1. chains[h] \in Rows /\ Sound(chains[h].legs)
        BY DEF SearchSound, ChainsSound, SoundRow
    <3>2. QED
        BY <3>1 DEF SoundOffer, Rows, Offers
  <2>2. QED
      BY <2>1 DEF FreshRows
<1>2. FreshRows \in Lists
    BY <1>1 DEF SoundOffer, Lists
<1>3. PICK pc \in {"invalidate", "next"} :
          trader' = [Untried EXCEPT !.pc = pc, !.rows = FreshRows]
    BY DEF TrySwap
<1>4. trader' = [pc |-> pc, rows |-> FreshRows, row |-> None, leg |-> 1, read |-> << >>]
    BY <1>3 DEF Untried
<1>5. /\ trader' \in TraderStates
      /\ trader'.pc = pc /\ trader'.rows = FreshRows
    BY <1>2, <1>4, TraderTakes
<1>6. TraderSound'
    BY <1>1, <1>5 DEF TraderSound
<1>7. QED
    BY <1>6, OnlyTrader DEF TrySwap

\* A trader with nothing to try holds nothing.
LEMMA UntriedSound ==
    ASSUME trader' = Untried
    PROVE  TraderSound'
<1>1. Untried \in TraderStates /\ Untried.rows = {} /\ Untried.pc = "idle"
    BY DEF Untried, TraderStates, Lists
<1>2. QED
    BY <1>1 DEF TraderSound

LEMMA InvalidateSound ==
    ASSUME SearchSound, InvalidateSwapChainCache
    PROVE  SearchSound'
BY UntriedSound, OnlyTrader DEF InvalidateSwapChainCache

\* A row goes on to the checks of its prices only with the required percent.
LEMMA NextRowSound ==
    ASSUME SearchSound, NextRow
    PROVE  SearchSound'
<1>1. TraderSound /\ trader \in TraderStates
    BY DEF SearchSound, TraderSound
<1>2. ASSUME NEW r \in trader.rows, NEW pc \in {"next", "validate"}, NEW row \in {None, r},
             trader' = [pc |-> pc, rows |-> trader.rows \ {r}, row |-> row, leg |-> 1,
                        read |-> << >>],
             pc = "validate" => row = r /\ r.percent >= MinPercent
      PROVE  TraderSound'
  <2> DEFINE rest == trader.rows \ {r}
  <2>1. SoundOffer(r) /\ r \in Offers /\ r.percent \in Int /\ MinPercent \in Int
      BY <1>1, SearchAssumption DEF TraderSound, SoundOffer, Offers
  <2>2. rest \in Lists
      BY <1>1 DEF TraderStates, Lists
  <2>3. rest \subseteq trader.rows /\ row \in Offers \cup {None}
      BY <2>1
  <2>4. trader' = [pc |-> pc, rows |-> rest, row |-> row, leg |-> 1, read |-> << >>]
      BY <1>2
  <2> HIDE DEF rest
  <2>5. /\ trader' \in TraderStates
        /\ trader'.pc = pc /\ trader'.rows = rest /\ trader'.row = row
      BY <2>2, <2>3, <2>4, TraderTakes
  <2>6. QED
      BY <1>1, <1>2, <2>1, <2>3, <2>5 DEF TraderSound
<1>3. ASSUME NEW r \in trader.rows,
             trader' = [Untried EXCEPT !.pc = "next", !.rows = trader.rows \ {r}]
      PROVE  TraderSound'
  <2>1. trader' = [pc |-> "next", rows |-> trader.rows \ {r}, row |-> None, leg |-> 1,
                   read |-> << >>]
      BY <1>3 DEF Untried
  <2>2. QED
      BY <1>2, <2>1
<1>4. TraderSound'
  <2>1. ASSUME NEW r \in trader.rows, r.percent >= MinPercent,
               trader' = [Untried EXCEPT !.pc = "validate", !.rows = trader.rows \ {r}, !.row = r]
        PROVE  TraderSound'
    <3>1. trader' = [pc |-> "validate", rows |-> trader.rows \ {r}, row |-> r, leg |-> 1,
                     read |-> << >>]
        BY <2>1 DEF Untried
    <3>2. QED
        BY <1>2, <2>1, <3>1
  <2>2. QED
      BY <1>3, <2>1, UntriedSound DEF NextRow
<1>5. QED
    BY <1>4, OnlyTrader DEF NextRow

\* A row is given up: the rest of the list is as sound as it was.
LEMMA GivenUpSound ==
    ASSUME TraderSound, trader' = [Untried EXCEPT !.pc = "next", !.rows = trader.rows]
    PROVE  TraderSound'
<1>1. trader.rows \in Lists
    BY DEF TraderSound, TraderStates
<1>2. trader' = [pc |-> "next", rows |-> trader.rows, row |-> None, leg |-> 1, read |-> << >>]
    BY DEF Untried
<1>3. trader' \in TraderStates /\ trader'.pc = "next" /\ trader'.rows = trader.rows
    BY <1>1, <1>2, TraderTakes
<1>4. QED
    BY <1>3 DEF TraderSound

LEMMA ValidateSwapSound ==
    ASSUME SearchSound, ValidateSwap
    PROVE  SearchSound'
<1>1. /\ TraderSound /\ trader \in TraderStates /\ PairsSound
      /\ SoundOffer(trader.row) /\ MinPercent <= trader.row.percent
    BY DEF SearchSound, TraderSound, ValidateSwap
<1>2. ASSUME trader' = [Untried EXCEPT !.pc = "next", !.rows = trader.rows]
      PROVE  TraderSound'
    BY <1>1, <1>2, GivenUpSound
<1> DEFINE leg == trader.row.legs[trader.leg]
<1>3. ASSUME ValidLeg(leg),
             trader' = [trader EXCEPT !.pc = IF trader.leg = 3 THEN "make" ELSE "validate",
                                      !.leg = IF trader.leg = 3 THEN 3 ELSE @ + 1,
                                      !.read = Append(@, pairs[leg.symbol].quote)]
      PROVE  TraderSound'
  <2> DEFINE quote == pairs[leg.symbol].quote
             pc == IF trader.leg = 3 THEN "make" ELSE "validate"
             next == IF trader.leg = 3 THEN 3 ELSE trader.leg + 1
  <2>1. leg \in Legs
      BY <1>1 DEF SoundOffer, Offers, Chains, TraderStates
  <2>2. quote \in Quotes
      BY <1>1, <1>3, <2>1 DEF ValidLeg, Priced, PairsSound, Pairs, Legs
  <2>3. Append(trader.read, quote) \in Seq(Quotes)
      BY <1>1, <2>2 DEF TraderStates
  <2>4. pc \in {"make", "validate"} /\ next \in 1..3
      BY <1>1 DEF TraderStates
  <2>5. trader' = [trader EXCEPT !.pc = pc, !.leg = next, !.read = Append(trader.read, quote)]
      BY <1>1, <1>3 DEF TraderStates
  <2> HIDE DEF leg, quote, pc, next
  <2>6. /\ trader' \in TraderStates
        /\ trader'.rows = trader.rows /\ trader'.row = trader.row
      BY <1>1, <2>3, <2>4, <2>5 DEF TraderStates
  <2>7. QED
      BY <1>1, <2>6 DEF TraderSound
<1>4. TraderSound'
    BY <1>2, <1>3 DEF ValidateSwap
<1>5. QED
    BY <1>4, OnlyTrader DEF ValidateSwap

LEMMA MakeSwapSound ==
    ASSUME SearchSound, MakeSwap
    PROVE  SearchSound'
<1>1. /\ TraderSound /\ trader \in TraderStates
      /\ SoundOffer(trader.row) /\ MinPercent <= trader.row.percent
    BY DEF SearchSound, TraderSound, MakeSwap
<1>4. TraderSound'
    BY <1>1, GivenUpSound DEF MakeSwap
<1>5. MadeSound'
  <2>1. CASE made' = made
      BY <2>1 DEF SearchSound, MadeSound
  <2>2. CASE made' = [row |-> trader.row, read |-> trader.read]
      BY <1>1, <2>2 DEF MadeSound
  <2>3. QED
      BY <2>1, <2>2 DEF MakeSwap
<1>6. PairsSound' /\ SearchersSound' /\ ChainsSound'
    BY DEF MakeSwap, SearchSound, PairsSound, SearchersSound, ChainsSound, Carries
<1>7. QED
    BY <1>4, <1>5, <1>6 DEF SearchSound

-----------------------------------------------------------------------------
(***************************************************************************)
(* The theorems.                                                           *)
(***************************************************************************)
\* Every step keeps the invariant.
LEMMA StepSound == SearchSound /\ [Next]_vars => SearchSound'
<1> SUFFICES ASSUME SearchSound, [Next]_vars PROVE SearchSound'
    OBVIOUS
<1>1. CASE UpdateSwapPairs
    BY <1>1, UpdateSwapPairsSound
<1>2. CASE \E s \in Traded : UpdateSwapPair(s)
    BY <1>2, UpdateSwapPairSound
<1>3. CASE Tick
    BY <1>3, TickSound
<1>4. CASE CalculateSwapOptions
    BY <1>4, CalculateSwapOptionsSound
<1>5. CASE \E g \in Searchers : SearcherStep(g)
    BY <1>5, FindSound, ReadChainSound, UpdateSwapTransitionSound, SaveRowSound,
       LoseRowSound, SaveSwapChainCacheSound
       DEF SearcherStep
<1>6. CASE TraderStep
    BY <1>6, TrySwapSound, InvalidateSound, NextRowSound, ValidateSwapSound, MakeSwapSound
       DEF TraderStep
<1>7. CASE UNCHANGED vars
    BY <1>7 DEF vars, SearchSound, PairsSound, SearchersSound, ChainsSound, TraderSound,
       MadeSound, Carries
<1>8. QED
    BY <1>1, <1>2, <1>3, <1>4, <1>5, <1>6, <1>7 DEF Next

\* What the goroutines carry, the table keeps and the trader reads is sound.
THEOREM SearchInvariant == Spec => []SearchSound
    BY InitSound, StepSound, PTL DEF Spec

\* Every saved chain leads from the asset back to it through three pairs, whichever of the
\* three finders built it (Find in sbb_, sbs_ and ssb_swap_finder.go) and however the
\* statements of the goroutines that save one (UpdateSwapChain) mix its transitions.
THEOREM SearchChainsAreCycles == Spec => []ChainsAreCycles
<1>1. ASSUME NEW row, SoundRow(row)
      PROVE  /\ IsCycle(row.legs)
             /\ Cardinality({ row.legs[i].symbol : i \in 1..3 }) = 3
             /\ Threshold <= row.percent
  <2> DEFINE x == row.legs[1].symbol
             y == row.legs[2].symbol
             z == row.legs[3].symbol
  <2>1. x # y /\ x # z /\ y # z
      BY <1>1 DEF SoundRow, Sound
  <2>2. { row.legs[i].symbol : i \in 1..3 } = ({x} \cup {y}) \cup {z}
      OBVIOUS
  <2> HIDE DEF x, y, z
  <2>3. IsFiniteSet({x}) /\ Cardinality({x}) = 1
      BY FS_Singleton
  <2>4. IsFiniteSet({x} \cup {y}) /\ Cardinality({x} \cup {y}) = 2
      BY <2>1, <2>3, FS_AddElement
  <2>5. Cardinality(({x} \cup {y}) \cup {z}) = 3
    <3>1. z \notin {x} \cup {y}
        BY <2>1
    <3>2. QED
        BY <2>4, <3>1, FS_AddElement
  <2>6. QED
      BY <1>1, <2>2, <2>5 DEF SoundRow, Sound
<1>2. SearchSound => ChainsAreCycles
    BY <1>1 DEF SearchSound, ChainsSound, ChainsAreCycles
<1>3. QED
    BY <1>2, SearchInvariant, PTL

\* The greatest percent of a chain covers the current one, whichever of the goroutines
\* that search wrote the row last (UpdateSwapChain reads, then writes).
THEOREM SearchMaxCoversPercent == Spec => []MaxCoversPercent
<1>1. SearchSound => MaxCoversPercent
    BY DEF SearchSound, ChainsSound, SoundRow, MaxCoversPercent
<1>2. QED
    BY <1>1, SearchInvariant, PTL

\* A swap is made from a row that says at least SwapMinPercent, and each of its trades
\* whose price did not move is offered at a price the book is better than (TrySwap and
\* SwapValidator.Validate), whichever searches the legs of the row are of.
THEOREM SearchSwapKeepsMargins == Spec => []SwapKeepsMargins
<1>1. ASSUME SearchSound, made # None
      PROVE  /\ MinPercent <= made.row.percent
             /\ \A i \in 1..3 :
                  LET leg == made.row.legs[i] IN
                  made.read[i] = leg.seen =>
                      IF leg.operation = "SELL" THEN made.read[i].sell > leg.price
                                                ELSE made.read[i].buy < leg.price
  <2>1. SoundOffer(made.row) /\ MinPercent <= made.row.percent
      BY <1>1 DEF SearchSound, MadeSound
  <2>2. ASSUME NEW i \in 1..3, made.read[i] = made.row.legs[i].seen
        PROVE  LET leg == made.row.legs[i] IN
               IF leg.operation = "SELL" THEN made.read[i].sell > leg.price
                                         ELSE made.read[i].buy < leg.price
    <3> DEFINE leg == made.row.legs[i]
    <3>1. leg \in Legs /\ LeavesMargin(leg)
        BY <2>1, i = 1 \/ i = 2 \/ i = 3 DEF SoundOffer, Sound, Chains
    <3>2. made.read[i] = leg.seen
        BY <2>2
    <3> HIDE DEF leg
    <3>3. IF leg.operation = "SELL" THEN made.read[i].sell > leg.price
                                    ELSE made.read[i].buy < leg.price
        BY <3>1, <3>2 DEF LeavesMargin, Legs, Quotes
    <3>4. QED
        BY <3>3 DEF leg
  <2>3. QED
      BY <2>1, <2>2
<1>2. SearchSound => SwapKeepsMargins
    BY <1>1 DEF SwapKeepsMargins
<1>3. QED
    BY <1>2, SearchInvariant, PTL
=============================================================================
