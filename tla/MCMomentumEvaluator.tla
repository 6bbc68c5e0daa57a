-------------------------- MODULE MCMomentumEvaluator --------------------------
(* Model checking MomentumEvaluator: one time unit of the history is half a   *)
(* sampling interval.  Coin A has two spot markets, a USDT and a USDC market, *)
(* whose changes are at the threshold, over it, equal or apart; the second    *)
(* spot market, quoted in another coin than a stablecoin, may still warm up.  *)
(* Coin B comes and goes with a market that settles in another coin.          *)
EXTENDS MomentumEvaluator

Market(category, symbol, coin, settle, quote, trading, price, hourAgo) ==
    [category |-> category, symbol |-> symbol, base_coin |-> coin,
     settle_coin |-> settle, quote_coin |-> quote,
     status |-> IF trading THEN "Trading" ELSE "Closed", last |-> price, prev |-> hourAgo]

MCSpotMarket == Market("spot", 2, "A", Missing, "USDT", TRUE, Missing, Missing)

UsdtMarkets == {Market("linear", 3, "A", "USDT", "USDT", TRUE, p, 40) : p \in {42, 44}}
UsdcMarket(trading) == Market("linear", 1, "A", "USDC", "USDC", trading, 22, 20)
OtherMarket(settle) == Market("linear", 4, "B", settle, "USD", TRUE, 30, 20)
OtherSpot(warm) == Market("spot", 1, "A", Missing, "BTC", TRUE, 44, IF warm THEN 40 ELSE Missing)
MCOthers ==
    {{u, UsdcMarket(t), OtherMarket(IF t THEN "USDC" ELSE "B"), OtherSpot(~ t)}
     : u \in UsdtMarkets, t \in BOOLEAN}
================================================================================
