--------------------------- MODULE MomentumEvaluator ---------------------------
(***************************************************************************)
(* The market loop up to the alert policy: SpotHistory's market is         *)
(* evaluated among others, linear and spot, whose price of an hour ago is  *)
(* an input; the unique coins of the cycle's values are what               *)
(* AlertService.process is given.                                          *)
(***************************************************************************)
EXTENDS SpotHistory, QualifyingCoins

CONSTANTS
    SpotMarket,   \* the market with the history
    SpotPrices,   \* prices that its ticker may show
    AnchorPrice,  \* the price of each of its samples
    Others        \* sets of other markets with tickers: a cycle meets one of them

\* The registry's key.
SameKey(m, n) == m.category = n.category /\ m.symbol = n.symbol

ASSUME EvaluatorAssumption ==
    /\ SpotPrices \union {AnchorPrice} \subseteq Nat \ {0}
    /\ IsMarket(SpotMarket) /\ SpotMarket.category = "spot"
    /\ \A markets \in Others :
          /\ IsFiniteSet(markets)
          /\ \A m \in markets : IsMarket(m) /\ ~ SameKey(m, SpotMarket)
          /\ \A m, n \in markets : SameKey(m, n) => m = n

VARIABLE values   \* momentum values of the cycle, until the policy is done

evaluatorVars == <<vars, values>>

EvaluatorInit == Init /\ values = {}

\* The spot market's change exists if an anchor was found.
SpotMarketAt(price) ==
    [SpotMarket EXCEPT !.last = IF status' = "NO_DATA" THEN Missing ELSE price,
                       !.prev = IF status' = "OK" THEN AnchorPrice ELSE Missing]

evaluate_all ==
    /\ NoPrice \/ FindAnchor
    /\ \E markets \in Others, price \in SpotPrices :
          values' = MomentumValues(markets \union {SpotMarketAt(price)})

\* The values are handed on, or the cycle ends before.
Decided == (PolicyDone \/ CycleFails \/ Restart) /\ values' = {}

Elsewhere == (Tick \/ CycleStarts \/ Record \/ Prune) /\ UNCHANGED values

EvaluatorNext == evaluate_all \/ Decided \/ Elsewhere

EvaluatorSpec == EvaluatorInit /\ [][EvaluatorNext]_evaluatorVars
--------------------------------------------------------------------------------
\* deduplication.py:12-17: the highest increase, and among equals "USDT Linear
\* -> USDC Linear -> stablecoin Spot -> other Spot".
PreferredTo(v, w) ==
    LET kind(x) == IF x.category = "linear" THEN x.settle_coin
                   ELSE IF x.quote_coin \in Stablecoins THEN "stable" ELSE "other"
        order == <<"USDT", "USDC", "stable", "other">>
    IN  /\ ~Above(w.change_1h, v.change_1h)
        /\ Above(v.change_1h, w.change_1h) \/
           \E i, j \in DOMAIN order : order[i] = kind(v) /\ order[j] = kind(w) /\ i <= j

\* What the policy is given is each coin with a market over the threshold, shown by
\* the market that the tie-break prefers to all the coin's others, with just those
\* behind it; a market still warming up has no say.
RepresentativeIsBest ==
    pc = "policy" =>
        LET over == {v \in values : qualifies(v.change_1h)}
            given == aggregate_qualifying(values)
        IN  /\ {g.base_coin : g \in given} = {v.base_coin : v \in over}
            /\ \A g \in given : \A v \in over :
                  v.base_coin = g.base_coin => PreferredTo(g.representative, v)
            /\ \A g \in given :
                  {g.others[i] : i \in DOMAIN g.others} =
                      {v \in over : v.base_coin = g.base_coin} \ {g.representative}
            /\ \A v \in over : SameKey(v, SpotMarket) => status = "OK"
================================================================================
