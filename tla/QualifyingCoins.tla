---------------------------- MODULE QualifyingCoins ----------------------------
(***************************************************************************)
(* From tickers to coins: the one-hour change of a market                  *)
(* (app/market/momentum.py) and the unique base coins among those that     *)
(* qualify (app/market/deduplication.py).                                  *)
(*                                                                         *)
(* The code computes a change in decimals; here a change is the pair of    *)
(* prices, compared as a fraction.  Symbols are numbered in their order.   *)
(***************************************************************************)
EXTENDS Integers, SequencesExt

CONSTANTS
    Threshold,    \* alert_threshold_percent
    Enabled,      \* universes switched on: "spot", "USDT", "USDC"
    Stablecoins,  \* STABLECOIN_QUOTES
    Missing       \* no price, no change

ASSUME QualifyingAssumption ==
    /\ Threshold \in Nat \ {0} /\ Enabled # {} /\ Enabled \subseteq {"spot", "USDT", "USDC"}
    /\ Missing \notin Nat

\* A market: its instrument and what the engine knows of it, the price of an
\* hour ago included.
IsMarket(m) ==
    /\ DOMAIN m = {"category", "symbol", "base_coin", "settle_coin", "quote_coin",
                   "status", "last", "prev"}
    /\ m.category \in {"spot", "linear"} /\ m.symbol \in Nat
    /\ {m.last, m.prev} \subseteq Nat \union {Missing}

_is_supported(m) ==
    /\ m.status = "Trading"
    /\ \/ m.category = "spot" /\ "spot" \in Enabled
       \/ m.category = "linear" /\ m.settle_coin \in Enabled \ {"spot"}

Positive(p) == p # Missing /\ p > 0

\* linear_change and spot_change: a reference price and a price, or nothing.
Change(last, reference) ==
    IF Positive(last) /\ Positive(reference)
    THEN [last |-> last, reference |-> reference] ELSE Missing

Above(c, d) == c.last * d.reference > d.last * c.reference

\* Strictly more than the threshold, on the exact value.
qualifies(c) == c # Missing /\ (c.last - c.reference) * 100 > Threshold * c.reference

\* evaluate_all over instruments with a ticker; evaluate without its history.
MomentumValues(markets) ==
    {[category |-> m.category, symbol |-> m.symbol, base_coin |-> m.base_coin,
      settle_coin |-> m.settle_coin, quote_coin |-> m.quote_coin,
      change_1h |-> Change(m.last, m.prev)] : m \in {n \in markets : _is_supported(n)}}

_tie_break_rank(v) ==
    CASE v.category = "linear" /\ v.settle_coin = "USDT" -> 0
      [] v.category = "linear" /\ v.settle_coin = "USDC" -> 1
      [] v.category = "linear" /\ v.settle_coin \notin {"USDT", "USDC"} -> 2
      [] v.category = "spot" /\ v.quote_coin \in Stablecoins -> 3
      [] v.category = "spot" /\ v.quote_coin \notin Stablecoins -> 4

\* Mutant of SortsBefore: equal changes are told apart by symbol alone.
MutSortsBefore(v, w) ==
    \/ Above(v.change_1h, w.change_1h)
    \/ ~Above(w.change_1h, v.change_1h) /\ v.symbol < w.symbol

\* The sort key: change downwards, rank, symbol.
SortsBefore(v, w) ==
    \/ Above(v.change_1h, w.change_1h)
    \/ /\ ~Above(w.change_1h, v.change_1h)
       /\ \/ _tie_break_rank(v) < _tie_break_rank(w)
          \/ _tie_break_rank(v) = _tie_break_rank(w) /\ v.symbol < w.symbol

\* sorted(): the sequence of a set's elements in the order of the key.
Sorted(S) ==
    CHOOSE s \in SetToSeqs(S) :
        \A i, j \in DOMAIN s : i < j => SortsBefore(s[i], s[j])

\* One representative for each coin, the coin's other markets behind it.
aggregate_qualifying(values) ==
    LET Markets(coin) == {v \in values : v.base_coin = coin /\ qualifies(v.change_1h)}
        Ordered(coin) == Sorted(Markets(coin))
    IN  {[base_coin |-> coin, representative |-> Head(Ordered(coin)),
          others |-> Tail(Ordered(coin))]
         : coin \in {v.base_coin : v \in {w \in values : qualifies(w.change_1h)}}}
================================================================================
