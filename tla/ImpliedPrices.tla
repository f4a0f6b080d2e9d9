--------------------------- MODULE ImpliedPrices ---------------------------
(***************************************************************************)
(* The arithmetic of spreads: SpreadStrategy (ticks, lots, prices and      *)
(* sides of the legs) and ImpliedPriceEngine (synthetic prices from the    *)
(* best quotes of the legs).  A leg is a record [inst, ratio, mult, tick,  *)
(* lot] and a strategy a sequence of legs; a BBO is a function from sides  *)
(* to [price, qty], qty = 0 when that side of the outright book is empty.  *)
(* Prices are signed fixed-point numbers, as in the code.                  *)
(***************************************************************************)
EXTENDS Integers, Sequences, FiniteSetsExt, SequencesExt

Sides == {"Buy", "Sell"}
Opposite(side) == IF side = "Buy" THEN "Sell" ELSE "Buy"
NoLevel == [price |-> 0, quantity |-> 0]

AbsVal(x) == IF x < 0 THEN -x ELSE x
Sign(ratio) == IF ratio > 0 THEN 1 ELSE -1

gcd[a \in Nat, b \in Nat] == IF b = 0 THEN a ELSE gcd[b, a % b]
lcm(a, b) == IF a = 0 \/ b = 0 THEN 0 ELSE (a \div gcd[a, b]) * b

\* Rounds toward zero; a tick that is not positive disables rounding.
normalize_tick(price, tick) ==
    CASE tick <= 0 -> price
      [] tick > 0 /\ price >= 0 -> (price \div tick) * tick
      [] OTHER -> -(((-price) \div tick) * tick)

\* SpreadStrategy::compute_tick_size: 1 when no leg contributes.
compute_tick_size(legs) ==
    LET g == FoldLeft(LAMBDA acc, leg : gcd[acc, leg.tick * AbsVal(leg.mult)], 0, legs)
    IN IF g > 0 THEN g ELSE 1

\* SpreadStrategy::compute_min_trade_qty and the engine's compute_min_spread_qty.
compute_min_trade_qty(legs) ==
    FoldLeft(LAMBDA acc, leg : lcm(acc, leg.lot \div gcd[leg.lot, AbsVal(leg.ratio)]), 1, legs)

\* The tick and lot of a spread: the configured override, or the computed one.
spread_tick(cfg) == IF cfg.tick > 0 THEN cfg.tick ELSE compute_tick_size(cfg.legs)
spread_lot(cfg) == IF cfg.lot > 0 THEN cfg.lot ELSE compute_min_trade_qty(cfg.legs)

SumOver(legs, Term(_)) == FoldLeft(LAMBDA acc, i : acc + Term(i), 0, [i \in DOMAIN legs |-> i])
LeastOver(legs, Term(_)) == Min({Term(i) : i \in DOMAIN legs})

compute_spread_price(legs, prices) ==
    SumOver(legs, LAMBDA i : prices[i] * legs[i].mult * Sign(legs[i].ratio))

leg_quantity(leg, spread_qty) == spread_qty * AbsVal(leg.ratio)

\* The side traded in a leg when the spread is traded on the given side.
leg_side(leg, side) == IF leg.ratio > 0 THEN side ELSE Opposite(side)

(***************************************************************************)
(* Implied-out, both sides: the synthetic spread bid rests on the bids of  *)
(* the legs of positive ratio and the asks of the others, the synthetic    *)
(* ask on the opposite quotes.                                             *)
(***************************************************************************)
SyntheticLevel(legs, bbos, side, tick) ==
    LET quote(i) == bbos[i][leg_side(legs[i], side)]
        qty == LeastOver(legs, LAMBDA i : quote(i).qty \div AbsVal(legs[i].ratio))
        price == SumOver(legs, LAMBDA i : Sign(legs[i].ratio) * AbsVal(legs[i].mult) * quote(i).price)
    IN IF qty <= 0 THEN NoLevel
       ELSE [price |-> normalize_tick(price, tick), quantity |-> qty]

compute_implied_out_bid(legs, bbos, tick) == SyntheticLevel(legs, bbos, "Buy", tick)
compute_implied_out_ask(legs, bbos, tick) == SyntheticLevel(legs, bbos, "Sell", tick)
=============================================================================
