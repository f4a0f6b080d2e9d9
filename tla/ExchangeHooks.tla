--------------------------- MODULE ExchangeHooks ---------------------------
(***************************************************************************)
(* The CRTP overrides of the three exchanges: cme/cme_exchange.h,          *)
(* ice/ice_exchange.h, krx/krx_exchange.h, and the engine's defaults.      *)
(***************************************************************************)
EXTENDS Integers, Sequences

\* is_self_match: CME compares the accounts; ICE and KRX ignore account 0.
CmeIsSelfMatch(aggressor, resting) == aggressor = resting
IceIsSelfMatch(aggressor, resting) == aggressor # 0 /\ aggressor = resting
KrxIsSelfMatch(aggressor, resting) == aggressor # 0 /\ aggressor = resting
IsSelfMatch(exchange, aggressor, resting) ==
    CASE exchange = "CME" -> CmeIsSelfMatch(aggressor, resting)
      [] exchange = "ICE" -> IceIsSelfMatch(aggressor, resting)
      [] exchange = "KRX" -> KrxIsSelfMatch(aggressor, resting)
      [] exchange = "Default" -> FALSE

\* is_order_allowed_in_phase
Immediate(req) == req.tif \in {"IOC", "FOK"} \/ req.type = "Market"
CmeIsOrderAllowedInPhase(req, state) ==
    /\ state # "Closed"
    /\ state \in {"PreOpen", "PreClose", "VolatilityAuction"} => ~ Immediate(req)
IceIsOrderAllowedInPhase(req, state) ==
    /\ state # "Closed"
    /\ state \in {"PreOpen", "PreClose"} => ~ Immediate(req)
KrxIsOrderAllowedInPhase(req, state) ==
    /\ state # "Closed"
    /\ state \in {"PreOpen", "PreClose", "VolatilityAuction"} => ~ Immediate(req)
IsOrderAllowedInPhase(exchange, req, state) ==
    CASE exchange = "CME" -> CmeIsOrderAllowedInPhase(req, state)
      [] exchange = "ICE" -> IceIsOrderAllowedInPhase(req, state)
      [] exchange = "KRX" -> KrxIsOrderAllowedInPhase(req, state)
      [] exchange = "Default" -> TRUE

\* calculate_dynamic_bands: a percentage (CME, KRX) or a width (ICE) around
\* the last trade; <<0, 0>> means no check.  The default is a fixed band of the
\* configuration, taken as not set.
PercentBands(reference, pct) ==
    LET band == (reference * pct) \div 100 IN
    IF reference <= 0 \/ pct <= 0 THEN <<0, 0>> ELSE <<reference - band, reference + band>>
IplBands(reference, width) ==
    IF reference <= 0 \/ width <= 0 THEN <<0, 0>> ELSE <<reference - width, reference + width>>
CalculateDynamicBands(exchange, reference, width) ==
    CASE exchange \in {"CME", "KRX"} -> PercentBands(reference, width)
      [] exchange = "ICE" -> IplBands(reference, width)
      [] exchange = "Default" -> <<0, 0>>

\* should_trigger_volatility_auction (KRX): too far from the reference of the
\* interruption, or from the prior close.
Deviates(price, reference, pct) ==
    LET deviation == IF price > reference THEN price - reference ELSE reference - price
    IN  reference > 0 /\ pct > 0 /\ deviation > (reference * pct) \div 100
ShouldTriggerVolatilityAuction(exchange, price, reference, vi) ==
    /\ exchange = "KRX"
    /\ \/ Deviates(price, reference, vi.dynamicPct)
       \/ Deviates(price, vi.priorClose, vi.staticPct)

\* apply_limit_tier (KRX): 8%, then 15%, then 20% around the reference price.
KrxLimitTiers(reference) ==
    LET Band(pct) == (reference * pct) \div 100
        Tier(pct) == <<reference - Band(pct), reference + Band(pct)>>
    IN  <<Tier(8), Tier(15), Tier(20)>>
=============================================================================
