------------------------------ MODULE MCEngine ------------------------------
(***************************************************************************)
(* What the instances of MatchingEngine for TLC have in common: shorthands *)
(* for requests, and a profile with every check and hook switched off.     *)
(***************************************************************************)
EXTENDS MatchingEngine

Request(side, type, tif, account, price, stop, quantity, display) ==
    [side |-> side, type |-> type, tif |-> tif, account |-> account, price |-> price,
     stop |-> stop, quantity |-> quantity, display |-> display]
Limit(side, account, price, quantity) ==
    Request(side, "Limit", "GTC", account, price, 0, quantity, 0)
LimitTif(side, tif, account, price, quantity) ==
    Request(side, "Limit", tif, account, price, 0, quantity, 0)
Market(side, account, quantity) ==
    Request(side, "Market", "DAY", account, 0, 0, quantity, 0)
StopMarket(side, account, stop, quantity) ==
    Request(side, "Stop", "GTC", account, 0, stop, quantity, 0)
StopLimit(side, account, stop, price, quantity) ==
    Request(side, "StopLimit", "GTC", account, price, stop, quantity, 0)
Iceberg(side, account, price, quantity, display) ==
    Request(side, "Limit", "GTC", account, price, 0, quantity, display)
To(price, quantity) == [price |-> price, quantity |-> quantity]

Plain ==
    [exchange |-> "Default", maxOrders |-> 4, maxPriceLevels |-> 4, tickSize |-> 1,
     lotSize |-> 1, maxOrderSize |-> 0, limitTiers |-> << >>, bandWidth |-> 0,
     volatility |-> [dynamicPct |-> 0, priorClose |-> 0, staticPct |-> 0],
     smpAction |-> "CancelNewest", modifyPolicy |-> "CancelReplace",
     positionLimit |-> 0, ordersSent |-> 4, requests |-> {}, modifies |-> {},
     restores |-> {}, restoresUntil |-> 2, sessions |-> {}, calls |-> {}, careful |-> TRUE]
=============================================================================
