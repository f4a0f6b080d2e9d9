---------------------------- MODULE MCLifecycle ----------------------------
(* The calls around matching.  `lifecycle': amend-down, icebergs, mass        *)
(* cancels, expiry, session changes, busts and a position limit.  `recovery': *)
(* orders restored under new ids and ones used before, whose trades may then  *)
(* be busted.  `careless': clients modify stops and icebergs too, and restore *)
(* stops.  `limits': KRX around a reference price of 100, limits at 92/108,   *)
(* 85/115 and 80/120, volatility interruption beyond 10% of the last          *)
(* reference.  `locked': one tier of limits, IOC and FOK orders in a locked   *)
(* market, prices that no check has seen.  `mirrored': several orders at one  *)
(* price, partly and wholly filled, cancelled and amended.  `cancelBoth':     *)
(* self-matches that take the resting order from a level with others.  In all *)
(* of them a listener rebuilds the book from the depth updates.               *)
EXTENDS DepthMirror, MCEngine

Saved(id, side, type, price, quantity, filled) ==
    [id |-> id, order |-> [side |-> side, type |-> type, tif |-> "GTC", account |-> 1,
                           price |-> price, level |-> 0, quantity |-> quantity,
                           filled |-> filled, remaining |-> quantity - filled,
                           display |-> 0, total |-> quantity]]

Lifecycle ==
    [Plain EXCEPT
        !.exchange = "CME", !.modifyPolicy = "AmendDown", !.maxOrders = 3,
        !.ordersSent = 3, !.positionLimit = 3,
        !.sessions = {"Closed", "PreOpen", "Continuous"},
        !.calls = {"cancel", "modify", "massCancel", "expire", "bust"},
        !.requests = {Limit("Sell", 1, 100, 2), LimitTif("Sell", "DAY", 0, 108, 1),
                      LimitTif("Buy", "GTD", 2, 100, 1), Iceberg("Sell", 1, 100, 2, 1),
                      Market("Buy", 2, 2), LimitTif("Buy", "IOC", 2, 108, 3)},
        !.modifies = {To(100, 1)}]

Recovery ==
    [Plain EXCEPT
        !.exchange = "CME", !.maxOrders = 3, !.ordersSent = 3,
        !.calls = {"cancel", "modify", "restore", "bust"},
        !.requests = {Limit("Sell", 1, 100, 2), Limit("Buy", 2, 100, 1)},
        !.restores = {Saved(1, "Sell", "Limit", 100, 2, 1),
                      Saved(2, "Buy", "Limit", 108, 1, 0)},
        !.modifies = {To(100, 3)}]

Careless ==
    [Plain EXCEPT
        !.modifyPolicy = "AmendDown", !.maxOrders = 3, !.ordersSent = 3,
        !.careful = FALSE, !.calls = {"cancel", "modify", "massCancel", "restore"},
        !.restoresUntil = 1,
        !.requests = {Limit("Sell", 1, 100, 2), Limit("Buy", 2, 100, 1),
                      StopLimit("Buy", 2, 108, 100, 1), Iceberg("Sell", 1, 100, 2, 1)},
        !.modifies = {To(100, 1), To(108, 2)},
        !.restores = {Saved(2, "Buy", "StopLimit", 108, 1, 0),
                      Saved(3, "Buy", "StopLimit", 108, 1, 0)}]

Limits ==
    [Plain EXCEPT
        !.exchange = "KRX", !.maxOrders = 3, !.maxPriceLevels = 5, !.ordersSent = 7,
        !.limitTiers = KrxLimitTiers(100), !.volatility.dynamicPct = 10,
        !.sessions = {"Continuous"}, !.calls = {"unlock"},
        !.requests = {Limit("Sell", 1, 92, 1), Limit("Sell", 1, 108, 1),
                      Limit("Sell", 1, 115, 1), Limit("Sell", 1, 120, 2),
                      Limit("Buy", 2, 92, 1), Market("Buy", 2, 1),
                      StopMarket("Buy", 2, 120, 1)}]

Mirrored ==
    [Plain EXCEPT
        !.modifyPolicy = "AmendDown", !.ordersSent = 3,
        !.calls = {"cancel", "modify", "massCancel"},
        !.requests = {Limit("Sell", 1, 100, 2), Limit("Sell", 1, 108, 1),
                      Limit("Buy", 2, 100, 1), Limit("Buy", 2, 108, 3),
                      Iceberg("Sell", 1, 100, 2, 1)},
        !.modifies = {To(100, 1), To(108, 2)}]

CancelBoth ==
    [Plain EXCEPT
        !.exchange = "ICE", !.smpAction = "CancelBoth", !.calls = {"cancel"},
        !.requests = {Limit("Sell", 1, 100, 1), Limit("Sell", 2, 100, 2),
                      Limit("Buy", 1, 108, 2)}]

Locked ==
    [Plain EXCEPT
        !.exchange = "KRX", !.limitTiers = <<<<92, 108>>>>,
        !.calls = {"unlock", "modify", "restore"},
        !.requests = {Limit("Sell", 1, 108, 1), Limit("Buy", 2, 108, 2),
                      LimitTif("Sell", "IOC", 1, 100, 1), LimitTif("Buy", "FOK", 2, 108, 1)},
        !.modifies = {To(115, 1)}, !.restores = {Saved(4, "Sell", "Limit", 115, 1, 0)}]

LifecycleProfiles ==
    [lifecycle |-> Lifecycle, recovery |-> Recovery, careless |-> Careless, limits |-> Limits,
     mirrored |-> Mirrored, cancelBoth |-> CancelBoth, locked |-> Locked]

\* TLC evaluates what it puts for a constant at every use, and what that refers to
\* once.
MCProfiles == LifecycleProfiles
=============================================================================
