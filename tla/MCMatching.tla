----------------------------- MODULE MCMatching -----------------------------
(* Continuous trading.  `continuous': CME, limit, market, IOC and FOK orders  *)
(* of two accounts, cancels and modifies.  The three self-match profiles:     *)
(* ICE, orders of accounts 1, 2 and none (0), so that a self-match falls on   *)
(* the first, a middle or the last fill of a level.  `stops': stops on both   *)
(* sides of a thin book, so that one trade sets off a cascade; tight pools.   *)
(* `operations': KRX with a daily limit and a volatility check, and the calls *)
(* around matching: mass cancel, expiry, restore, bust, session changes.      *)
(* `icebergs': resting and incoming icebergs, amended and busted.             *)
EXTENDS MCEngine

Continuous ==
    [Plain EXCEPT
        !.exchange = "CME", !.bandWidth = 5, !.maxOrderSize = 3,
        !.calls = {"cancel", "modify"},
        !.requests = {Limit("Buy", 1, 101, 2), Limit("Sell", 2, 100, 1),
                      Limit("Sell", 1, 101, 2),
                      LimitTif("Buy", "FOK", 1, 101, 2),
                      LimitTif("Sell", "IOC", 2, 100, 2), Market("Buy", 1, 3)},
        !.modifies = {To(101, 2), To(100, 1)}]

SelfMatch(action) ==
    [Plain EXCEPT
        !.exchange = "ICE", !.bandWidth = 3, !.smpAction = action, !.calls = {"cancel"},
        !.requests = {Limit("Sell", 1, 100, 1), Limit("Sell", 2, 100, 1),
                      Limit("Sell", 2, 101, 1), Limit("Sell", 0, 100, 1),
                      Limit("Buy", 1, 101, 2),
                      LimitTif("Buy", "FOK", 1, 101, 2),
                      LimitTif("Buy", "IOC", 2, 101, 3)}]
Decrement == [SelfMatch("Decrement") EXCEPT !.ordersSent = 3]

Stops ==
    [Plain EXCEPT
        !.maxOrders = 3, !.maxPriceLevels = 3, !.ordersSent = 5, !.calls = {"cancel"},
        !.requests = {Limit("Sell", 1, 101, 1), Limit("Sell", 1, 102, 1),
                      Limit("Buy", 1, 100, 1), StopMarket("Buy", 2, 101, 1),
                      StopLimit("Buy", 2, 102, 102, 2), StopMarket("Sell", 2, 101, 1),
                      LimitTif("Buy", "FOK", 2, 102, 2), Market("Buy", 2, 1)}]

Operations ==
    [Plain EXCEPT
        !.exchange = "KRX", !.maxOrders = 3, !.limitTiers = <<<<0, 102>>>>,
        !.volatility.dynamicPct = 1, !.sessions = {"PreOpen", "Continuous"},
        !.calls = {"massCancel", "expire", "restore", "bust", "unlock"},
        !.requests = {LimitTif("Sell", "DAY", 1, 102, 2), Limit("Buy", 2, 102, 1),
                      StopMarket("Buy", 2, 102, 1)},
        !.restores = {[id |-> 3, order |-> [side |-> "Sell", type |-> "Limit", tif |-> "GTC",
                        account |-> 1, price |-> 100, level |-> 0, quantity |-> 2,
                        filled |-> 1, remaining |-> 1, display |-> 0, total |-> 2]]}]

Icebergs ==
    [Plain EXCEPT
        !.modifyPolicy = "AmendDown", !.ordersSent = 3, !.calls = {"cancel", "modify", "bust"},
        !.requests = {Iceberg("Sell", 1, 100, 3, 1), Limit("Sell", 1, 100, 2),
                      Limit("Buy", 2, 100, 2), Iceberg("Buy", 2, 100, 3, 2)},
        !.modifies = {To(100, 2), To(101, 2)}]

MatchingProfiles ==
    [continuous |-> Continuous, cancelOldest |-> SelfMatch("CancelOldest"),
     cancelBoth |-> SelfMatch("CancelBoth"), decrement |-> Decrement, stops |-> Stops,
     operations |-> Operations, icebergs |-> Icebergs]

\* TLC evaluates what it puts for a constant at every use, and what that refers to
\* once.
MCProfiles == MatchingProfiles
=============================================================================
