----------------------------- MODULE MCAuction -----------------------------
(* A trading day with orders collected before the open, fully shown or with  *)
(* icebergs among them.                                                      *)
EXTENDS EngineAuction, MCEngine

Day == [Plain EXCEPT !.exchange = "CME", !.maxPriceLevels = 6]
Shown ==
    [Day EXCEPT
        !.requests = {Limit("Buy", 1, 102, 1), Limit("Buy", 1, 101, 2),
                      Limit("Buy", 2, 100, 1), Limit("Sell", 2, 100, 2),
                      Limit("Sell", 1, 101, 1), Limit("Sell", 2, 102, 1)}]
Icebergs ==
    [Day EXCEPT
        !.requests = {Iceberg("Sell", 1, 100, 2, 1), Limit("Sell", 2, 100, 1),
                      Limit("Buy", 1, 101, 2), Limit("Buy", 2, 100, 1)}]
AuctionProfiles == [shown |-> Shown, icebergs |-> Icebergs]

\* TLC evaluates what it puts for a constant at every use, and what that refers to
\* once.
MCProfiles == AuctionProfiles
=============================================================================
