--------------------------- MODULE EngineAuction ---------------------------
(***************************************************************************)
(* calculate_auction_price and execute_auction of the matching engine, as  *)
(* driven by the trading day of CmeSimulator (cme/cme_simulator.h): orders *)
(* collected in PreOpen are uncrossed when the market opens, and once more *)
(* when it closes.  The engine's own calls go on between these.            *)
(***************************************************************************)
EXTENDS MatchingEngine

CONSTANT References     \* reference prices the auction may be given (0: none)

VARIABLES
    clearing,           \* auction price, 0 when no auction runs
    toFill,             \* remaining_to_fill
    at,                 \* the bid and the ask being matched (0: end of the level)
    after               \* session to enter when the auction is done

auctionVars == <<clearing, toFill, at, after>>
allVars == <<vars, auctionVars>>

-----------------------------------------------------------------------------
(* calculate_auction_price *)

\* Quantity willing to buy, or to sell, at `price'.
BuyVolume(price) ==
    MapThenSumSet(LAMBDA p : levelTotal["Buy"][p], {p \in Levels(book, "Buy") : p >= price})
SellVolume(price) ==
    MapThenSumSet(LAMBDA p : levelTotal["Sell"][p], {p \in Levels(book, "Sell") : p <= price})
Matched(price) == Smaller(BuyVolume(price), SellVolume(price))
AbsDifference(a, b) == IF a > b THEN a - b ELSE b - a
Imbalance(price) == AbsDifference(BuyVolume(price), SellVolume(price))

\* Mutant of IsBetter: ties go to the later candidate.
PrefersVolumeOnly(price, best, reference) ==
    Matched(price) > 0 /\ (best = 0 \/ Matched(price) >= Matched(best))

\* The candidate loop's test, against the best price so far (0: none yet).
IsBetter(price, best, reference) ==
    /\ Matched(price) > 0
    /\ \/ best = 0
       \/ Matched(price) > Matched(best)
       \/ /\ Matched(price) = Matched(best)
          /\ \/ Imbalance(price) < Imbalance(best)
             \/ /\ Imbalance(price) = Imbalance(best)
                /\ \/ AbsDifference(price, reference) < AbsDifference(best, reference)
                   \/ /\ AbsDifference(price, reference) = AbsDifference(best, reference)
                      /\ price > best

Candidates == Levels(book, "Buy") \cup Levels(book, "Sell")
AuctionPrice(reference) ==
    FoldLeft(LAMBDA best, price : IF IsBetter(price, best, reference) THEN price ELSE best,
             0, SetToSortSeq(Candidates, LAMBDA a, b : a < b))

-----------------------------------------------------------------------------
(* execute_auction *)

BestHead(side) ==
    LET best == {p \in Prices : IsBestLevel(book, side, p)}
    IN  IF best = {} THEN 0 ELSE Head(book[side][CHOOSE p \in best : TRUE])

\* The next order of its level, 0 at the end of it.
Follower(id) ==
    LET queue == book[ord[id].side][ord[id].level]
        i == CHOOSE j \in DOMAIN queue : queue[j] = id
    IN  IF i = Len(queue) THEN 0 ELSE queue[i + 1]

Enter(new) ==
    /\ session' = new
    /\ viRef' = IF new # session /\ new = "Continuous" /\ lastTrade > 0 THEN lastTrade
                ELSE viRef
    /\ UNCHANGED <<profile, tier>>

\* The auction is computed; nothing to uncross ends the call at once.
BeginAuction(reference, next) ==
    LET price == AuctionPrice(reference) IN
    IF price = 0
    THEN /\ Enter(next)
         /\ UNCHANGED <<pc, auctionVars>>
    ELSE /\ clearing' = price /\ toFill' = Matched(price)
         /\ at' = [Buy |-> 0, Sell |-> 0]
         /\ after' = next
         /\ pc' = "levels"

StartTradingDay ==
    /\ pc = "idle" /\ session = "Closed"
    /\ Enter("PreOpen")
    /\ UNCHANGED <<poolVars, bookVars, tradeVars, matchVars, pc, cur, sweep, event, depth,
                   auctionVars>>

OpenMarket(reference) ==
    /\ pc = "idle" /\ session = "PreOpen"
    /\ BeginAuction(reference, "Continuous")
    /\ AuctionPrice(reference) # 0 => UNCHANGED sessionVars
    /\ UNCHANGED <<poolVars, bookVars, tradeVars, matchVars, cur, sweep, event, depth>>

\* PreClose is entered, and left again, within the one call.
CloseMarket(reference) ==
    /\ pc = "idle" /\ session \notin {"Closed", "PreOpen"}
    /\ BeginAuction(reference, "Closed")
    /\ AuctionPrice(reference) # 0 =>
           session' = "PreClose" /\ UNCHANGED <<profile, viRef, tier>>
    /\ UNCHANGED <<poolVars, bookVars, tradeVars, matchVars, cur, sweep, event, depth>>

\* Mutant of Uncrossable: bids at the auction price are left out.
StrictlyUncrossable ==
    /\ toFill > 0
    /\ \E bid \in Prices, ask \in Prices :
           /\ IsBestLevel(book, "Buy", bid) /\ bid > clearing
           /\ IsBestLevel(book, "Sell", ask) /\ ask <= clearing

\* The outer loop: both best levels, if they are still on the right side of
\* the auction price.
Uncrossable ==
    /\ toFill > 0
    /\ \E bid \in Prices, ask \in Prices :
           /\ IsBestLevel(book, "Buy", bid) /\ bid >= clearing
           /\ IsBestLevel(book, "Sell", ask) /\ ask <= clearing

AuctionLevels ==
    /\ pc = "levels" /\ Uncrossable
    /\ at' = [side \in Sides |-> BestHead(side)]
    /\ pc' = "auction"
    /\ event' = NoEvent /\ depth' = NoDepth
    /\ UNCHANGED <<poolVars, bookVars, tradeVars, sessionVars, matchVars, cur, sweep,
                   clearing, toFill, after>>

\* The clearing price becomes the reference of the volatility check, then the
\* simulator moves on to the next session state.
EndAuction ==
    /\ pc = "levels" /\ ~ Uncrossable
    /\ session' = after
    /\ viRef' = IF after = "Continuous" /\ lastTrade > 0 THEN lastTrade ELSE clearing
    /\ clearing' = 0 /\ toFill' = 0
    /\ at' = [Buy |-> 0, Sell |-> 0] /\ after' = "Closed"
    /\ pc' = "idle"
    /\ event' = NoEvent /\ depth' = NoDepth
    /\ UNCHANGED <<profile, tier, poolVars, bookVars, tradeVars, matchVars, cur, sweep>>

Pairing == toFill > 0 /\ at["Buy"] # 0 /\ at["Sell"] # 0

\* One fill.  The buy side is the aggressor by convention; a level that only
\* shrinks is not published.
AuctionFill ==
    /\ pc = "auction" /\ Pairing
    /\ LET bid == at["Buy"]
           ask == at["Sell"]
           q == Smaller(toFill, Smaller(ord[bid].remaining, ord[ask].remaining))
           Done(id) == ord'[id].remaining = 0 /\ ~ HasHidden(ord'[id])
       IN  /\ ord' = [ord EXCEPT ![bid].filled = @ + q, ![bid].remaining = @ - q,
                                 ![ask].filled = @ + q, ![ask].remaining = @ - q]
           /\ levelTotal' = [levelTotal EXCEPT !["Buy"][ord[bid].level] = @ - q,
                                               !["Sell"][ord[ask].level] = @ - q]
           /\ toFill' = toFill - q
           /\ lastTrade' = clearing
           /\ position' = Moved(ord[bid].account, ord[ask].account, q)
           /\ trades' = IF Len(trades) >= MaxOrderIds - 1 THEN trades
                        ELSE Append(trades,
                                 [aggressor |-> bid, resting |-> ask,
                                  price |-> clearing, quantity |-> q, side |-> "Buy",
                                  aggressorAccount |-> ord[bid].account,
                                  restingAccount |-> ord[ask].account,
                                  busted |-> FALSE])
           /\ event' = Event(IF Done(bid) /\ Done(ask) THEN "Filled" ELSE "PartiallyFilled",
                             bid, ask, clearing, q)
    /\ depth' = NoDepth /\ pc' = "tidyBuy"
    /\ UNCHANGED <<index, nextId, freeOrders, book, stops, freeLevels, sessionVars,
                   matchVars, cur, sweep, clearing, at, after>>

\* auction_handle_filled_order, first for the bid, then for the ask.
Tidying(side) == pc = IF side = "Buy" THEN "tidyBuy" ELSE "tidySell"
TidyDone(side) ==
    /\ pc' = IF side = "Buy" THEN "tidySell" ELSE "auction"
    /\ event' = NoEvent
    /\ UNCHANGED <<tradeVars, sessionVars, matchVars, cur, sweep, clearing, toFill, after>>

TidyKept(side) ==
    /\ Tidying(side) /\ ord[at[side]].remaining # 0
    /\ depth' = NoDepth
    /\ TidyDone(side)
    /\ UNCHANGED <<poolVars, bookVars, at>>

\* A new tranche goes to the back, yet it is also the order matched next.
TidyReveal(side) ==
    LET id == at[side]
        o == ord[id]
        next == Smaller(o.display, o.total - o.filled)
    IN  /\ Tidying(side) /\ o.remaining = 0 /\ HasHidden(o)
        /\ ord' = [ord EXCEPT ![id].remaining = next]
        /\ book' = Requeue(book, side, o.level, id)
        /\ levelTotal' = [levelTotal EXCEPT ![side][o.level] = @ + next]
        /\ depth' = Depth("Update", side, o.level, levelTotal'[side][o.level])
        /\ TidyDone(side)
        /\ UNCHANGED <<index, nextId, freeOrders, stops, freeLevels, at>>

TidyRemove(side) ==
    LET id == at[side] IN
    /\ Tidying(side) /\ ord[id].remaining = 0 /\ ~ HasHidden(ord[id])
    /\ Unlink(id, 0)
    /\ Release(id)
    /\ depth' = DepthAfterRemove(side, ord[id].level)
    /\ at' = [at EXCEPT ![side] = Follower(id)]
    /\ TidyDone(side)

LeavePair ==
    /\ pc = "auction" /\ ~ Pairing
    /\ pc' = "levels"
    /\ event' = NoEvent /\ depth' = NoDepth
    /\ UNCHANGED <<poolVars, bookVars, tradeVars, sessionVars, matchVars, cur, sweep,
                   auctionVars>>

-----------------------------------------------------------------------------

AuctionInit ==
    /\ Init
    /\ clearing = 0 /\ toFill = 0 /\ at = [Buy |-> 0, Sell |-> 0] /\ after = "Closed"

AuctionStep ==
    \/ AuctionLevels \/ AuctionFill \/ LeavePair \/ EndAuction
    \/ \E side \in Sides : TidyKept(side) \/ TidyReveal(side) \/ TidyRemove(side)

AuctionNext ==
    \/ Next /\ UNCHANGED auctionVars
    \/ StartTradingDay
    \/ \E reference \in References : OpenMarket(reference) \/ CloseMarket(reference)
    \/ AuctionStep

AuctionSpec ==
    /\ AuctionInit /\ [][AuctionNext]_allVars
    /\ WF_allVars(RunningStep /\ UNCHANGED auctionVars)
    /\ WF_allVars(AuctionStep)

-----------------------------------------------------------------------------
(* Properties *)

\* Clients show their whole quantity.
Fully == \A req \in Requests : req.display = 0

\* The sequential candidate loop finds the price its comment promises: first
\* the largest volume, then the smallest imbalance, then the nearest to the
\* reference, then the highest.
AuctionPriceOptimal ==
    \A reference \in References :
        LET price == AuctionPrice(reference)
            Tied == {p \in Candidates : Matched(p) > 0 /\ Matched(p) = Matched(price)}
            Balanced == {p \in Tied : Imbalance(p) = Imbalance(price)}
            Near == {p \in Balanced :
                         AbsDifference(p, reference) = AbsDifference(price, reference)}
        IN  IF price = 0 THEN \A p \in Candidates : Matched(p) = 0
            ELSE /\ price \in Near /\ \A p \in Near : p <= price
                 /\ \A p \in Candidates : Matched(p) <= Matched(price)
                 /\ \A p \in Tied : Imbalance(p) >= Imbalance(price)
                 /\ \A p \in Balanced :
                        AbsDifference(p, reference) >= AbsDifference(price, reference)

\* When the uncrossing loops stop, the whole volume the auction price promised
\* has been traded, however it was spread over levels and orders.
AuctionTradesItsVolume ==
    [][(pc = "levels" /\ pc' = "idle") => toFill = 0]_allVars

\* Nobody is filled in the auction beyond the limit of the order, and, as long
\* as no iceberg is in play, always the first orders of the two best levels.
AuctionFillsBestHeads ==
    [][(pc = "auction" /\ pc' = "tidyBuy") =>
           /\ ord[at["Buy"]].price >= clearing /\ ord[at["Sell"]].price <= clearing
           /\ Fully => at["Buy"] = BestHead("Buy") /\ at["Sell"] = BestHead("Sell")]_allVars

\* The auction executes what it announced: all of its volume, at the heads of the
\* best levels (execute_auction).
AuctionExecutes == AuctionTradesItsVolume /\ AuctionFillsBestHeads

\* The market opens uncrossed, as long as no iceberg is in play.
OpensUncrossed == Fully => NeverCrossed

\* The auction clears the market: at the best price by every criterion, and so
\* that nothing is left crossed (calculate_auction_price, execute_auction).
AuctionClears == AuctionPriceOptimal /\ OpensUncrossed
=============================================================================
