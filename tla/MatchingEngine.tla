--------------------------- MODULE MatchingEngine ---------------------------
(***************************************************************************)
(* MatchingEngine<Derived, ...> (exchange-core/matching_engine.h) with the *)
(* FIFO matching policy.                                                   *)
(*                                                                         *)
(* The engine is single threaded: a call runs to completion before the     *)
(* next one starts.  A call is modelled as a sequence of steps guarded by  *)
(* `pc': while pc # "idle" only the steps of the running call are enabled. *)
(* Each step fires at most one order event and one depth update, held in   *)
(* `event' and `depth' for the listeners until the next step, so that what *)
(* a listener sees, and when, is part of the state.                        *)
(*                                                                         *)
(* The CRTP hooks of the exchanges are in module ExchangeHooks; a profile  *)
(* names the exchange and gives its settings.  A request the validation    *)
(* rejects changes nothing and is not an action.  Hooks that only reject   *)
(* more are left out (is_tif_valid, the minimum display size) or are in    *)
(* modules of their own: the rate throttle in RateTracker, the sidecar of  *)
(* KRX in TradingSessions; apply_implied_fills is in SpreadBook.           *)
(*                                                                         *)
(* A definition marked `Mutant of X' is not part of the engine: it is what *)
(* X would be with a plausible slip, kept to show that the properties      *)
(* notice it.                                                              *)
(***************************************************************************)
EXTENDS OrderBook, ExchangeHooks, FiniteSetsExt

CONSTANTS
    MaxOrderIds,    \* template parameter: ids, and trades, an engine has room for
    Accounts,       \* accounts whose positions are tracked (0 is not)
    Profiles        \* by name, an engine's settings and what its clients do

OrderIds == 1 .. MaxOrderIds - 1
Types == {"Limit", "Market", "Stop", "StopLimit"}
StopTypes == {"Stop", "StopLimit"}
Tifs == {"DAY", "GTC", "IOC", "FOK", "GTD"}
SessionStates == {"Closed", "PreOpen", "OpeningAuction", "Continuous", "PreClose",
                  "ClosingAuction", "Halt", "VolatilityAuction", "LockLimit"}
CollectionPhases == {"PreOpen", "PreClose", "VolatilityAuction", "LockLimit"}
CancelReasons == {"UserRequested", "IOCRemainder", "FOKFailed", "Expired",
                  "SelfMatchPrevention", "LevelPoolExhausted", "MassCancelled"}

\* struct Order; `level' is the price of the level it is linked in, 0 if none.
OrderRecords ==
    [side : Sides, type : Types, tif : Tifs, account : Accounts \cup {0},
     price : Nat, level : Prices \cup {0}, quantity : Int, filled : Int,
     remaining : Int, display : Int, total : Int]
NoOrder ==
    [side |-> "Buy", type |-> "Limit", tif |-> "GTC", account |-> 0,
     price |-> 0, level |-> 0, quantity |-> 0, filled |-> 0,
     remaining |-> 0, display |-> 0, total |-> 0]

\* struct OrderRequest
OrderRequests ==
    [side : Sides, type : Types, tif : Tifs, account : Accounts \cup {0},
     price : Prices \cup {0}, stop : Prices \cup {0}, quantity : Int, display : Int]

ASSUME EngineAssumption ==
    /\ MaxOrderIds \in Nat \ {0} /\ Accounts \subseteq Nat \ {0}
    /\ \A name \in DOMAIN Profiles :
           LET p == Profiles[name] IN
           /\ p.maxOrders \in Nat /\ p.maxPriceLevels \in Nat
           /\ p.limitTiers \in Seq(Nat \X Nat)
           /\ p.sessions \subseteq SessionStates
           /\ \A req \in p.requests : req \in OrderRequests
           /\ \A m \in p.modifies : m \in [price : Prices, quantity : Int]
           /\ \A s \in p.restores : s \in [id : Nat, order : OrderRecords]
                                    /\ s.order.price \in Prices

TradeRecords ==
    [aggressor : OrderIds, resting : OrderIds, price : Prices, quantity : Int,
     side : Sides, aggressorAccount : Accounts \cup {0},
     restingAccount : Accounts \cup {0}, busted : BOOLEAN]

FillRecords == [resting : OrderIds, price : Prices, quantity : Int, left : Int]

\* The order event of a step; kind is a cancel reason or one of these.
EventKinds == {"none", "Accepted", "Filled", "PartiallyFilled", "Modified",
               "Busted"} \cup CancelReasons
Event(kind, id, resting, price, quantity) ==
    [kind |-> kind, id |-> id, resting |-> resting, price |-> price,
     quantity |-> quantity]
NoEvent == Event("none", 0, 0, 0, 0)
OrderEvent(kind, id) == Event(kind, id, 0, 0, 0)

\* DepthUpdate: the new state of one level as published.
Depth(action, side, price, quantity) ==
    [action |-> action, side |-> side, price |-> price, quantity |-> quantity]
NoDepth == Depth("none", "Buy", 0, 0)

VARIABLES
    profile,                        \* the engine's settings, fixed when it is built
    session, viRef, tier,           \* current_state_, vi_reference_price_, limit tier
    ord, index, nextId,             \* orders by id, live ids, next_order_id_
    book, stops, levelTotal,        \* queues; total_quantity of the book's levels
    freeOrders, freeLevels,         \* the two object pools
    lastTrade, position, trades,    \* last_trade_price_, PositionTracker, TradeRegistry
    pc, cur,                        \* step of the running call, its order (0: gone)
    walk, fills,                    \* level being matched, fills not yet processed
    hit,                            \* resting order of a detected self-match
    sweep,                          \* orders a running mass cancel has yet to reach
    event, depth                    \* what the last step told the listeners

poolVars == <<ord, index, nextId, freeOrders>>
bookVars == <<book, stops, levelTotal, freeLevels>>
tradeVars == <<lastTrade, position, trades>>
sessionVars == <<profile, session, viRef, tier>>
matchVars == <<walk, fills, hit>>
vars == <<poolVars, bookVars, tradeVars, sessionVars, matchVars, pc, cur, sweep,
          event, depth>>

\* Template parameters, EngineConfig (0: no check) and the settings of the hooks.
MaxOrders == Profiles[profile].maxOrders
MaxPriceLevels == Profiles[profile].maxPriceLevels
TickSize == Profiles[profile].tickSize
LotSize == Profiles[profile].lotSize
MaxOrderSize == Profiles[profile].maxOrderSize
LimitTiers == Profiles[profile].limitTiers      \* <<low, high>>, tier after tier
SmpAction == Profiles[profile].smpAction
ModifyPolicy == Profiles[profile].modifyPolicy
PositionLimit == Profiles[profile].positionLimit
Exchange == Profiles[profile].exchange          \* whose hooks it has
BandWidth == Profiles[profile].bandWidth
Volatility == Profiles[profile].volatility

\* The callers.  Bounds: they enter at most OrdersSent orders, and restore none
\* after RestoresUntil trades.
OrdersSent == Profiles[profile].ordersSent
RestoresUntil == Profiles[profile].restoresUntil
Requests == Profiles[profile].requests
ModifyRequests == Profiles[profile].modifies
RestoreRequests == Profiles[profile].restores
Sessions == Profiles[profile].sessions          \* arguments of set_session_state
Calls == Profiles[profile].calls                \* calls made besides new_order
CarefulClients == Profiles[profile].careful

Init ==
    /\ profile \in DOMAIN Profiles
    /\ session = "Continuous" /\ viRef = 0
    /\ tier = IF LimitTiers = << >> THEN 0 ELSE 1
    /\ ord = [id \in OrderIds |-> NoOrder] /\ index = {} /\ nextId = 1
    /\ book = EmptyBook /\ stops = EmptyBook
    /\ levelTotal = [side \in Sides |-> [price \in Prices |-> 0]]
    /\ freeOrders = MaxOrders /\ freeLevels = MaxPriceLevels
    /\ lastTrade = 0 /\ position = [a \in Accounts |-> 0] /\ trades = << >>
    /\ pc = "idle" /\ cur = 0 /\ walk = << >> /\ fills = << >>
    /\ hit = 0 /\ sweep = {}
    /\ event = NoEvent /\ depth = NoDepth

-----------------------------------------------------------------------------
(* Shared pieces of the handlers *)

\* Mutant of Release: the slot is given back twice.
ReleaseTwice(id) ==
    /\ ord' = [ord EXCEPT ![id] = NoOrder]
    /\ index' = index \ {id}
    /\ freeOrders' = freeOrders + 2
    /\ UNCHANGED nextId

\* Mutant of Release: the index entry is not cleared.
KeepIndexed(id) ==
    /\ ord' = [ord EXCEPT ![id] = NoOrder]
    /\ freeOrders' = freeOrders + 1
    /\ UNCHANGED <<index, nextId>>

\* order_index_[id] = nullptr; order_pool_.deallocate(order)
Release(id) ==
    /\ ord' = [ord EXCEPT ![id] = NoOrder]
    /\ index' = index \ {id}
    /\ freeOrders' = freeOrders + 1
    /\ UNCHANGED nextId

\* book_.remove_order, then level_pool_.deallocate of a level left empty;
\* `taken' was already filled away from the level's total.
Unlink(id, taken) ==
    LET o == ord[id] IN
    /\ book' = RemoveOrder(book, o.side, o.level, id)
    /\ levelTotal' = [levelTotal EXCEPT ![o.side][o.level] = @ - taken - o.remaining]
    /\ freeLevels' = freeLevels + FreedLevels(book, o.side, o.level)
    /\ UNCHANGED stops

\* fire_depth_after_remove
DepthAfterRemove(side, price) ==
    IF FreedLevels(book, side, price) = 1
    THEN Depth("Remove", side, price, 0)
    ELSE Depth("Update", side, price, levelTotal'[side][price])

\* The aggressor is cancelled: OrderCancelled, then the pool gets it back.
CancelAggressor(reason, next) ==
    /\ Release(cur)
    /\ event' = OrderEvent(reason, cur) /\ depth' = NoDepth
    /\ cur' = 0 /\ pc' = next
    /\ UNCHANGED <<bookVars, tradeVars, sessionVars, matchVars, sweep>>

\* insert_into_book: a level slot is taken from the pool before it is known
\* whether one is needed, and given back when the price already has a level.
InsertIntoBook(next) ==
    LET o == ord[cur]
        new == NewLevels(book, o.side, o.price)
    IN  IF freeLevels = 0 THEN CancelAggressor("LevelPoolExhausted", next)
        ELSE /\ book' = InsertOrder(book, o.side, o.price, cur)
             /\ levelTotal' = [levelTotal EXCEPT ![o.side][o.price] =
                                   (IF new = 1 THEN 0 ELSE @) + o.remaining]
             /\ freeLevels' = freeLevels - new
             /\ ord' = [ord EXCEPT ![cur].level = o.price]
             /\ event' = NoEvent
             /\ depth' = Depth(IF new = 1 THEN "Add" ELSE "Update", o.side,
                               o.price, levelTotal'[o.side][o.price])
             /\ cur' = 0 /\ pc' = next
             /\ UNCHANGED <<index, nextId, freeOrders, stops, tradeVars,
                            sessionVars, matchVars, sweep>>

-----------------------------------------------------------------------------
(* new_order *)

WithinBands(price) ==
    LET bands == CalculateDynamicBands(Exchange, lastTrade, BandWidth) IN
    /\ bands[1] > 0 => price >= bands[1]
    /\ bands[2] > 0 => price <= bands[2]

DailyLow == IF tier = 0 THEN 0 ELSE LimitTiers[tier][1]
DailyHigh == IF tier = 0 THEN 0 ELSE LimitTiers[tier][2]

ValidQuantity(req) ==
    /\ req.quantity > 0
    /\ LotSize > 0 => req.quantity % LotSize = 0
    /\ req.display > 0 => /\ req.display <= req.quantity
                          /\ LotSize > 0 => req.display % LotSize = 0
    /\ MaxOrderSize > 0 => req.quantity <= MaxOrderSize

\* Mutant of ValidPrices: the daily limits are not checked.
IgnoreDailyLimits(req) ==
    /\ req.type \in {"Limit", "StopLimit"} =>
           /\ req.price > 0
           /\ TickSize > 0 => req.price % TickSize = 0
           /\ WithinBands(req.price)
    /\ req.type \in StopTypes => req.stop > 0

ValidPrices(req) ==
    /\ req.type \in {"Limit", "StopLimit"} =>
           /\ req.price > 0
           /\ TickSize > 0 => req.price % TickSize = 0
           /\ WithinBands(req.price)
           /\ DailyHigh > 0 => req.price <= DailyHigh
           /\ DailyLow > 0 => req.price >= DailyLow
    /\ req.type \in StopTypes => req.stop > 0

WithinPositionLimit(req) ==
    (PositionLimit > 0 /\ req.account \in Accounts) =>
        IF req.side = "Buy" THEN position[req.account] + req.quantity <= PositionLimit
                            ELSE position[req.account] - req.quantity >= -PositionLimit

NewOrder(req) ==
    /\ pc = "idle"
    /\ ValidQuantity(req) /\ ValidPrices(req)
    /\ session # "Closed" /\ IsOrderAllowedInPhase(Exchange, req, session)
    /\ WithinPositionLimit(req)
    /\ nextId < MaxOrderIds /\ nextId <= OrdersSent /\ freeOrders > 0
    /\ ord' = [ord EXCEPT ![nextId] =
           [side |-> req.side, type |-> req.type, tif |-> req.tif,
            account |-> req.account,
            price |-> IF req.type = "Stop" THEN req.stop ELSE req.price,
            level |-> IF req.type \in StopTypes THEN req.stop ELSE 0,
            quantity |-> req.quantity, filled |-> 0,
            remaining |-> IF req.display > 0 THEN req.display ELSE req.quantity,
            display |-> req.display, total |-> req.quantity]]
    /\ index' = index \cup {nextId}
    /\ nextId' = nextId + 1
    /\ freeOrders' = freeOrders - 1
    /\ cur' = nextId
    /\ pc' = CASE req.type \in StopTypes -> "stop"
               [] req.type \notin StopTypes /\ session \in CollectionPhases -> "collect"
               [] OTHER -> "start"
    /\ event' = OrderEvent("Accepted", nextId) /\ depth' = NoDepth
    /\ UNCHANGED <<bookVars, tradeVars, sessionVars, matchVars, sweep>>

\* insert_into_stop_book; StopLimit keeps its limit price but is linked at its
\* stop price.  A stop already through the market is not triggered here.
InsertStop ==
    /\ pc = "stop"
    /\ LET o == ord[cur] IN
       IF freeLevels = 0 THEN CancelAggressor("LevelPoolExhausted", "done")
       ELSE /\ stops' = InsertOrder(stops, o.side, o.level, cur)
            /\ freeLevels' = freeLevels - NewLevels(stops, o.side, o.level)
            /\ cur' = 0 /\ pc' = "done"
            /\ event' = NoEvent /\ depth' = NoDepth
            /\ UNCHANGED <<poolVars, book, levelTotal, tradeVars, sessionVars,
                           matchVars, sweep>>

\* Collection phases and LockLimit: limit orders rest unmatched.
Collect ==
    /\ pc = "collect"
    /\ IF ord[cur].type = "Limit" THEN InsertIntoBook("done")
                                  ELSE CancelAggressor("IOCRemainder", "done")

-----------------------------------------------------------------------------
(* match_order *)

\* Mutant of Marketable: equal prices do not match.
StrictlyMarketable(o, price) ==
    o.type = "Limit" => IF o.side = "Buy" THEN price < o.price ELSE price > o.price

\* Is the level at `price' within the limit of order o?
Marketable(o, price) ==
    o.type = "Limit" => IF o.side = "Buy" THEN price <= o.price ELSE price >= o.price

\* compute_matchable_qty: what the opposite side shows within the limit.
MatchableQty(o) ==
    MapThenSumSet(LAMBDA price : levelTotal[Opposite(o.side)][price],
                  {price \in Levels(book, Opposite(o.side)) : Marketable(o, price)})

\* Mutant of FokCanFill: the check before matching is dropped.
FokAlwaysStarts(o) == TRUE

FokCanFill(o) == o.tif = "FOK" => MatchableQty(o) >= o.remaining

\* The FOK check that precedes the matching loop.
BeginMatch ==
    /\ pc = "start"
    /\ IF FokCanFill(ord[cur])
       THEN /\ pc' = "match"
            /\ event' = NoEvent /\ depth' = NoDepth
            /\ UNCHANGED <<poolVars, bookVars, tradeVars, sessionVars, matchVars,
                           cur, sweep>>
       ELSE CancelAggressor("FOKFailed", "stops")

\* The head of the loop: the best opposite level, if it is within the limit.
IsNextLevel(price) ==
    /\ cur # 0 /\ ord[cur].remaining > 0
    /\ IsBestLevel(book, Opposite(ord[cur].side), price)
    /\ Marketable(ord[cur], price)

TakeLevel(price) ==
    /\ pc = "match" /\ IsNextLevel(price)
    /\ walk' = book[Opposite(ord[cur].side)][price]
    /\ pc' = "algo"
    /\ event' = NoEvent /\ depth' = NoDepth
    /\ UNCHANGED <<poolVars, bookVars, tradeVars, sessionVars, cur, fills, hit,
                   sweep>>

AfterLoop == IF cur = 0 THEN "stops" ELSE "post"

LeaveLoop ==
    /\ pc = "match" /\ \A price \in Prices : ~ IsNextLevel(price)
    /\ pc' = AfterLoop
    /\ event' = NoEvent /\ depth' = NoDepth
    /\ UNCHANGED <<poolVars, bookVars, tradeVars, sessionVars, matchVars, cur,
                   sweep>>

\* FifoMatch::match, one resting order per step.  It moves quantity on both
\* orders before any of the fills is reported.
FifoStep ==
    /\ pc = "algo" /\ walk # << >> /\ ord[cur].remaining > 0
    /\ LET r == Head(walk)
           q == Smaller(ord[cur].remaining, ord[r].remaining)
       IN  /\ ord' = [ord EXCEPT ![r].filled = @ + q,
                                 ![r].remaining = @ - q,
                                 ![cur].remaining = @ - q]
           /\ fills' = Append(fills, [resting |-> r, price |-> ord[r].level,
                                      quantity |-> q,
                                      left |-> ord[r].remaining - q])
    /\ walk' = Tail(walk)
    /\ UNCHANGED <<index, nextId, freeOrders, bookVars, tradeVars, sessionVars,
                   hit, pc, cur, sweep, event, depth>>

FifoDone ==
    /\ pc = "algo" /\ ~ (walk # << >> /\ ord[cur].remaining > 0)
    /\ walk' = << >> /\ pc' = "fills"
    /\ UNCHANGED <<poolVars, bookVars, tradeVars, sessionVars, fills, hit, cur,
                   sweep, event, depth>>

\* Mutant of Executes: self-matches execute.
ExecutesAll(f) == pc = "fills" /\ fills # << >> /\ f = Head(fills)

\* The next fill to process is not a self-match.
Executes(f) ==
    /\ pc = "fills" /\ fills # << >> /\ f = Head(fills)
    /\ ~ IsSelfMatch(Exchange, ord[cur].account, ord[f.resting].account)

\* Mutant of Moved: only the buyer is booked.
OneSided(buyer, seller, quantity) ==
    [a \in Accounts |-> position[a] + (IF a = buyer THEN quantity ELSE 0)]

\* update_fill on both accounts; account 0 is not tracked.
Moved(buyer, seller, quantity) ==
    [a \in Accounts |-> position[a] + (IF a = buyer THEN quantity ELSE 0)
                                    - (IF a = seller THEN quantity ELSE 0)]

\* What every fill does: position, last trade, registry, order event.
ReportFill(f) ==
    LET o == ord[cur]
        account == ord[f.resting].account
    IN  /\ lastTrade' = f.price
        /\ position' = IF o.side = "Buy" THEN Moved(o.account, account, f.quantity)
                                         ELSE Moved(account, o.account, f.quantity)
        /\ trades' = IF Len(trades) >= MaxOrderIds - 1 THEN trades
                     ELSE Append(trades,
                              [aggressor |-> cur, resting |-> f.resting,
                               price |-> f.price, quantity |-> f.quantity,
                               side |-> o.side, aggressorAccount |-> o.account,
                               restingAccount |-> account, busted |-> FALSE])
        /\ event' = Event(IF o.remaining = 0 THEN "Filled" ELSE "PartiallyFilled",
                          cur, f.resting, f.price, f.quantity)
        /\ fills' = Tail(fills)
        /\ UNCHANGED <<sessionVars, walk, hit, pc, cur, sweep>>

HasHidden(o) == o.display > 0 /\ o.total > o.filled

\* Mutant of FillPartial: the level total is not reduced.
FillPartialKeepsTotal(f) ==
    /\ Executes(f) /\ f.left # 0
    /\ ReportFill(f)
    /\ ord' = [ord EXCEPT ![cur].filled = @ + f.quantity]
    /\ depth' = NoDepth
    /\ UNCHANGED <<index, nextId, freeOrders, bookVars>>

\* The resting order keeps some of its shown quantity.
FillPartial(f) ==
    /\ Executes(f) /\ f.left # 0
    /\ ReportFill(f)
    /\ LET r == ord[f.resting] IN
       /\ ord' = [ord EXCEPT ![cur].filled = @ + f.quantity]
       /\ levelTotal' = [levelTotal EXCEPT ![r.side][r.level] = @ - f.quantity]
       /\ depth' = Depth("Update", r.side, r.level, levelTotal'[r.side][r.level])
    /\ UNCHANGED <<index, nextId, freeOrders, book, stops, freeLevels>>

\* The shown tranche is used up and the next one goes to the back.
FillReveal(f) ==
    /\ Executes(f) /\ f.left = 0 /\ HasHidden(ord[f.resting])
    /\ ReportFill(f)
    /\ LET r == ord[f.resting]
           next == Smaller(r.display, r.total - r.filled)
       IN  /\ ord' = [ord EXCEPT ![cur].filled = @ + f.quantity,
                                 ![f.resting].remaining = next]
           /\ book' = Requeue(book, r.side, r.level, f.resting)
           /\ levelTotal' = [levelTotal EXCEPT ![r.side][r.level] =
                                 @ - f.quantity + next]
           /\ depth' = Depth("Update", r.side, r.level,
                             levelTotal'[r.side][r.level])
    /\ UNCHANGED <<index, nextId, freeOrders, stops, freeLevels>>

\* The resting order is done.  The depth update says the level is gone, even
\* when other orders still rest there.
FillRemove(f) ==
    /\ Executes(f) /\ f.left = 0 /\ ~ HasHidden(ord[f.resting])
    /\ ReportFill(f)
    /\ Unlink(f.resting, f.quantity)
    /\ ord' = [ord EXCEPT ![cur].filled = @ + f.quantity, ![f.resting] = NoOrder]
    /\ index' = index \ {f.resting}
    /\ freeOrders' = freeOrders + 1
    /\ depth' = Depth("Remove", ord[f.resting].side, f.price, 0)
    /\ UNCHANGED nextId

-----------------------------------------------------------------------------
(* Self-match prevention: undo_fills, then apply_smp_action *)

DetectSelfMatch ==
    /\ pc = "fills" /\ fills # << >>
    /\ IsSelfMatch(Exchange, ord[cur].account, ord[Head(fills).resting].account)
    /\ hit' = Head(fills).resting
    /\ pc' = "undo"
    /\ event' = NoEvent /\ depth' = NoDepth
    /\ UNCHANGED <<poolVars, bookVars, tradeVars, sessionVars, walk, fills, cur,
                   sweep>>

\* The self-match and every fill after it are taken back.
UndoFill ==
    /\ pc = "undo" /\ fills # << >>
    /\ LET f == Head(fills) IN
       ord' = [ord EXCEPT ![f.resting].filled = @ - f.quantity,
                          ![f.resting].remaining = @ + f.quantity,
                          ![cur].remaining = @ + f.quantity]
    /\ fills' = Tail(fills)
    /\ UNCHANGED <<index, nextId, freeOrders, bookVars, tradeVars, sessionVars,
                   walk, hit, pc, cur, sweep, event, depth>>

SmpCancelNewest ==
    /\ pc = "undo" /\ fills = << >> /\ SmpAction = "CancelNewest"
    /\ Release(cur)
    /\ event' = OrderEvent("SelfMatchPrevention", cur) /\ depth' = NoDepth
    /\ cur' = 0 /\ hit' = 0 /\ pc' = "limits"
    /\ UNCHANGED <<bookVars, tradeVars, sessionVars, walk, fills, sweep>>

\* Mutant of SmpCancelResting: the resting order stays.
SmpKeepResting ==
    /\ pc = "undo" /\ fills = << >> /\ SmpAction \in {"CancelOldest", "CancelBoth"}
    /\ hit' = 0 /\ pc' = "limits"
    /\ event' = NoEvent /\ depth' = NoDepth
    /\ UNCHANGED <<poolVars, bookVars, tradeVars, sessionVars, walk, fills, cur,
                   sweep>>

\* Mutant of SmpCancelResting: the older order goes before the fills are undone.
SmpCancelBeforeUndo ==
    /\ pc = "undo" /\ SmpAction \in {"CancelOldest", "CancelBoth"}
    /\ Unlink(hit, 0)
    /\ Release(hit)
    /\ event' = OrderEvent("SelfMatchPrevention", hit)
    /\ depth' = DepthAfterRemove(ord[hit].side, ord[hit].level)
    /\ hit' = 0
    /\ pc' = IF SmpAction = "CancelBoth" THEN "smpBoth" ELSE "limits"
    /\ UNCHANGED <<tradeVars, sessionVars, walk, fills, cur, sweep>>

\* CancelOldest, and the first half of CancelBoth, which is silent about a
\* level that keeps other orders.
SmpCancelResting ==
    /\ pc = "undo" /\ fills = << >> /\ SmpAction \in {"CancelOldest", "CancelBoth"}
    /\ Unlink(hit, 0)
    /\ Release(hit)
    /\ event' = OrderEvent("SelfMatchPrevention", hit)
    /\ LET r == ord[hit] IN
       depth' = IF SmpAction = "CancelBoth" /\ FreedLevels(book, r.side, r.level) = 0
                THEN NoDepth ELSE DepthAfterRemove(r.side, r.level)
    /\ hit' = 0
    /\ pc' = IF SmpAction = "CancelBoth" THEN "smpBoth" ELSE "limits"
    /\ UNCHANGED <<tradeVars, sessionVars, walk, fills, cur, sweep>>

SmpCancelBoth ==
    /\ pc = "smpBoth"
    /\ CancelAggressor("SelfMatchPrevention", "limits")

\* Decrement and None leave both orders as they were.
SmpContinue ==
    /\ pc = "undo" /\ fills = << >> /\ SmpAction \in {"Decrement", "None"}
    /\ hit' = 0 /\ pc' = "limits"
    /\ event' = NoEvent /\ depth' = NoDepth
    /\ UNCHANGED <<poolVars, bookVars, tradeVars, sessionVars, walk, fills, cur,
                   sweep>>

-----------------------------------------------------------------------------
(* After each level: check_daily_limit_hit, check_volatility_interruption *)

FillsDone ==
    /\ pc = "fills" /\ fills = << >>
    /\ pc' = "limits"
    /\ event' = NoEvent /\ depth' = NoDepth
    /\ UNCHANGED <<poolVars, bookVars, tradeVars, sessionVars, matchVars, cur,
                   sweep>>

AtDailyLimit ==
    \/ DailyHigh > 0 /\ lastTrade >= DailyHigh
    \/ DailyLow > 0 /\ lastTrade <= DailyLow

EndLevel(next) ==
    /\ pc = "limits" /\ pc' = next
    /\ event' = NoEvent /\ depth' = NoDepth
    /\ UNCHANGED <<poolVars, bookVars, tradeVars, matchVars, cur, sweep>>

StillLocked ==
    /\ session = "LockLimit"
    /\ EndLevel(AfterLoop)
    /\ UNCHANGED sessionVars

\* on_daily_limit_hit widens to the next tier and goes back to Continuous
\* (KRX); the default, and the last tier, stay in LockLimit.
HitDailyLimit ==
    /\ session # "LockLimit" /\ AtDailyLimit
    /\ EndLevel(AfterLoop)
    /\ IF tier < Len(LimitTiers)
       THEN /\ tier' = tier + 1
            /\ session' = "Continuous"
            /\ viRef' = IF lastTrade > 0 THEN lastTrade ELSE viRef
       ELSE session' = "LockLimit" /\ UNCHANGED <<tier, viRef>>
    /\ UNCHANGED profile

VolatilityInterrupts ==
    /\ session = "Continuous" /\ viRef # 0
    /\ ShouldTriggerVolatilityAuction(Exchange, lastTrade, viRef, Volatility)

InterruptVolatility ==
    /\ session # "LockLimit" /\ ~ AtDailyLimit /\ VolatilityInterrupts
    /\ EndLevel(AfterLoop)
    /\ session' = "VolatilityAuction"
    /\ UNCHANGED <<profile, viRef, tier>>

NextLevel ==
    /\ session # "LockLimit" /\ ~ AtDailyLimit /\ ~ VolatilityInterrupts
    /\ EndLevel("match")
    /\ UNCHANGED sessionVars

-----------------------------------------------------------------------------
(* post_match and check_and_trigger_stops *)

PostFilled ==
    /\ pc = "post" /\ ord[cur].remaining = 0
    /\ Release(cur)
    /\ event' = NoEvent /\ depth' = NoDepth
    /\ cur' = 0 /\ pc' = "stops"
    /\ UNCHANGED <<bookVars, tradeVars, sessionVars, matchVars, sweep>>

\* What becomes of a remainder: its cancel reason, or "" when it rests.
RemainderReason(o) ==
    IF o.type = "Market" \/ o.tif = "IOC" THEN "IOCRemainder"
    ELSE IF o.tif = "FOK" THEN "FOKFailed" ELSE ""

PostRemainder ==
    /\ pc = "post" /\ ord[cur].remaining # 0
    /\ LET reason == RemainderReason(ord[cur]) IN
       IF reason = "" THEN InsertIntoBook("stops") ELSE CancelAggressor(reason, "stops")

\* The head level of the stop book has been reached by the last trade.
StopReached(side, price) ==
    /\ lastTrade > 0
    /\ IsFirstStopLevel(stops, side, price)
    /\ IF side = "Buy" THEN lastTrade >= price ELSE lastTrade <= price

\* next_triggered_stop looks at the buy stops first.
TriggerStop(side, price) ==
    /\ pc = "stops"
    /\ StopReached(side, price)
    /\ side = "Sell" => \A p \in Prices : ~ StopReached("Buy", p)
    /\ LET id == Head(stops[side][price]) IN
       /\ stops' = RemoveOrder(stops, side, price, id)
       /\ freeLevels' = freeLevels + FreedLevels(stops, side, price)
       /\ ord' = [ord EXCEPT ![id].type = IF @ = "Stop" THEN "Market" ELSE "Limit",
                             ![id].price = IF ord[id].type = "Stop" THEN 0 ELSE @,
                             ![id].level = 0]
       /\ cur' = id
    /\ pc' = "start"
    /\ event' = NoEvent /\ depth' = NoDepth
    /\ UNCHANGED <<index, nextId, freeOrders, book, levelTotal, tradeVars,
                   sessionVars, matchVars, sweep>>

\* The call returns to its caller.
Return ==
    /\ \/ pc = "done"
       \/ pc = "stops" /\ \A side \in Sides, p \in Prices : ~ StopReached(side, p)
    /\ pc' = "idle"
    /\ event' = NoEvent /\ depth' = NoDepth
    /\ UNCHANGED <<poolVars, bookVars, tradeVars, sessionVars, matchVars, cur, sweep>>

-----------------------------------------------------------------------------
(* cancel_order, the mass cancels and trigger_expiry *)

InBook(b, id) == ord[id].level # 0 /\ Contains(b[ord[id].side][ord[id].level], id)

\* An order is unlinked through the heads of a book it is not in.  That shows
\* only when its level goes too and is the first or last of its list: then one
\* book's head is overwritten and the other keeps a freed level.
LosesHead(b, id) ==
    LET o == ord[id]
        others == Levels(b, o.side) \ {o.level}
    IN  /\ Len(b[o.side][o.level]) = 1
        /\ ~ \E p, q \in others : p < o.level /\ o.level < q

\* Nothing is said of what follows.
Corrupt ==
    /\ pc' = "corrupt" /\ cur' = 0 /\ sweep' = {}
    /\ event' = NoEvent /\ depth' = NoDepth
    /\ UNCHANGED <<poolVars, bookVars, tradeVars, sessionVars, matchVars>>

\* cancel_active_order decides by the order's type which book it is in.
CancelFromStops(id) ==
    /\ stops' = RemoveOrder(stops, ord[id].side, ord[id].level, id)
    /\ freeLevels' = freeLevels + FreedLevels(stops, ord[id].side, ord[id].level)
    /\ depth' = NoDepth
    /\ UNCHANGED <<book, levelTotal>>

CancelFromBook(id) ==
    /\ Unlink(id, 0)
    /\ depth' = DepthAfterRemove(ord[id].side, ord[id].level)

\* A stop that rests in the main book, restored or modified into it.
IsMisplaced(id) == ord[id].type \in StopTypes /\ InBook(book, id)

CancelActive(id, reason) ==
    /\ \/ InBook(stops, id) /\ CancelFromStops(id)
       \/ InBook(book, id) /\ ~ IsMisplaced(id) /\ CancelFromBook(id)
       \/ IsMisplaced(id) /\ ~ LosesHead(book, id) /\ Unlink(id, 0) /\ depth' = NoDepth
    /\ Release(id)
    /\ event' = OrderEvent(reason, id)
    /\ UNCHANGED <<tradeVars, sessionVars, matchVars, cur>>

CancelMisplaced(id) == IsMisplaced(id) /\ LosesHead(book, id) /\ Corrupt

CancelOrder(id) ==
    /\ pc = "idle" /\ session # "Closed" /\ id \in index
    /\ \/ CancelActive(id, "UserRequested") /\ pc' = "done" /\ UNCHANGED sweep
       \/ CancelMisplaced(id)

\* The scans of order_index_ run in id order and cancel what qualifies.
BeginSweep(ids, how) ==
    /\ pc = "idle" /\ ids # {}
    /\ sweep' = ids /\ pc' = how
    /\ UNCHANGED <<poolVars, bookVars, tradeVars, sessionVars, matchVars, cur, event,
                   depth>>

MassCancel(account) ==
    BeginSweep({id \in index : ord[id].account = account}, "massCancel")
MassCancelAll == BeginSweep(index, "massCancel")

\* trigger_expiry: every DAY order, or the GTD orders whose time has come.
ExpireDay == BeginSweep({id \in index : ord[id].tif = "DAY"}, "expire")
ExpireGtd ==
    \E ids \in SUBSET {id \in index : ord[id].tif = "GTD"} : BeginSweep(ids, "expire")

SweepStep ==
    /\ pc \in {"massCancel", "expire"}
    /\ LET id == Min(sweep)
           reason == IF pc = "expire" THEN "Expired" ELSE "MassCancelled"
       IN  \/ /\ CancelActive(id, reason)
              /\ sweep' = sweep \ {id}
              /\ pc' = IF sweep' = {} THEN "done" ELSE pc
           \/ CancelMisplaced(id)

-----------------------------------------------------------------------------
(* modify_order *)

ValidModify(m) ==
    /\ session # "Closed" /\ ModifyPolicy # "RejectModify"
    /\ m.quantity > 0 /\ m.price > 0
    /\ TickSize > 0 => m.price % TickSize = 0
    /\ LotSize > 0 => m.quantity % LotSize = 0

\* Clients that modify only live limit orders, and never to or below what has
\* already been filled.  The engine does not ask this of them.
Careful(id, m) ==
    CarefulClients => ord[id].type = "Limit" /\ m.quantity > ord[id].filled

Amends(o, m) ==
    /\ ModifyPolicy = "AmendDown" /\ m.price = o.price
    /\ m.quantity < o.quantity /\ m.quantity > o.filled

\* In place, keeping the queue position.  The total of a stop level changes
\* too, and is published as if it were a level of the book.
AmendDown(id, m) ==
    LET o == ord[id]
        left == m.quantity - o.filled
        inStops == InBook(stops, id)
        queue == IF inStops THEN stops[o.side][o.level] ELSE << >>
    IN  /\ Amends(o, m)
        /\ ord' = [ord EXCEPT ![id].quantity = m.quantity, ![id].remaining = left]
        /\ levelTotal' = IF inStops THEN levelTotal
                         ELSE [levelTotal EXCEPT ![o.side][o.level] =
                                   @ - (o.remaining - left)]
        /\ depth' = Depth("Update", o.side, o.level,
                          IF inStops
                          THEN MapThenSumSet(LAMBDA i : ord'[queue[i]].remaining,
                                             DOMAIN queue)
                          ELSE levelTotal'[o.side][o.level])
        /\ event' = OrderEvent("Modified", id)
        /\ pc' = "done"
        /\ UNCHANGED <<index, nextId, freeOrders, book, stops, freeLevels, tradeVars,
                       sessionVars, matchVars, cur, sweep>>

\* The modified order is matched again like a new one, whatever the phase and
\* without a look at bands or limits.
Reenter(id, m) ==
    /\ ord' = [ord EXCEPT ![id].price = m.price, ![id].quantity = m.quantity,
                          ![id].remaining = m.quantity - ord[id].filled,
                          ![id].level = 0]
    /\ event' = OrderEvent("Modified", id)
    /\ cur' = id /\ pc' = "start"
    /\ UNCHANGED <<index, nextId, freeOrders, tradeVars, sessionVars, matchVars, sweep>>

CancelReplace(id, m) ==
    LET o == ord[id] IN
    /\ ~ Amends(o, m) /\ InBook(book, id)
    /\ Unlink(id, 0)
    /\ depth' = DepthAfterRemove(o.side, o.level)
    /\ Reenter(id, m)

\* The same code on an order of the stop book.  It stays a stop by type, so the
\* match that follows has no price limit and the remainder rests in the book.
ReplaceStop(id, m) ==
    LET o == ord[id]
        freed == FreedLevels(stops, o.side, o.level)
    IN  /\ ~ Amends(o, m) /\ InBook(stops, id) /\ ~ LosesHead(stops, id)
        /\ stops' = RemoveOrder(stops, o.side, o.level, id)
        /\ freeLevels' = freeLevels + freed
        /\ depth' = IF freed = 1 THEN Depth("Remove", o.side, o.price, 0)
                    ELSE IF book[o.side][o.price] = << >> THEN NoDepth
                    ELSE Depth("Update", o.side, o.price, levelTotal[o.side][o.price])
        /\ Reenter(id, m)
        /\ UNCHANGED <<book, levelTotal>>

ModifyOrder(id, m) ==
    /\ pc = "idle" /\ id \in index /\ ValidModify(m) /\ Careful(id, m)
    /\ \/ AmendDown(id, m)
       \/ CancelReplace(id, m)
       \/ ReplaceStop(id, m)
       \/ ~ Amends(ord[id], m) /\ InBook(stops, id) /\ LosesHead(stops, id) /\ Corrupt

-----------------------------------------------------------------------------
(* restore_order, bust_trade and the session calls *)

\* The order enters the book as it was saved, in any phase, without matching
\* and, whatever its type, in the main book.  Its id may be one that an order had
\* before it.  Bounds: ids up to OrdersSent, and only while fewer than
\* RestoresUntil trades are on record.
RestoreOrder(s) ==
    /\ pc = "idle" /\ Len(trades) < RestoresUntil
    /\ s.id <= OrdersSent /\ s.id \in OrderIds \ index /\ s.order.remaining > 0
    /\ LotSize > 0 => s.order.quantity % LotSize = 0
    /\ s.order.type \in {"Limit", "StopLimit"} =>
           /\ s.order.price > 0
           /\ TickSize > 0 => s.order.price % TickSize = 0
           /\ WithinBands(s.order.price)
    /\ freeOrders > 0
    /\ ord' = [ord EXCEPT ![s.id] = [s.order EXCEPT !.level = 0]]
    /\ index' = index \cup {s.id}
    /\ nextId' = IF s.id >= nextId THEN s.id + 1 ELSE nextId
    /\ freeOrders' = freeOrders - 1
    /\ cur' = s.id /\ pc' = "restore"
    /\ event' = OrderEvent("Accepted", s.id) /\ depth' = NoDepth
    /\ UNCHANGED <<bookVars, tradeVars, sessionVars, matchVars, sweep>>

InsertRestored ==
    /\ pc = "restore"
    /\ InsertIntoBook("done")

\* How often trade t names order id: an implied fill names it twice.
Named(t, id) ==
    (IF t.aggressor = id THEN 1 ELSE 0) + (IF t.resting = id THEN 1 ELSE 0)

\* Mutant of BustTrade: the level total is not restored.
BustKeepsTotal(i) ==
    /\ pc = "idle" /\ session # "Closed"
    /\ i \in DOMAIN trades /\ ~ trades[i].busted
    /\ LET t == trades[i]
           Back(id) == IF id \in index THEN Named(t, id) * t.quantity ELSE 0
       IN  /\ ord' = [id \in OrderIds |->
                         [ord[id] EXCEPT !.filled = @ - Back(id),
                                         !.remaining = @ + Back(id)]]
           /\ position' = IF t.side = "Buy"
                          THEN Moved(t.restingAccount, t.aggressorAccount, t.quantity)
                          ELSE Moved(t.aggressorAccount, t.restingAccount, t.quantity)
    /\ trades' = [trades EXCEPT ![i].busted = TRUE]
    /\ event' = NoEvent /\ depth' = NoDepth /\ pc' = "done"
    /\ UNCHANGED <<index, nextId, freeOrders, bookVars, lastTrade, sessionVars, matchVars,
                   cur, sweep>>

\* Gives the quantity back to those of the two orders that are still alive.
\* No depth update follows.
BustTrade(i) ==
    /\ pc = "idle" /\ session # "Closed"
    /\ i \in DOMAIN trades /\ ~ trades[i].busted
    /\ LET t == trades[i]
           Back(id) == IF id \in index THEN Named(t, id) * t.quantity ELSE 0
           BackAt(id, side, price) ==
               IF id \in index /\ ord[id].side = side /\ ord[id].level = price
               THEN t.quantity ELSE 0
       IN  /\ ord' = [id \in OrderIds |->
                         [ord[id] EXCEPT !.filled = @ - Back(id),
                                         !.remaining = @ + Back(id)]]
           /\ levelTotal' = [side \in Sides |-> [price \in Prices |->
                  levelTotal[side][price] + BackAt(t.aggressor, side, price)
                                          + BackAt(t.resting, side, price)]]
           /\ position' = IF t.side = "Buy"
                          THEN Moved(t.restingAccount, t.aggressorAccount, t.quantity)
                          ELSE Moved(t.aggressorAccount, t.restingAccount, t.quantity)
           /\ event' = Event("Busted", t.aggressor, t.resting, t.price, t.quantity)
    /\ trades' = [trades EXCEPT ![i].busted = TRUE]
    /\ depth' = NoDepth /\ pc' = "done"
    /\ UNCHANGED <<index, nextId, freeOrders, book, stops, freeLevels, lastTrade,
                   sessionVars, matchVars, cur, sweep>>

SetSessionState(new) ==
    /\ pc = "idle" /\ session # new
    /\ session' = new
    /\ viRef' = IF new = "Continuous" /\ lastTrade > 0 THEN lastTrade ELSE viRef
    /\ UNCHANGED <<profile, tier, poolVars, bookVars, tradeVars, matchVars, pc, cur, sweep,
                   event, depth>>

UnlockLimit ==
    /\ pc = "idle" /\ session = "LockLimit"
    /\ session' = "Continuous"
    /\ UNCHANGED <<profile, viRef, tier, poolVars, bookVars, tradeVars, matchVars, pc,
                   cur, sweep, event, depth>>

-----------------------------------------------------------------------------

MatchStep ==
    \/ BeginMatch
    \/ \E price \in Prices : TakeLevel(price)
    \/ LeaveLoop
    \/ FifoStep \/ FifoDone
    \/ \E f \in ToSet(fills) : FillPartial(f) \/ FillReveal(f) \/ FillRemove(f)
    \/ DetectSelfMatch \/ UndoFill
    \/ SmpCancelNewest \/ SmpCancelResting \/ SmpCancelBoth \/ SmpContinue
    \/ FillsDone
    \/ StillLocked \/ HitDailyLimit \/ InterruptVolatility \/ NextLevel
    \/ PostFilled \/ PostRemainder
    \/ \E side \in Sides, price \in Prices : TriggerStop(side, price)

\* The steps of the call that is running.
RunningStep ==
    \/ InsertStop \/ Collect \/ InsertRestored \/ SweepStep
    \/ MatchStep
    \/ Return

\* A call from outside.
Call ==
    \/ \E req \in Requests : NewOrder(req)
    \/ "cancel" \in Calls /\ \E id \in OrderIds : CancelOrder(id)
    \/ "modify" \in Calls /\ \E id \in OrderIds, m \in ModifyRequests : ModifyOrder(id, m)
    \/ "massCancel" \in Calls /\ \E account \in Accounts \cup {0} : MassCancel(account)
    \/ "massCancel" \in Calls /\ MassCancelAll
    \/ "expire" \in Calls /\ (ExpireDay \/ ExpireGtd)
    \/ "restore" \in Calls /\ \E s \in RestoreRequests : RestoreOrder(s)
    \/ "bust" \in Calls /\ \E i \in DOMAIN trades : BustTrade(i)
    \/ \E new \in Sessions : SetSessionState(new)
    \/ "unlock" \in Calls /\ UnlockLimit

Next == Call \/ RunningStep

\* A call that has begun goes on: the engine's thread does not stop inside it.
Spec == Init /\ [][Next]_vars /\ WF_vars(RunningStep)

-----------------------------------------------------------------------------
(* Properties *)

PcValues == {"idle", "stop", "collect", "restore", "start", "match", "algo", "fills",
             "undo", "smpBoth", "limits", "post", "stops", "massCancel", "expire",
             "done", "corrupt"}

\* Every variable keeps its type; in particular a pool never holds more free
\* slots than it was built with, which a slot given back twice would show.
TypeOK ==
    /\ profile \in DOMAIN Profiles
    /\ session \in SessionStates /\ viRef \in Nat /\ tier \in 0 .. Len(LimitTiers)
    /\ ord \in [OrderIds -> OrderRecords]
    /\ index \subseteq OrderIds /\ nextId \in 1 .. MaxOrderIds
    /\ book \in [Sides -> [Prices -> Seq(OrderIds)]]
    /\ stops \in [Sides -> [Prices -> Seq(OrderIds)]]
    /\ levelTotal \in [Sides -> [Prices -> Int]]
    /\ freeOrders \in 0 .. MaxOrders /\ freeLevels \in 0 .. MaxPriceLevels
    /\ lastTrade \in Nat
    /\ position \in [Accounts -> Int] /\ trades \in Seq(TradeRecords)
    /\ pc \in PcValues
    /\ cur \in OrderIds \cup {0} /\ hit \in OrderIds \cup {0}
    /\ walk \in Seq(OrderIds) /\ fills \in Seq(FillRecords)
    /\ sweep \subseteq OrderIds
    /\ event.kind \in EventKinds
    /\ depth.action \in {"none", "Add", "Update", "Remove"}

\* order_index_, the intrusive lists and the orders' level pointers agree at
\* every step, mid-match included: each queue holds live orders of its own side
\* and price, none twice, and each live order except the one being worked on is
\* in exactly one of the two books.
LinksAgree ==
    /\ \A b \in {book, stops}, side \in Sides, price \in Prices :
           LET queue == b[side][price] IN
           /\ IsInjective(queue)
           /\ \A id \in ToSet(queue) : /\ id \in index
                                       /\ ord[id].side = side /\ ord[id].level = price
    /\ \A id \in index \ {cur} : InBook(book, id) # InBook(stops, id)

\* Neither pool leaks or hands a slot out twice: free order slots and live ids,
\* free level slots and linked levels of both books, always add up.
PoolsConserved ==
    /\ freeOrders + Cardinality(index) = MaxOrders
    /\ freeLevels + LevelCount(book) + LevelCount(stops) = MaxPriceLevels

\* The books, the index, the orders and the two pools agree at every step.
BooksConsistent == LinksAgree /\ PoolsConserved

\* The fills of a level are computed first and hold pointers to its orders.
\* While the fills before it, a self-match or an undo change the book, a fill
\* still to be processed points to an order that is alive and rests there, and
\* no two point to the same.
FillsPointToResting ==
    /\ \A i \in DOMAIN fills : /\ fills[i].resting \in index
                               /\ InBook(book, fills[i].resting)
    /\ \A i, j \in DOMAIN fills : fills[i].resting = fills[j].resting => i = j

\* Quantity of the fills the matching policy has computed but the engine has
\* not processed, of all orders or of one resting order.
Unprocessed(test(_)) ==
    MapThenSumSet(LAMBDA i : fills[i].quantity, {i \in DOMAIN fills : test(fills[i])})

\* total_quantity of a level is what its orders have left, corrected during
\* matching by the fills still to be processed; FOK checks, auctions and every
\* depth update read it.
LevelTotalsExact ==
    \A side \in Sides, price \in Prices :
        LET queue == book[side][price] IN
        levelTotal[side][price] =
            MapThenSumSet(LAMBDA i : ord[queue[i]].remaining, DOMAIN queue)
            + Unprocessed(LAMBDA f : f.resting \in ToSet(queue))

\* No order loses or gains quantity through partial fills, undone fills,
\* modifies and busts: filled and remaining add up to the order's quantity.
QuantityConserved ==
    \A id \in index :
        LET o == ord[id] IN
        o.display = 0 =>
            o.filled + o.remaining
                + (IF id = cur THEN Unprocessed(LAMBDA f : TRUE) ELSE 0) = o.quantity

\* Quantities add up: those of the levels over their orders, those of an order
\* over what was filled and what remains (remaining_quantity, filled_quantity and
\* total_quantity, which the engine changes at different places).
QuantitiesAddUp == LevelTotalsExact /\ QuantityConserved

\* The position the limit check relies on is the sum of the trades that stand,
\* after fills of either side, several accounts in one sweep, and busts.
PositionsMatchTrades ==
    Len(trades) < MaxOrderIds - 1 =>
    \A a \in Accounts :
        position[a] = MapThenSumSet(
            LAMBDA i : LET t == trades[i]
                           bought == IF t.side = "Buy" THEN t.aggressorAccount
                                                       ELSE t.restingAccount
                           sold == IF t.side = "Buy" THEN t.restingAccount
                                                     ELSE t.aggressorAccount
                       IN  IF t.busted THEN 0
                           ELSE (IF a = bought THEN t.quantity ELSE 0)
                                - (IF a = sold THEN t.quantity ELSE 0),
            DOMAIN trades)

\* Between calls in continuous trading no bid is at or above an ask.
NeverCrossed ==
    (pc = "idle" /\ session = "Continuous") =>
        \A bid \in Levels(book, "Buy"), ask \in Levels(book, "Sell") : bid < ask

FillEvents == {"Filled", "PartiallyFilled"}
FillHappens == event' # event /\ event'.kind \in FillEvents

\* Price-time priority as the clients see it: each fill is against the order
\* at the head of the best opposite level at that moment, although the fills
\* of a whole level were computed before the first of them is processed.
FillsHeadOfBest ==
    [][FillHappens =>
         LET r == event'.resting
             side == Opposite(ord[cur].side)
         IN  /\ IsBestLevel(book, side, event'.price)
             /\ Head(book[side][event'.price]) = r]_vars

\* No order is overtaken at its price: whoever is behind it, and whoever joins
\* the level, stays behind it through fills, amends, busts and restores.  Only
\* an iceberg showing its next tranche falls back.
TimePriorityKept ==
    [][\A side \in Sides, price \in Prices :
         LET old == book[side][price]
             new == book'[side][price]
         IN  \A i \in DOMAIN old, k, l \in DOMAIN new :
                 (new[l] = old[i] /\ k < l /\ \A j \in 1 .. i : new[k] # old[j])
                     => FillHappens /\ old[i] = event'.resting
                        /\ ord[old[i]].display > 0]_vars

\* Price-time priority: fills go to the head of the best level and nobody is
\* overtaken there (match_order, modify_order, the iceberg's next tranche).
PriorityKept == FillsHeadOfBest /\ TimePriorityKept

\* No trade on record is between orders the exchange calls a self-match.
NoSelfTrade ==
    \A i \in DOMAIN trades :
        ~ IsSelfMatch(Exchange, trades[i].aggressorAccount, trades[i].restingAccount)

FokCancelled(id) ==
    event' # event /\ event'.kind \in CancelReasons /\ event'.id = id /\ ord[id].tif = "FOK"

\* A fill-or-kill order that is cancelled, for whatever reason, has not traded,
\* where self-matches are not prevented and no phase collects orders unmatched: the
\* quantity the check before the match counts is then still there when it is
\* reached, and the order never waits to be cancelled.
FokAtomicWithoutSmp ==
    [][Exchange = "Default" /\ Sessions = {} /\ LimitTiers = << >> =>
           \A id \in index : FokCancelled(id) => ord[id].filled = 0]_vars

\* An iceberg may end short of its quantity, or beyond it: one that comes in and is
\* filled at once ends with the tranche it shows, the rest never having been in the
\* market, and one that was modified to less goes on to the total it had at first.
EndsAsIceberg(id) ==
    /\ ord[id].display > 0
    /\ \/ id = cur /\ ord[id].filled = ord[id].display
       \/ id # cur /\ ord[id].quantity < ord[id].total /\ ord[id].filled = ord[id].total

\* An order leaves the engine cancelled, or executed to exactly its quantity:
\* through modifies, undone fills, busts and several aggressors.  An iceberg is
\* excepted only in the two cases above.
LeavesFilledOrCancelled ==
    [][\A id \in index \ index' :
           \/ event'.kind \in CancelReasons
           \/ ord[id].filled = ord[id].quantity
           \/ EndsAsIceberg(id)]_vars

\* How an order ends: executed to its quantity or cancelled, and a fill-or-kill
\* order not in between (post_match, modify_order, the FOK check).
EndsAsPromised == LeavesFilledOrCancelled /\ FokAtomicWithoutSmp

\* Every call comes to its end: the level loop, the SMP retries and the stop
\* cascade all terminate, if self-match prevention cancels an order.
CallReturnsAfterCancel ==
    (pc # "idle" /\ SmpAction \notin {"Decrement", "None"}) ~> pc \in {"idle", "corrupt"}
=============================================================================
