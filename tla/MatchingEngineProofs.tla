------------------------ MODULE MatchingEngineProofs ------------------------
(***************************************************************************)
(* For every set of prices, accounts and profiles: the engine's books,     *)
(* index and pools agree at every step, and no trade is a self-match.      *)
(***************************************************************************)
EXTENDS EngineUnlinkSteps

USE DEF poolVars, bookVars, tradeVars, sessionVars, matchVars,
        PcValues, EventKinds, NoEvent, OrderEvent, Event, NoDepth, Depth

-----------------------------------------------------------------------------
(* An order is unlinked to be worked on again *)

\* It leaves its queue, and the level slot of a queue it leaves empty goes back.
LEMMA ReworkKeeps ==
    ASSUME EngineInv, cur = 0, NEW id \in index, cur' = id,
           ord' \in Orders, ord'[id].level = 0, SameShape(ord, ord', index \ {id}),
           ord'[id].type # "Market" => ord'[id].price \in Prices,
           UNCHANGED <<profile, index, nextId, freeOrders>>,
           \/ Linked(ord, book, id) /\ Unlink(id, 0)
           \/ /\ Linked(ord, stops, id) /\ UNCHANGED <<book, levelTotal>>
              /\ stops' = RemoveOrder(stops, ord[id].side, ord[id].level, id)
              /\ freeLevels' = freeLevels + FreedLevels(stops, ord[id].side, ord[id].level)
    PROVE  /\ Structure' /\ freeLevels' \in Nat
           /\ book' \in Books(OrderIds) /\ stops' \in Books(OrderIds)
           /\ levelTotal' \in [Sides -> [Prices -> Int]]
<1>1. /\ Typed /\ PoolsConserved /\ LinksOK(ord, index, cur, book, stops)
      /\ Places(ord, index) /\ cur \notin index
  BY LiveIds DEF EngineInv, Structure
<1>2. SamePlace(ord, ord', index \ {id})
  BY DEF SameShape, SamePlace
<1>3. \A x \in index \ {id} : /\ x < nextId
                              /\ ord'[x].type # "Market" => ord'[x].price \in Prices
                              /\ Linked(ord, stops, x) => ord'[x].type # "Market"
  BY DEF EngineInv, Structure, SameShape
<1>4. id < nextId /\ ~ Linked(ord', stops', id)
  BY DEF EngineInv, Structure, Linked
<1>5. /\ LinksOK(ord', index, id, book', stops') /\ freeLevels' \in Nat
      /\ \A x \in index \ {id} : Linked(ord', stops', x) => Linked(ord, stops, x)
      /\ freeLevels' + LevelCount(book') + LevelCount(stops') = MaxPriceLevels'
      /\ book' \in Books(OrderIds) /\ stops' \in Books(OrderIds)
      /\ levelTotal' \in [Sides -> [Prices -> Int]]
  <2>1. CASE Linked(ord, book, id) /\ Unlink(id, 0)
    <3>1. id \in Resting /\ 0 \in Int /\ Unlink(id, 0) /\ profile' = profile
      BY <2>1 DEF Resting
    <3>2. /\ Unlinked(OrderIds, ord, book, stops, id, book') /\ stops' = stops
          /\ book' \in Books(OrderIds) /\ freeLevels' \in Nat
          /\ levelTotal' \in [Sides -> [Prices -> Int]]
          /\ freeLevels' + LevelCount(book') + LevelCount(stops') = MaxPriceLevels'
      BY <3>1, UnlinkEffect
    <3>3. LinksOK(ord', index, id, book', stops)
      BY <1>1, <1>2, <3>2, LinksUnlink
    <3>4. \A x \in index \ {id} : Linked(ord', stops, x) => Linked(ord, stops, x)
      BY <1>2 DEF SamePlace, Linked
    <3> QED BY <1>1, <3>2, <3>3, <3>4 DEF Typed
  <2>2. CASE /\ Linked(ord, stops, id) /\ UNCHANGED <<book, levelTotal>>
             /\ stops' = RemoveOrder(stops, ord[id].side, ord[id].level, id)
             /\ freeLevels' = freeLevels + FreedLevels(stops, ord[id].side, ord[id].level)
    <3>1. /\ Unlinked(OrderIds, ord, stops, book, id, stops')
          /\ stops' \in Books(OrderIds) /\ freeLevels' \in Nat
          /\ freeLevels' + LevelCount(book') + LevelCount(stops') = MaxPriceLevels'
      BY <2>2, UnlinkStopEffect
    <3>2. LinksOK(ord, index, cur, stops, book)
      BY <1>1, LinksSymmetric
    <3>3. LinksOK(ord', index, id, stops', book)
      BY <1>1, <1>2, <3>1, <3>2, LinksUnlink
    <3>4. LinksOK(ord', index, id, book, stops')
      BY <3>3, LinksSymmetric
    <3>5. ASSUME NEW x \in index \ {id}, Linked(ord', stops', x) PROVE Linked(ord, stops, x)
      <4>1. Places(ord, {x}) /\ SamePlace(ord, ord', {x})
        BY <1>1, <1>2, LiveIds DEF SamePlace
      <4> QED BY <3>1, <3>5, <4>1, LinkedAfterUnlink
    <3> QED BY <1>1, <2>2, <3>1, <3>4, <3>5 DEF Typed
  <2> QED BY <2>1, <2>2
<1>6. PoolsConserved'
  BY <1>1, <1>5 DEF PoolsConserved, MaxOrders
<1>7. index' = index /\ nextId' = nextId
  OBVIOUS
<1>8. Structure'
  BY <1>3, <1>4, <1>5, <1>6, <1>7 DEF Structure
<1> QED BY <1>5, <1>8

\* modify_order by cancel and replace, in either book.
LEMMA ReenterKeeps ==
    ASSUME EngineInv, pc = "idle", NEW id \in index, NEW m \in [price : Prices, quantity : Int],
           Reenter(id, m), depth'.action \in {"none", "Update", "Remove"},
           \/ Linked(ord, book, id) /\ Unlink(id, 0)
           \/ /\ Linked(ord, stops, id) /\ UNCHANGED <<book, levelTotal>>
              /\ stops' = RemoveOrder(stops, ord[id].side, ord[id].level, id)
              /\ freeLevels' = freeLevels + FreedLevels(stops, ord[id].side, ord[id].level)
    PROVE  EngineInv'
<1> DEFINE left == m.quantity - ord[id].filled
<1>1. cur = 0 /\ walk = << >> /\ fills = << >>
  BY DEF EngineInv, CurrentLive, Working, MayWork, MatchPending
<1>2. id \in OrderIds /\ ord[id] \in OrderRecords /\ ord \in Orders
  BY <1>1, IdleLinked DEF EngineInv, Typed
<1>3. m.price \in Prices /\ m.price \in Nat /\ m.quantity \in Int /\ left \in Int
  BY <1>2, PricesAssumption DEF OrderRecords
<1>4. /\ ord' = [ord EXCEPT ![id].price = m.price, ![id].quantity = m.quantity,
                            ![id].remaining = left, ![id].level = 0]
      /\ event'.kind = "Modified" /\ cur' = id /\ pc' = "start"
      /\ UNCHANGED <<index, nextId, freeOrders, tradeVars, sessionVars, matchVars, sweep>>
  BY DEF Reenter
<1> HIDE DEF left
<1>5. /\ ord' = [x \in OrderIds |-> ord'[x]]
      /\ \A x \in OrderIds \ {id} : ord'[x] = ord[x]
      /\ ord'[id] = [ord[id] EXCEPT !.price = m.price, !.quantity = m.quantity,
                                    !.remaining = left, !.level = 0]
  BY <1>2, <1>4 DEF Orders
<1>6. ord'[id] \in OrderRecords /\ ord'[id].level = 0 /\ ord'[id].price \in Prices
  BY <1>2, <1>3, <1>5 DEF OrderRecords
<1>7. ord' \in Orders /\ SameShape(ord, ord', index \ {id})
  BY <1>2, <1>5, <1>6 DEF Orders, SameShape, EngineInv, Typed
<1>8. UNCHANGED <<profile, index, nextId, freeOrders>> /\ cur' = id
  BY <1>4
<1>9. /\ Structure' /\ freeLevels' \in Nat
      /\ book' \in Books(OrderIds) /\ stops' \in Books(OrderIds)
      /\ levelTotal' \in [Sides -> [Prices -> Int]]
  BY <1>1, <1>6, <1>7, <1>8, ReworkKeeps
<1>10. Typed'
  BY <1>2, <1>4, <1>7, <1>9 DEF EngineInv, Typed, LimitTiers
<1>11. CurrentLive' /\ SweepLive' /\ MatchPending'
  BY <1>1, <1>4, NothingPending DEF CurrentLive, SweepLive, Working, MayWork
<1> QED BY <1>9, <1>10, <1>11 DEF EngineInv

\* modify_order.
LEMMA ModifyOrderKeeps ==
    ASSUME EngineInv, NEW id \in OrderIds, NEW m \in ModifyRequests, ModifyOrder(id, m)
    PROVE  EngineInv'
<1>1. pc = "idle" /\ id \in index
  BY DEF ModifyOrder
<1>2. m \in [price : Prices, quantity : Int]
  BY EngineAssumption DEF ModifyRequests, EngineInv, Typed
<1>3. CASE AmendDown(id, m)
  BY <1>1, <1>2, <1>3, AmendDownKeeps
<1>4. CASE CancelReplace(id, m)
  <2>1. /\ Reenter(id, m) /\ depth'.action \in {"none", "Update", "Remove"}
        /\ Linked(ord, book, id) /\ Unlink(id, 0)
    BY <1>4 DEF CancelReplace, InBook, Linked, DepthAfterRemove
  <2> QED BY <1>1, <1>2, <2>1, ReenterKeeps
<1>5. CASE ReplaceStop(id, m)
  <2>1. /\ Reenter(id, m) /\ depth'.action \in {"none", "Update", "Remove"}
        /\ Linked(ord, stops, id) /\ UNCHANGED <<book, levelTotal>>
        /\ stops' = RemoveOrder(stops, ord[id].side, ord[id].level, id)
        /\ freeLevels' = freeLevels + FreedLevels(stops, ord[id].side, ord[id].level)
    BY <1>5 DEF ReplaceStop, InBook, Linked
  <2> QED BY <1>1, <1>2, <2>1, ReenterKeeps
<1>6. CASE Corrupt
  BY <1>1, <1>6, CallControlKeeps
<1> QED BY <1>3, <1>4, <1>5, <1>6 DEF ModifyOrder

\* next_triggered_stop: the first order of the level becomes an aggressor.
LEMMA TriggerStopKeeps ==
    ASSUME EngineInv, NEW side \in Sides, NEW price \in Prices, TriggerStop(side, price)
    PROVE  EngineInv'
<1> DEFINE id == Head(stops[side][price])
           type == IF ord[id].type = "Stop" THEN "Market" ELSE "Limit"
           limit == IF ord[id].type = "Stop" THEN 0 ELSE ord[id].price
<1>1. pc = "stops" /\ cur = 0 /\ walk = << >> /\ fills = << >>
  BY DEF TriggerStop, EngineInv, CurrentLive, Working, MayWork, MatchPending
<1>2. Contains(stops[side][price], id)
  <2>1. stops[side][price] \in Seq(OrderIds)
    BY DEF EngineInv, Typed, Books
  <2>2. stops[side][price] # << >>
    BY DEF TriggerStop, StopReached, IsFirstStopLevel, Levels
  <2>3. 1 \in DOMAIN stops[side][price] /\ stops[side][price][1] = id
    BY <2>1, <2>2
  <2> QED BY <2>3 DEF Contains
<1>3. /\ stops' = RemoveOrder(stops, side, price, id)
      /\ freeLevels' = freeLevels + FreedLevels(stops, side, price)
      /\ ord' = [ord EXCEPT ![id].type = type, ![id].price = limit, ![id].level = 0]
      /\ cur' = id /\ pc' = "start"
      /\ event'.kind = "none" /\ depth'.action = "none"
      /\ UNCHANGED <<index, nextId, freeOrders, book, levelTotal, tradeVars, sessionVars,
                     matchVars, sweep>>
  BY DEF TriggerStop
<1> HIDE DEF id
<1>4. id \in index /\ ord[id].side = side /\ ord[id].level = price
  BY <1>2 DEF EngineInv, Structure, LinksOK, QueuesOK
<1>5. Linked(ord, stops, id)
  BY <1>2, <1>4, PricesAssumption DEF Linked
<1>6. id \in OrderIds /\ ord[id] \in OrderRecords /\ ord \in Orders
  BY <1>1, <1>4, IdleLinked DEF EngineInv, Typed
<1>7. /\ type \in Types /\ limit \in Nat
      /\ type # "Market" => limit \in Prices
  BY <1>4, <1>5, <1>6 DEF EngineInv, Structure, Types, OrderRecords
<1> HIDE DEF type, limit
<1>8. /\ ord' = [x \in OrderIds |-> ord'[x]]
      /\ \A x \in OrderIds \ {id} : ord'[x] = ord[x]
      /\ ord'[id] = [ord[id] EXCEPT !.type = type, !.price = limit, !.level = 0]
  BY <1>3, <1>6 DEF Orders
<1>9. /\ ord'[id] \in OrderRecords /\ ord'[id].level = 0
      /\ ord'[id].type # "Market" => ord'[id].price \in Prices
  BY <1>6, <1>7, <1>8 DEF OrderRecords
<1>10. ord' \in Orders /\ SameShape(ord, ord', index \ {id})
  BY <1>6, <1>8, <1>9 DEF Orders, SameShape, EngineInv, Typed
<1>11. /\ Structure' /\ freeLevels' \in Nat
       /\ book' \in Books(OrderIds) /\ stops' \in Books(OrderIds)
       /\ levelTotal' \in [Sides -> [Prices -> Int]]
  <2>1. /\ UNCHANGED <<profile, index, nextId, freeOrders>> /\ cur' = id
        /\ UNCHANGED <<book, levelTotal>>
        /\ stops' = RemoveOrder(stops, ord[id].side, ord[id].level, id)
        /\ freeLevels' = freeLevels + FreedLevels(stops, ord[id].side, ord[id].level)
    BY <1>3, <1>4
  <2> QED BY <1>1, <1>4, <1>5, <1>9, <1>10, <2>1, ReworkKeeps
<1>12. Typed'
  BY <1>3, <1>6, <1>10, <1>11 DEF EngineInv, Typed, LimitTiers
<1>13. CurrentLive' /\ SweepLive' /\ MatchPending'
  BY <1>1, <1>3, <1>4, NothingPending DEF CurrentLive, SweepLive, Working, MayWork
<1> QED BY <1>11, <1>12, <1>13 DEF EngineInv

-----------------------------------------------------------------------------
(* An iceberg's next tranche *)

\* The order moves to the back of its queue, and all links stay.
LEMMA FillRevealKeeps ==
    ASSUME EngineInv, NEW f, FillReveal(f)
    PROVE  EngineInv'
<1> DEFINE r == f.resting
           next == Smaller(ord[r].display, ord[r].total - ord[r].filled)
<1>1. /\ f.quantity \in Int /\ r \in Resting /\ Tail(fills) \in Seq(FillRecords)
      /\ walk = << >> /\ PendingIn(<< >>, Tail(fills), Resting \ {r})
      /\ cur \in OrderIds /\ cur \in index /\ ord[cur] \in OrderRecords
      /\ ord[cur].filled + f.quantity \in Int
  BY NextFill DEF FillReveal, Executes
<1>2. /\ lastTrade' \in Nat /\ position' \in [Accounts -> Int]
      /\ trades' \in Seq(TradeRecords) /\ event'.kind \in EventKinds
      /\ fills' = Tail(fills) /\ pc = "fills"
      /\ UNCHANGED <<sessionVars, walk, hit, pc, cur, sweep>>
  BY ReportFillTyped DEF FillReveal
<1>3. /\ ord' = [ord EXCEPT ![cur].filled = ord[cur].filled + f.quantity,
                            ![r].remaining = next]
      /\ book' = Requeue(book, ord[r].side, ord[r].level, r)
      /\ levelTotal' = [levelTotal EXCEPT ![ord[r].side][ord[r].level] =
                            @ - f.quantity + next]
      /\ depth'.action = "Update"
      /\ UNCHANGED <<index, nextId, freeOrders, stops, freeLevels>>
  BY DEF FillReveal
<1>4. /\ r \in OrderIds /\ r \in index /\ r # cur /\ Linked(ord, book, r)
      /\ ord[r] \in OrderRecords /\ ord[r].level \in Prices /\ ord[r].side \in Sides
  BY <1>1, RestingNotCurrent
<1>5. next \in Int
  BY <1>4 DEF Smaller, OrderRecords
<1> HIDE DEF next, r
<1>6. ord' \in Orders /\ SameShape(ord, ord', index)
  <2>1. /\ ord' = [id \in OrderIds |-> ord'[id]]
        /\ \A id \in OrderIds \ {r, cur} : ord'[id] = ord[id]
        /\ ord'[r] = [ord[r] EXCEPT !.remaining = next]
        /\ ord'[cur] = [ord[cur] EXCEPT !.filled = ord[cur].filled + f.quantity]
    BY <1>1, <1>3, <1>4 DEF EngineInv, Typed, Orders
  <2>2. Requantified(ord'[r], ord[r])
    BY <1>4, <1>5, <2>1, SetQuantity
  <2>3. Requantified(ord'[cur], ord[cur])
    BY <1>1, <2>1, SetQuantity
  <2> QED BY <1>4, <2>1, <2>2, <2>3, TwoRequantified DEF EngineInv
<1>7. levelTotal' \in [Sides -> [Prices -> Int]]
  <2>1. levelTotal \in [Sides -> [Prices -> Int]]
    BY DEF EngineInv, Typed
  <2>2. levelTotal[ord[r].side][ord[r].level] - f.quantity + next \in Int
    BY <1>1, <1>4, <1>5, <2>1
  <2> QED BY <1>3, <1>4, <2>1, <2>2, SetTotal
<1>8. /\ Typed /\ PoolsConserved /\ LinksOK(ord, index, cur, book, stops)
      /\ Places(ord, index) /\ book \in Books(OrderIds)
  BY LiveIds DEF EngineInv, Structure, Typed
<1>9. SameQueues(OrderIds, book, book')
  <2>1. Places(ord, {r})
    BY <1>4, <1>8, LiveIds
  <2> QED BY <1>3, <1>4, <1>8, <2>1, RequeuedQueues
<1>10. /\ LinksOK(ord', index, cur, book', stops)
       /\ \A x \in index : Linked(ord', book', x) <=> Linked(ord, book, x)
  <2>1. SamePlace(ord, ord', index)
    BY <1>6 DEF SameShape, SamePlace
  <2> QED BY <1>8, <1>9, <2>1, LinksRequeue
<1>11. Structure'
  <2>1. /\ index' = index /\ nextId' = nextId /\ cur' = cur /\ stops' = stops
        /\ freeOrders' = freeOrders /\ freeLevels' = freeLevels /\ profile' = profile
    BY <1>2, <1>3
  <2>2. PoolsConserved'
    BY <1>8, <1>9, <2>1 DEF PoolsConserved, SameQueues, MaxOrders, MaxPriceLevels
  <2>3. \A x \in index : /\ x < nextId
                         /\ ord'[x].type # "Market" => ord'[x].price \in Prices
                         /\ Linked(ord', stops, x) => ord'[x].type # "Market"
    BY <1>6 DEF EngineInv, Structure, SameShape, Linked
  <2> QED BY <1>10, <2>1, <2>2, <2>3 DEF Structure
<1>12. Typed'
  BY <1>1, <1>2, <1>3, <1>6, <1>7, <1>9 DEF EngineInv, Typed, LimitTiers, SameQueues
<1>13. CurrentLive' /\ SweepLive'
  BY <1>1, <1>2, <1>3 DEF CurrentLive, SweepLive, Working, MayWork
<1>14. MatchPending'
  <2>1. Resting \ {r} \subseteq Resting'
    BY <1>3, <1>10 DEF Resting
  <2>2. PendingIn(walk', fills', Resting')
    BY <1>1, <1>2, <2>1, PendingMore
  <2> QED BY <1>1, <1>2, <2>2 DEF MatchPending
<1> QED BY <1>11, <1>12, <1>13, <1>14 DEF EngineInv

-----------------------------------------------------------------------------
(* The invariant *)

\* A new engine satisfies it.
LEMMA InitInv == Init => EngineInv
<1> SUFFICES ASSUME Init PROVE EngineInv
  OBVIOUS
<1>1. tier \in 0 .. Len(LimitTiers)
  <2>1. LimitTiers \in Seq(Nat \X Nat)
    BY EngineAssumption DEF Init, LimitTiers
  <2>2. LimitTiers # << >> => Len(LimitTiers) >= 1
    BY <2>1
  <2> QED BY <2>1, <2>2 DEF Init
<1>2. NoOrder \in OrderRecords
  BY DEF NoOrder, OrderRecords, Sides, Types, Tifs
<1>3. /\ EmptyBook \in Books(OrderIds) /\ LevelCount(EmptyBook) = 0
      /\ \A side \in Sides, price \in Prices : EmptyBook[side][price] = << >>
  BY EmptyBookEffect
<1>4. MaxOrders \in Nat /\ MaxPriceLevels \in Nat
  BY EngineAssumption DEF Init, MaxOrders, MaxPriceLevels
<1>5. ord \in Orders /\ position \in [Accounts -> Int] /\ trades \in Seq(TradeRecords)
  BY <1>2 DEF Init, Orders
<1>6. /\ book \in Books(OrderIds) /\ stops \in Books(OrderIds)
      /\ levelTotal \in [Sides -> [Prices -> Int]]
      /\ walk \in Seq(OrderIds) /\ fills \in Seq(FillRecords)
  BY <1>3 DEF Init
<1>7. nextId \in 1 .. MaxOrderIds
  BY EngineAssumption DEF Init
<1>8. Typed
  BY <1>1, <1>4, <1>5, <1>6, <1>7 DEF Init, Typed, SessionStates
<1>9. QueuesOK(ord, index, cur, EmptyBook)
  BY <1>3 DEF QueuesOK, Contains, IsInjective
<1>10. PoolsConserved
  BY <1>3, <1>4, FS_EmptySet DEF Init, PoolsConserved
<1>11. Structure
  BY <1>9, <1>10 DEF Init, Structure, LinksOK
<1>12. CurrentLive /\ SweepLive
  BY DEF Init, CurrentLive, SweepLive, Working, MayWork
<1>13. MatchPending
  BY PendingNothing DEF Init, MatchPending
<1> QED BY <1>8, <1>11, <1>12, <1>13 DEF EngineInv

\* Every step of a running call keeps it.
LEMMA RunningStepKeeps ==
    ASSUME EngineInv, RunningStep
    PROVE  EngineInv'
<1>1. CASE InsertStop \/ Collect \/ InsertRestored \/ PostRemainder
  BY <1>1, InsertsKeep
<1>2. CASE SweepStep \/ Return
  BY <1>2, SweepStepKeeps, CallControlKeeps
<1>3. CASE BeginMatch \/ FifoStep \/ UndoFill
  BY <1>3, BeginMatchKeeps, FifoStepKeeps, UndoFillKeeps
<1>4. CASE LeaveLoop \/ FifoDone \/ DetectSelfMatch \/ SmpContinue \/ FillsDone
  BY <1>4, LoopControlKeeps
<1>5. CASE StillLocked \/ HitDailyLimit \/ InterruptVolatility \/ NextLevel
  BY <1>5, LimitChecksKeep
<1>6. CASE SmpCancelNewest \/ SmpCancelBoth \/ PostFilled
  BY <1>6, AggressorLeavesKeeps
<1>7. CASE SmpCancelResting
  BY <1>7, SmpCancelRestingKeeps
<1>8. ASSUME NEW price \in Prices, TakeLevel(price) PROVE EngineInv'
  BY <1>8, TakeLevelKeeps
<1>9. ASSUME NEW f, FillPartial(f) \/ FillReveal(f) \/ FillRemove(f) PROVE EngineInv'
  BY <1>9, FillPartialKeeps, FillRevealKeeps, FillRemoveKeeps
<1>10. ASSUME NEW side \in Sides, NEW price \in Prices, TriggerStop(side, price)
       PROVE  EngineInv'
  BY <1>10, TriggerStopKeeps
<1>11. MatchStep => EngineInv'
  BY <1>1, <1>3, <1>4, <1>5, <1>6, <1>7, <1>8, <1>9, <1>10 DEF MatchStep
<1> QED BY <1>1, <1>2, <1>11 DEF RunningStep

\* So does every call.
LEMMA CallKeeps ==
    ASSUME EngineInv, Call
    PROVE  EngineInv'
<1>1. ASSUME NEW req \in Requests, NewOrder(req) PROVE EngineInv'
  BY <1>1, NewOrderKeeps
<1>2. ASSUME NEW id \in OrderIds, CancelOrder(id) PROVE EngineInv'
  BY <1>2, CancelOrderKeeps
<1>3. ASSUME NEW id \in OrderIds, NEW m \in ModifyRequests, ModifyOrder(id, m)
      PROVE  EngineInv'
  BY <1>3, ModifyOrderKeeps
<1>4. ASSUME NEW account, MassCancel(account) PROVE EngineInv'
  BY <1>4, BeginSweepKeeps DEF MassCancel
<1>5. CASE MassCancelAll
  BY <1>5, BeginSweepKeeps DEF MassCancelAll
<1>6. CASE ExpireDay \/ ExpireGtd
  BY <1>6, BeginSweepKeeps DEF ExpireDay, ExpireGtd
<1>7. ASSUME NEW s \in RestoreRequests, RestoreOrder(s) PROVE EngineInv'
  BY <1>7, RestoreOrderKeeps
<1>8. ASSUME NEW i \in DOMAIN trades, BustTrade(i) PROVE EngineInv'
  BY <1>8, BustTradeKeeps
<1>9. CASE UnlockLimit \/ \E new \in Sessions : SetSessionState(new)
  BY <1>9, CallControlKeeps
<1> QED BY <1>1, <1>2, <1>3, <1>4, <1>5, <1>6, <1>7, <1>8, <1>9 DEF Call

\* And the steps of others.
LEMMA StutterKeeps ==
    ASSUME EngineInv, UNCHANGED vars
    PROVE  EngineInv'
<1>1. ControlStep /\ SweepLive'
  BY DEF vars, EngineInv, Typed, ControlStep, SweepLive
<1>2. walk' = walk /\ pc' = pc /\ hit' = hit /\ cur' = cur /\ UNCHANGED <<ord, index>>
  BY DEF vars
<1>3. CurrentLive'
  BY <1>2 DEF EngineInv, CurrentLive, Working, MayWork
<1>4. MatchPending'
  BY <1>1, <1>2, ControlPending DEF EngineInv, MatchPending
<1> QED BY <1>1, <1>3, <1>4, ControlKeepsInv

\* Types, links, pools and the match in progress stay consistent for ever.
THEOREM Invariance == Spec => []EngineInv
<1>1. EngineInv /\ [Next]_vars => EngineInv'
  BY RunningStepKeeps, CallKeeps, StutterKeeps DEF Next
<1> QED BY <1>1, InitInv, PTL DEF Spec

-----------------------------------------------------------------------------
(* What follows *)

\* Every variable keeps its type, and no pool ever holds more free slots than
\* it was built with: nothing is given back twice.
THEOREM TypeCorrect == Spec => []TypeOK
<1>1. ASSUME EngineInv PROVE TypeOK
  <2>1. Typed /\ PoolsConserved
    BY <1>1 DEF EngineInv, Structure
  <2>2. Cardinality(index) \in Nat /\ MaxOrders \in Nat /\ MaxPriceLevels \in Nat
    BY <2>1, LiveIds
  <2>3. LevelCount(book) \in Nat /\ LevelCount(stops) \in Nat
    BY LevelCountNat
  <2>4. freeOrders \in Nat /\ freeLevels \in Nat
    BY <2>1 DEF Typed
  <2>5. freeOrders \in 0 .. MaxOrders /\ freeLevels \in 0 .. MaxPriceLevels
    BY <2>1, <2>2, <2>3, <2>4 DEF PoolsConserved
  <2> QED BY <2>1, <2>5 DEF Typed, TypeOK, Orders, Books
<1> QED BY <1>1, Invariance, PTL

\* order_index_, the intrusive lists, the level pointers and both pools agree
\* at every step, in the middle of a match too, and whatever the clients do.
THEOREM Consistency == Spec => []BooksConsistent
<1>1. ASSUME EngineInv PROVE BooksConsistent
  <2>1. /\ PoolsConserved /\ LinksOK(ord, index, cur, book, stops)
        /\ book \in Books(OrderIds) /\ stops \in Books(OrderIds) /\ 0 \notin index
    BY <1>1, LiveIds DEF EngineInv, Structure, Typed
  <2>2. ASSUME NEW b \in {book, stops}, NEW side \in Sides, NEW price \in Prices
        PROVE  /\ IsInjective(b[side][price])
               /\ \A id \in ToSet(b[side][price]) :
                      id \in index /\ ord[id].side = side /\ ord[id].level = price
    <3>1. b[side][price] \in Seq(OrderIds) /\ QueuesOK(ord, index, cur, b)
      BY <2>1 DEF Books, LinksOK
    <3>2. \A id : id \in ToSet(b[side][price]) <=> Contains(b[side][price], id)
      BY <3>1, ElementsOfQueue
    <3> QED BY <3>1, <3>2 DEF QueuesOK
  <2>3. \A id \in index \ {cur} : InBook(book, id) <=> ~ InBook(stops, id)
    BY <2>1 DEF LinksOK, Linked, InBook
  <2>4. LinksAgree
    BY <2>2, <2>3 DEF LinksAgree
  <2> QED BY <2>1, <2>4 DEF BooksConsistent
<1> QED BY <1>1, Invariance, PTL

\* A fill computed ahead never points to an order that has left.
THEOREM FillsStayValid == Spec => []FillsPointToResting
<1>1. ASSUME EngineInv PROVE FillsPointToResting
  <2>1. PendingIn(walk, fills, Resting)
    BY <1>1 DEF EngineInv, MatchPending
  <2> QED BY <2>1 DEF FillsPointToResting, PendingIn, Resting, InBook, Linked
<1> QED BY <1>1, Invariance, PTL

\* A trade gets on record by a fill, and a bust only marks it; the exchange
\* whose rules apply never changes.
LEMMA TradesChange ==
    ASSUME Next
    PROVE  /\ profile' = profile
           /\ \/ trades' = trades
              \/ \E f : Executes(f) /\ ReportFill(f)
              \/ \E i \in DOMAIN trades : trades' = [trades EXCEPT ![i].busted = TRUE]
<1>1. CASE \E f : FillPartial(f) \/ FillReveal(f) \/ FillRemove(f)
  <2>1. \E f : Executes(f) /\ ReportFill(f)
    BY <1>1 DEF FillPartial, FillReveal, FillRemove
  <2> QED BY <2>1 DEF ReportFill
<1>2. CASE InsertStop \/ Collect \/ InsertRestored \/ PostRemainder \/ BeginMatch
           \/ PostFilled \/ SmpCancelNewest \/ SmpCancelBoth \/ SmpCancelResting
  BY <1>2 DEF InsertStop, Collect, InsertRestored, PostRemainder, BeginMatch, PostFilled,
              SmpCancelNewest, SmpCancelBoth, SmpCancelResting, InsertIntoBook, CancelAggressor
<1>3. CASE SweepStep \/ Return \/ \E id \in OrderIds : CancelOrder(id)
  BY <1>3 DEF SweepStep, Return, CancelOrder, CancelActive, CancelMisplaced, Corrupt
<1>4. CASE FifoStep \/ FifoDone \/ LeaveLoop \/ DetectSelfMatch \/ UndoFill \/ SmpContinue
           \/ FillsDone \/ \E price \in Prices : TakeLevel(price)
  BY <1>4 DEF FifoStep, FifoDone, LeaveLoop, DetectSelfMatch, UndoFill, SmpContinue,
              FillsDone, TakeLevel
<1>5. CASE \/ StillLocked \/ HitDailyLimit \/ InterruptVolatility \/ NextLevel
           \/ \E side \in Sides, price \in Prices : TriggerStop(side, price)
  <2>1. ASSUME NEW side, NEW price, TriggerStop(side, price)
        PROVE  UNCHANGED <<tradeVars, profile>>
    BY <2>1 DEF TriggerStop
  <2>2. ASSUME HitDailyLimit PROVE UNCHANGED <<tradeVars, profile>>
    BY <2>2 DEF HitDailyLimit, EndLevel
  <2>3. ASSUME InterruptVolatility PROVE UNCHANGED <<tradeVars, profile>>
    BY <2>3 DEF InterruptVolatility, EndLevel
  <2>4. ASSUME StillLocked \/ NextLevel PROVE UNCHANGED <<tradeVars, profile>>
    BY <2>4 DEF StillLocked, NextLevel, EndLevel
  <2> QED BY <1>5, <2>1, <2>2, <2>3, <2>4
<1>6. CASE \/ \E req \in Requests : NewOrder(req)
           \/ \E s \in RestoreRequests : RestoreOrder(s)
           \/ \E id \in OrderIds, m \in ModifyRequests : ModifyOrder(id, m)
  <2>1. ASSUME NEW req, NewOrder(req) PROVE UNCHANGED <<tradeVars, sessionVars>>
    BY <2>1 DEF NewOrder
  <2>2. ASSUME NEW s, RestoreOrder(s) PROVE UNCHANGED <<tradeVars, sessionVars>>
    BY <2>2 DEF RestoreOrder
  <2>3. ASSUME NEW id, NEW m, ModifyOrder(id, m)
        PROVE  UNCHANGED <<tradeVars, sessionVars>>
    <3>1. AmendDown(id, m) => UNCHANGED <<tradeVars, sessionVars>>
      BY DEF AmendDown
    <3>2. Reenter(id, m) => UNCHANGED <<tradeVars, sessionVars>>
      BY DEF Reenter
    <3>3. Corrupt => UNCHANGED <<tradeVars, sessionVars>>
      BY DEF Corrupt
    <3> QED BY <2>3, <3>1, <3>2, <3>3 DEF ModifyOrder, CancelReplace, ReplaceStop
  <2> QED BY <1>6, <2>1, <2>2, <2>3
<1>7. CASE \/ MassCancelAll \/ ExpireDay \/ ExpireGtd
           \/ \E account \in Accounts \cup {0} : MassCancel(account)
           \/ UnlockLimit \/ \E new \in Sessions : SetSessionState(new)
  BY <1>7 DEF MassCancelAll, ExpireDay, ExpireGtd, MassCancel, BeginSweep, UnlockLimit,
              SetSessionState
<1>8. CASE \E i \in DOMAIN trades : BustTrade(i)
  BY <1>8 DEF BustTrade
<1> QED BY <1>1, <1>2, <1>3, <1>4, <1>5, <1>6, <1>7, <1>8
        DEF Next, Call, RunningStep, MatchStep

\* No trade on record is between orders the exchange calls a self-match: fills
\* are checked one by one against the accounts of the two orders.
THEOREM NoSelfTrades == Spec => []NoSelfTrade
<1>1. Init => NoSelfTrade
  BY DEF Init, NoSelfTrade
<1>2. ASSUME EngineInv, NoSelfTrade, [Next]_vars PROVE NoSelfTrade'
  <2>1. CASE UNCHANGED vars
    BY <1>2, <2>1 DEF vars, NoSelfTrade, Exchange
  <2>2. CASE Next
    <3>1. profile' = profile /\ Exchange' = Exchange
      BY <2>2, TradesChange DEF Exchange
    <3>2. CASE trades' = trades
      BY <1>2, <3>1, <3>2 DEF NoSelfTrade
    <3>3. ASSUME NEW f, Executes(f), ReportFill(f) PROVE NoSelfTrade'
      <4> DEFINE t == [aggressor |-> cur, resting |-> f.resting, price |-> f.price,
                       quantity |-> f.quantity, side |-> ord[cur].side,
                       aggressorAccount |-> ord[cur].account,
                       restingAccount |-> ord[f.resting].account, busted |-> FALSE]
      <4>1. ~ IsSelfMatch(Exchange, t.aggressorAccount, t.restingAccount)
        BY <3>3 DEF Executes
      <4>2. trades' = trades \/ trades' = Append(trades, t)
        BY <3>3 DEF ReportFill
      <4>3. trades \in Seq(TradeRecords)
        BY <1>2 DEF EngineInv, Typed
      <4> HIDE DEF t
      <4>4. CASE trades' = Append(trades, t)
        <5>1. \A i \in DOMAIN trades' : \/ i \in DOMAIN trades /\ trades'[i] = trades[i]
                                        \/ trades'[i] = t
          BY <4>3, <4>4
        <5> QED BY <1>2, <3>1, <4>1, <5>1 DEF NoSelfTrade
      <4> QED BY <3>2, <4>2, <4>4
    <3>4. ASSUME NEW i \in DOMAIN trades, trades' = [trades EXCEPT ![i].busted = TRUE]
          PROVE  NoSelfTrade'
      <4>1. trades \in Seq(TradeRecords)
        BY <1>2 DEF EngineInv, Typed
      <4>2. trades[i] \in TradeRecords
        BY <4>1
      <4>3. DOMAIN trades' = DOMAIN trades /\ trades'[i] = [trades[i] EXCEPT !.busted = TRUE]
            /\ \A j \in DOMAIN trades : j # i => trades'[j] = trades[j]
        BY <3>4, <4>1
      <4>4. /\ trades'[i].aggressorAccount = trades[i].aggressorAccount
            /\ trades'[i].restingAccount = trades[i].restingAccount
        BY <4>2, <4>3 DEF TradeRecords
      <4>5. \A j \in DOMAIN trades' :
                /\ trades'[j].aggressorAccount = trades[j].aggressorAccount
                /\ trades'[j].restingAccount = trades[j].restingAccount
        BY <4>3, <4>4
      <4> QED BY <1>2, <3>1, <4>3, <4>5 DEF NoSelfTrade
    <3> QED BY <2>2, <3>2, <3>3, <3>4, TradesChange
  <2> QED BY <1>2, <2>1, <2>2
<1> QED BY <1>1, <1>2, Invariance, PTL DEF Spec
=============================================================================
