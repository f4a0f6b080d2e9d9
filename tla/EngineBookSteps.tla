-------------------------- MODULE EngineBookSteps --------------------------
(***************************************************************************)
(* The steps of the engine that link and unlink orders, take and give back *)
(* slots, and why they keep the invariant.                                 *)
(***************************************************************************)
EXTENDS EngineInvariant

USE DEF poolVars, bookVars, tradeVars, sessionVars, matchVars,
        PcValues, EventKinds, NoEvent, OrderEvent, Event, NoDepth, Depth

\* Nothing is left of a match.
LEMMA NothingPending ==
    ASSUME walk' = << >>, fills' = << >>, pc' # "undo"
    PROVE  MatchPending'
BY PendingNothing DEF MatchPending

\* Ids are not 0, and the orders in use have a side and a place.
LEMMA LiveIds ==
    ASSUME Typed
    PROVE  /\ 0 \notin index /\ IsFiniteSet(index) /\ Cardinality(index) \in Nat
           /\ Places(ord, index) /\ \A id \in index : Places(ord, {id})
           /\ \A id \in OrderIds : ord[id] \in OrderRecords
           /\ MaxOrders \in Nat /\ MaxPriceLevels \in Nat
<1>1. IsFiniteSet(OrderIds)
  BY EngineAssumption, FS_Interval DEF OrderIds
<1>2. IsFiniteSet(index)
  BY <1>1, FS_Subset DEF Typed
<1>3. Cardinality(index) \in Nat
  BY <1>2, FS_CardinalityType
<1>4. 0 \notin index
  BY DEF Typed, OrderIds
<1>5. \A id \in OrderIds : ord[id] \in OrderRecords
  BY DEF Typed, Orders
<1>6. Places(ord, index) /\ \A id \in index : Places(ord, {id})
  BY <1>5 DEF Typed, Places, OrderRecords
<1>7. MaxOrders \in Nat /\ MaxPriceLevels \in Nat
  BY EngineAssumption DEF MaxOrders, MaxPriceLevels, Typed
<1> QED BY <1>2, <1>3, <1>4, <1>5, <1>6, <1>7

\* A slot of the order pool goes back as its id leaves the index.
LEMMA SlotGivenBack ==
    ASSUME Typed, PoolsConserved, NEW id \in index,
           index' = index \ {id}, freeOrders' = freeOrders + 1, profile' = profile
    PROVE  freeOrders' \in Nat /\ freeOrders' + Cardinality(index') = MaxOrders'
<1>1. IsFiniteSet(index) /\ Cardinality(index) \in Nat
  BY LiveIds
<1>2. Cardinality(index') = Cardinality(index) - 1
  BY <1>1, FS_RemoveElement
<1>3. freeOrders \in Nat /\ freeOrders + Cardinality(index) = MaxOrders
  BY DEF Typed, PoolsConserved
<1>4. MaxOrders' = MaxOrders
  BY DEF MaxOrders
<1> QED BY <1>1, <1>2, <1>3, <1>4

\* A slot is taken as an id enters the index.
LEMMA SlotTaken ==
    ASSUME Typed, PoolsConserved, freeOrders > 0, NEW id, id \notin index,
           index' = index \cup {id}, freeOrders' = freeOrders - 1, profile' = profile
    PROVE  freeOrders' \in Nat /\ freeOrders' + Cardinality(index') = MaxOrders'
<1>1. IsFiniteSet(index) /\ Cardinality(index) \in Nat
  BY LiveIds
<1>2. Cardinality(index') = Cardinality(index) + 1
  BY <1>1, FS_AddElement
<1>3. freeOrders \in Nat /\ freeOrders + Cardinality(index) = MaxOrders
  BY DEF Typed, PoolsConserved
<1>4. MaxOrders' = MaxOrders
  BY DEF MaxOrders
<1> QED BY <1>1, <1>2, <1>3, <1>4

-----------------------------------------------------------------------------
(* The order worked on leaves the engine *)

GivesBack ==
    /\ cur \in index /\ walk = << >> /\ fills = << >>
    /\ Release(cur) /\ cur' = 0 /\ hit' \in {hit, 0}
    /\ pc' \in {"done", "stops", "limits"}
    /\ event'.kind \in EventKinds /\ depth' = NoDepth
    /\ UNCHANGED <<bookVars, tradeVars, sessionVars, walk, fills, sweep>>

\* Its slot and its index entry go, and the books never knew it.
LEMMA GivesBackKeeps ==
    ASSUME EngineInv, GivesBack
    PROVE  EngineInv'
<1>1. /\ cur \in index /\ walk' = << >> /\ fills' = << >>
      /\ ord' = [ord EXCEPT ![cur] = NoOrder] /\ index' = index \ {cur}
      /\ freeOrders' = freeOrders + 1 /\ nextId' = nextId /\ cur' = 0 /\ hit' \in {hit, 0}
      /\ pc' \in {"done", "stops", "limits"}
      /\ event'.kind \in EventKinds /\ depth'.action = "none"
      /\ UNCHANGED <<bookVars, tradeVars, sessionVars, walk, fills, sweep>>
  BY DEF GivesBack, Release
<1>2. /\ Typed /\ 0 \notin index /\ PoolsConserved
      /\ LinksOK(ord, index, cur, book, stops)
  BY LiveIds DEF EngineInv, Structure
<1>3. NoOrder \in OrderRecords
  BY DEF NoOrder, OrderRecords, Sides, Types, Tifs
<1>4. ord' \in Orders /\ \A id \in index \ {cur} : ord'[id] = ord[id]
  BY <1>1, <1>2, <1>3 DEF Typed, Orders
<1>5. /\ freeOrders' \in Nat /\ freeOrders' + Cardinality(index') = MaxOrders'
  BY <1>1, <1>2, SlotGivenBack
<1>6. Typed'
  BY <1>1, <1>2, <1>4, <1>5 DEF Typed, LimitTiers
<1>7. LinksOK(ord', index', cur', book', stops')
  <2>1. SamePlace(ord, ord', index \ {cur})
    BY <1>4 DEF SamePlace
  <2>2. LinksOK(ord', index \ {cur}, 0, book, stops)
    BY <1>2, <2>1, LinksDropCurrent
  <2> QED BY <1>1, <2>2
<1>8. PoolsConserved'
  BY <1>1, <1>2, <1>5 DEF PoolsConserved, MaxPriceLevels
<1>9. \A id \in index' : /\ id < nextId'
                         /\ ord'[id].type # "Market" => ord'[id].price \in Prices
                         /\ Linked(ord', stops', id) => ord'[id].type # "Market"
  BY <1>1, <1>4 DEF EngineInv, Structure, Linked
<1>10. Structure'
  BY <1>7, <1>8, <1>9 DEF Structure
<1>11. CurrentLive' /\ SweepLive' /\ MatchPending'
  BY <1>1, NothingPending DEF CurrentLive, SweepLive, Working, MayWork
<1> QED BY <1>6, <1>10, <1>11 DEF EngineInv

\* CancelAggressor from the steps that use it.
LEMMA CancelAggressorKeeps ==
    ASSUME EngineInv, pc \in {"stop", "collect", "restore", "start", "smpBoth", "post"},
           NEW reason \in CancelReasons, NEW next \in {"done", "stops", "limits"},
           CancelAggressor(reason, next)
    PROVE  EngineInv'
<1>1. cur \in index /\ walk = << >> /\ fills = << >>
  BY DEF EngineInv, CurrentLive, Working, MatchPending
<1>2. GivesBack
  BY <1>1 DEF GivesBack, CancelAggressor
<1> QED BY <1>2, GivesBackKeeps

\* The other ways an aggressor leaves.
LEMMA AggressorLeavesKeeps ==
    ASSUME EngineInv, SmpCancelNewest \/ SmpCancelBoth \/ PostFilled
    PROVE  EngineInv'
<1>1. CASE SmpCancelNewest \/ PostFilled
  <2>1. cur \in index /\ walk = << >> /\ fills = << >>
    BY <1>1 DEF EngineInv, CurrentLive, Working, MatchPending, SmpCancelNewest, PostFilled
  <2>2. GivesBack
    BY <1>1, <2>1 DEF GivesBack, SmpCancelNewest, PostFilled, CancelReasons
  <2> QED BY <2>2, GivesBackKeeps
<1>2. CASE SmpCancelBoth
  BY <1>2, CancelAggressorKeeps DEF SmpCancelBoth, CancelReasons
<1> QED BY <1>1, <1>2

\* The FOK check goes on to the match or ends the call.
LEMMA BeginMatchKeeps ==
    ASSUME EngineInv, BeginMatch
    PROVE  EngineInv'
<1>1. CASE CancelAggressor("FOKFailed", "stops")
  BY <1>1, CancelAggressorKeeps DEF BeginMatch, CancelReasons
<1>2. CASE ~ CancelAggressor("FOKFailed", "stops")
  <2>1. ControlStep /\ SweepLive' /\ pc = "start" /\ pc' = "match" /\ cur' = cur
        /\ UNCHANGED <<index, ord, walk>>
    BY <1>2 DEF BeginMatch, ControlStep, EngineInv, Typed, SweepLive
  <2>2. CurrentLive'
    BY <2>1 DEF EngineInv, CurrentLive, Working, MayWork
  <2>3. MatchPending'
    BY <2>1, ControlPending DEF EngineInv, MatchPending
  <2> QED BY <2>1, <2>2, <2>3, ControlKeepsInv
<1> QED BY <1>1, <1>2

-----------------------------------------------------------------------------
(* The order worked on is linked *)

\* insert_into_book, once a level slot is there: the order is in its queue, and
\* a level slot was used if the price had none.
LEMMA BookInsertKeeps ==
    ASSUME EngineInv, pc \in {"collect", "restore", "post"},
           NEW next \in {"done", "stops"}, freeLevels # 0, ord[cur].price \in Prices,
           InsertIntoBook(next)
    PROVE  EngineInv'
<1> DEFINE side == ord[cur].side
           price == ord[cur].price
           new == NewLevels(book, side, price)
<1>1. /\ book' = InsertOrder(book, side, price, cur)
      /\ levelTotal' = [levelTotal EXCEPT ![side][price] =
                            (IF new = 1 THEN 0 ELSE @) + ord[cur].remaining]
      /\ freeLevels' = freeLevels - new
      /\ ord' = [ord EXCEPT ![cur].level = price]
      /\ event'.kind = "none" /\ depth'.action \in {"Add", "Update"}
      /\ cur' = 0 /\ pc' = next
      /\ UNCHANGED <<index, nextId, freeOrders, stops, tradeVars, sessionVars, matchVars,
                     sweep>>
  BY DEF InsertIntoBook
<1>2. /\ Typed /\ 0 \notin index /\ PoolsConserved /\ Places(ord, index)
      /\ LinksOK(ord, index, cur, book, stops)
  BY LiveIds DEF EngineInv, Structure
<1>3. /\ cur \in index /\ cur \in OrderIds /\ walk = << >> /\ fills = << >>
      /\ ord[cur] \in OrderRecords
  BY <1>2, LiveIds DEF EngineInv, CurrentLive, Working, MatchPending, Typed
<1>4. side \in Sides /\ ord[cur].remaining \in Int /\ price \in Prices
  BY <1>3 DEF OrderRecords
<1>5. /\ ord' \in Orders
      /\ \A id \in index : /\ ord'[id].side = ord[id].side /\ ord'[id].type = ord[id].type
                           /\ ord'[id].price = ord[id].price
      /\ \A id \in index \ {cur} : ord'[id].level = ord[id].level
      /\ ord'[cur].level = price /\ ord'[cur].side = side
  BY <1>1, <1>2, <1>3, <1>4 DEF Typed, Orders, OrderRecords
<1>6. new \in {0, 1} /\ freeLevels' \in Nat
  BY <1>1, <1>2 DEF NewLevels, Typed
<1>7. levelTotal' \in [Sides -> [Prices -> Int]]
  <2>1. levelTotal \in [Sides -> [Prices -> Int]]
    BY <1>2 DEF Typed
  <2>2. (IF new = 1 THEN 0 ELSE levelTotal[side][price]) + ord[cur].remaining \in Int
    BY <1>4, <2>1
  <2> QED BY <1>1, <1>4, <2>1, <2>2, SetTotal
<1>8. /\ book' \in Books(OrderIds) /\ LevelCount(book') = LevelCount(book) + new
      /\ LevelCount(book) \in Nat
  <2>1. book \in Books(OrderIds)
    BY <1>2 DEF Typed
  <2> QED BY <1>1, <1>3, <1>4, <2>1, InsertOrderEffect
<1>9. LinksOK(ord', index, 0, book', stops)
  <2>1. SamePlace(ord, ord', index \ {cur}) /\ book \in Books(OrderIds)
    BY <1>2, <1>5 DEF SamePlace, Typed
  <2> QED BY <1>1, <1>2, <1>3, <1>4, <1>5, <2>1, LinksInsertCurrent
<1> HIDE DEF new, side, price
<1>10. Typed'
  BY <1>1, <1>2, <1>3, <1>5, <1>6, <1>7, <1>8 DEF Typed, LimitTiers
<1>11. PoolsConserved'
  <2>1. freeLevels + LevelCount(book) + LevelCount(stops) = MaxPriceLevels
    BY <1>2 DEF PoolsConserved
  <2>2. LevelCount(stops) \in Nat /\ freeLevels \in Nat
    BY <1>2, LevelCountNat DEF Typed
  <2>3. freeLevels' + LevelCount(book') + LevelCount(stops) = MaxPriceLevels
    BY <1>1, <1>6, <1>8, <2>1, <2>2
  <2> QED BY <1>1, <1>2, <2>3 DEF PoolsConserved, MaxPriceLevels, MaxOrders
<1>12. ASSUME NEW id \in index, Linked(ord', stops, id) PROVE ord'[id].type # "Market"
  <2>1. id # cur
    <3>1. Linked(ord', book', cur)
      <4>1. book' = InsertOrder(book, side, price, cur) /\ book \in Books(OrderIds)
        BY <1>1, <1>2 DEF Typed
      <4>2. side \in Sides /\ price \in Prices /\ cur \in OrderIds
        BY <1>3, <1>4
      <4>3. Contains(book'[side][price], cur)
        BY <4>1, <4>2, InsertOrderEffect
      <4>4. price # 0
        BY <4>2, PricesAssumption
      <4> QED BY <1>5, <4>3, <4>4 DEF Linked
    <3> QED BY <1>2, <1>3, <1>9, <1>12, <3>1 DEF LinksOK
  <2>2. Linked(ord, stops, id)
    BY <1>5, <1>12, <2>1 DEF Linked
  <2> QED BY <1>5, <2>2 DEF EngineInv, Structure
<1>13. Structure'
  <2>1. \A id \in index : /\ id < nextId
                          /\ ord'[id].type # "Market" => ord'[id].price \in Prices
    BY <1>5 DEF EngineInv, Structure
  <2> QED BY <1>1, <1>9, <1>11, <1>12, <2>1 DEF Structure
<1>14. CurrentLive' /\ SweepLive' /\ MatchPending'
  BY <1>1, <1>3, NothingPending DEF CurrentLive, SweepLive, Working, MayWork
<1> QED BY <1>10, <1>13, <1>14 DEF EngineInv

\* insert_into_stop_book.
LEMMA StopInsertKeeps ==
    ASSUME EngineInv, InsertStop, freeLevels # 0
    PROVE  EngineInv'
<1> DEFINE side == ord[cur].side
           price == ord[cur].level
           new == NewLevels(stops, side, price)
<1>1. /\ stops' = InsertOrder(stops, side, price, cur)
      /\ freeLevels' = freeLevels - new
      /\ event'.kind = "none" /\ depth'.action = "none"
      /\ cur' = 0 /\ pc = "stop" /\ pc' = "done"
      /\ UNCHANGED <<poolVars, book, levelTotal, tradeVars, sessionVars, matchVars, sweep>>
  BY DEF InsertStop
<1>2. /\ Typed /\ 0 \notin index /\ PoolsConserved /\ Places(ord, index)
      /\ LinksOK(ord, index, cur, stops, book)
  BY LiveIds, LinksSymmetric DEF EngineInv, Structure
<1>3. /\ cur \in index /\ cur \in OrderIds /\ walk = << >> /\ fills = << >>
      /\ ord[cur] \in OrderRecords /\ price \in Prices /\ ord[cur].type # "Market"
  BY <1>1, <1>2, LiveIds DEF EngineInv, CurrentLive, Working, MatchPending, Typed
<1>4. side \in Sides
  BY <1>3 DEF OrderRecords
<1>5. new \in {0, 1} /\ freeLevels' \in Nat
  BY <1>1, <1>2 DEF NewLevels, Typed
<1>6. stops \in Books(OrderIds)
  BY <1>2 DEF Typed
<1>7. /\ stops' \in Books(OrderIds) /\ LevelCount(stops') = LevelCount(stops) + new
      /\ LevelCount(stops) \in Nat
      /\ SameElsewhere(stops, stops', side, price)
      /\ \A x : Contains(stops'[side][price], x) <=> Contains(stops[side][price], x) \/ x = cur
  <2>1. stops' = InsertOrder(stops, side, price, cur) /\ price \in Prices /\ cur \in OrderIds
    BY <1>1, <1>3
  <2>2. side \in Sides /\ stops \in Books(OrderIds)
    BY <1>4, <1>6
  <2> HIDE DEF side, price
  <2> QED BY <2>1, <2>2, InsertOrderEffect DEF new
<1>8. LinksOK(ord, index, 0, stops', book)
  <2>1. SamePlace(ord, ord, index \ {cur})
    BY DEF SamePlace
  <2> QED BY <1>1, <1>2, <1>3, <1>4, <1>6, <2>1, LinksInsertCurrent
<1>9. LinksOK(ord, index, 0, book, stops')
  BY <1>8, LinksSymmetric
<1>10. Typed'
  BY <1>1, <1>2, <1>3, <1>5, <1>7 DEF Typed, LimitTiers
<1>11. PoolsConserved'
  <2>1. freeLevels + LevelCount(book) + LevelCount(stops) = MaxPriceLevels
    BY <1>2 DEF PoolsConserved
  <2>2. LevelCount(book) \in Nat /\ freeLevels \in Nat
    BY <1>2, LevelCountNat DEF Typed
  <2>3. freeLevels' + LevelCount(book) + LevelCount(stops') = MaxPriceLevels
    <3>1. freeLevels' = freeLevels - new /\ new \in {0, 1}
      BY <1>1, <1>5
    <3>2. LevelCount(stops') = LevelCount(stops) + new /\ LevelCount(stops) \in Nat
      BY <1>7
    <3> HIDE DEF new
    <3> QED BY <2>1, <2>2, <3>1, <3>2
  <2> QED BY <1>1, <1>2, <2>3 DEF PoolsConserved, MaxPriceLevels, MaxOrders
<1>12. ASSUME NEW id \in index, Linked(ord, stops', id), id # cur
       PROVE  Linked(ord, stops, id)
  <2>1. \A s \in Sides, p \in Prices : Contains(stops'[s][p], id) <=> Contains(stops[s][p], id)
    BY <1>7, <1>12 DEF SameElsewhere
  <2>2. Places(ord, {id}) /\ SamePlace(ord, ord, {id})
    BY <1>2, LiveIds DEF SamePlace
  <2> QED BY <1>12, <2>1, <2>2, StillLinked
<1>13. Structure'
  <2>1. \A id \in index : /\ id < nextId
                          /\ ord[id].type # "Market" => ord[id].price \in Prices
                          /\ Linked(ord, stops, id) => ord[id].type # "Market"
    BY DEF EngineInv, Structure
  <2> QED BY <1>1, <1>3, <1>9, <1>11, <1>12, <2>1 DEF Structure
<1>14. CurrentLive' /\ SweepLive' /\ MatchPending'
  BY <1>1, <1>3, NothingPending DEF CurrentLive, SweepLive, Working, MayWork
<1> QED BY <1>10, <1>13, <1>14 DEF EngineInv

\* Every step that ends with the order in a book or out of the engine.
LEMMA InsertsKeep ==
    ASSUME EngineInv, InsertStop \/ Collect \/ InsertRestored \/ PostRemainder
    PROVE  EngineInv'
<1>1. ASSUME pc \in {"collect", "restore", "post"}, ord[cur].price \in Prices,
             NEW next \in {"done", "stops"}, InsertIntoBook(next)
      PROVE  EngineInv'
  <2>1. CASE freeLevels = 0
    <3>1. CancelAggressor("LevelPoolExhausted", next)
      BY <1>1, <2>1 DEF InsertIntoBook
    <3> QED BY <1>1, <3>1, CancelAggressorKeeps DEF CancelReasons
  <2> QED BY <1>1, <2>1, BookInsertKeeps
<1>2. pc \in {"collect", "post"} /\ ord[cur].type # "Market" => ord[cur].price \in Prices
  BY DEF EngineInv, CurrentLive, Working, Structure
<1>3. CASE InsertStop
  <2>1. CASE freeLevels = 0
    BY <1>3, <2>1, CancelAggressorKeeps DEF InsertStop, CancelReasons
  <2> QED BY <1>3, <2>1, StopInsertKeeps
<1>4. CASE Collect
  <2>1. CASE CancelAggressor("IOCRemainder", "done")
    BY <1>4, <2>1, CancelAggressorKeeps DEF Collect, CancelReasons
  <2>2. CASE InsertIntoBook("done") /\ ord[cur].type = "Limit"
    BY <1>1, <1>2, <1>4, <2>2 DEF Collect
  <2> QED BY <1>4, <2>1, <2>2 DEF Collect
<1>5. CASE InsertRestored
  <2>1. pc = "restore" /\ ord[cur].price \in Prices /\ InsertIntoBook("done")
    BY <1>5 DEF InsertRestored, EngineInv, CurrentLive
  <2> QED BY <1>1, <2>1
<1>6. CASE PostRemainder
  <2> DEFINE reason == RemainderReason(ord[cur])
  <2>1. /\ pc = "post"
        /\ reason \in {"", "IOCRemainder", "FOKFailed"}
        /\ reason = "" => ord[cur].type # "Market" /\ InsertIntoBook("stops")
        /\ reason # "" => CancelAggressor(reason, "stops")
    BY <1>6 DEF PostRemainder, RemainderReason
  <2> HIDE DEF reason
  <2>2. CASE reason = ""
    BY <1>1, <1>2, <2>1, <2>2
  <2>3. CASE reason # ""
    BY <2>1, <2>3, CancelAggressorKeeps DEF CancelReasons
  <2> QED BY <2>2, <2>3
<1> QED BY <1>3, <1>4, <1>5, <1>6

-----------------------------------------------------------------------------
(* An order enters the engine *)

\* It takes a slot and an id no live order has, and is worked on before it is
\* linked.
Enters(id, o) ==
    /\ pc = "idle" /\ id \in OrderIds \ index /\ freeOrders > 0
    /\ ord' = [ord EXCEPT ![id] = o] /\ index' = index \cup {id}
    /\ nextId' = IF id >= nextId THEN id + 1 ELSE nextId
    /\ freeOrders' = freeOrders - 1 /\ cur' = id
    /\ pc' \in {"stop", "collect", "start", "restore"}
    /\ o \in OrderRecords
    /\ o.type # "Market" => o.price \in Prices
    /\ pc' = "stop" => o.level \in Prices /\ o.type # "Market"
    /\ pc' = "restore" => o.price \in Prices
    /\ event' = OrderEvent("Accepted", id) /\ depth' = NoDepth
    /\ UNCHANGED <<bookVars, tradeVars, sessionVars, matchVars, sweep>>

\* No queue knows it yet.
LEMMA EntersKeeps ==
    ASSUME EngineInv, NEW id, NEW o, Enters(id, o)
    PROVE  EngineInv'
<1>1. /\ cur = 0 /\ walk = << >> /\ fills = << >> /\ Typed /\ PoolsConserved
      /\ LinksOK(ord, index, 0, book, stops) /\ 0 \notin index
  BY LiveIds DEF Enters, EngineInv, CurrentLive, Working, MayWork, MatchPending, Structure
<1>2. /\ id \in OrderIds \ index /\ ord' = [ord EXCEPT ![id] = o]
      /\ index' = index \cup {id} /\ cur' = id
      /\ freeOrders > 0 /\ freeOrders' = freeOrders - 1
      /\ o \in OrderRecords
      /\ event'.kind = "Accepted" /\ depth'.action = "none"
      /\ UNCHANGED <<bookVars, tradeVars, sessionVars, matchVars, sweep>>
  BY DEF Enters
<1>3. /\ pc' \in {"stop", "collect", "start", "restore"}
      /\ o.type # "Market" => o.price \in Prices
      /\ pc' = "stop" => o.level \in Prices /\ o.type # "Market"
      /\ pc' = "restore" => o.price \in Prices
  BY DEF Enters
<1>4. /\ id \notin index /\ nextId' \in 1 .. MaxOrderIds
      /\ id < nextId' /\ \A x \in index : x < nextId'
  <2>1. nextId' = IF id >= nextId THEN id + 1 ELSE nextId
    BY DEF Enters
  <2> QED BY <1>1, <1>2, <2>1, EngineAssumption DEF EngineInv, Structure, Typed, OrderIds
<1>5. ord' \in Orders /\ ord'[id] = o /\ \A x \in index : ord'[x] = ord[x]
  BY <1>1, <1>2, <1>4 DEF Typed, Orders
<1>6. freeOrders' \in Nat /\ freeOrders' + Cardinality(index') = MaxOrders'
  BY <1>1, <1>2, <1>4, SlotTaken
<1>7. Typed'
  BY <1>1, <1>2, <1>3, <1>4, <1>5, <1>6 DEF Typed, LimitTiers
<1>8. LinksOK(ord', index', cur', book', stops')
  <2>1. SamePlace(ord, ord', index)
    BY <1>5 DEF SamePlace
  <2>2. LinksOK(ord', index \cup {id}, id, book, stops)
    BY <1>1, <1>4, <2>1, LinksNewCurrent
  <2> QED BY <1>2, <2>2
<1>9. ~ Linked(ord', stops, id)
  <2>1. o.side \in Sides /\ o.level \in Prices \cup {0}
    BY <1>2 DEF OrderRecords
  <2> QED BY <1>1, <1>4, <1>5, <2>1 DEF LinksOK, QueuesOK, Linked
<1>10. \A x \in index : /\ ord'[x].type # "Market" => ord'[x].price \in Prices
                        /\ Linked(ord', stops, x) => ord'[x].type # "Market"
  BY <1>5 DEF EngineInv, Structure, Linked
<1>11. PoolsConserved'
  BY <1>1, <1>2, <1>6 DEF PoolsConserved, MaxPriceLevels
<1>12. \A x \in index' : /\ x < nextId'
                         /\ ord'[x].type # "Market" => ord'[x].price \in Prices
                         /\ Linked(ord', stops', x) => ord'[x].type # "Market"
  BY <1>2, <1>3, <1>4, <1>5, <1>9, <1>10
<1>13. Structure'
  BY <1>8, <1>11, <1>12 DEF Structure
<1>14. SweepLive' /\ MatchPending'
  BY <1>1, <1>2, <1>3, NothingPending DEF SweepLive
<1>15. CurrentLive'
  BY <1>2, <1>3, <1>5 DEF CurrentLive, Working, MayWork
<1> QED BY <1>7, <1>13, <1>14, <1>15 DEF EngineInv

\* new_order.
LEMMA NewOrderKeeps ==
    ASSUME EngineInv, NEW req \in Requests, NewOrder(req)
    PROVE  EngineInv'
<1> DEFINE o == [side |-> req.side, type |-> req.type, tif |-> req.tif,
                 account |-> req.account,
                 price |-> IF req.type = "Stop" THEN req.stop ELSE req.price,
                 level |-> IF req.type \in StopTypes THEN req.stop ELSE 0,
                 quantity |-> req.quantity, filled |-> 0,
                 remaining |-> IF req.display > 0 THEN req.display ELSE req.quantity,
                 display |-> req.display, total |-> req.quantity]
<1>1. req \in OrderRequests
  BY EngineAssumption DEF Requests, EngineInv, Typed
<1>2. /\ req.type \in Types /\ req.price \in Prices \cup {0} /\ req.stop \in Prices \cup {0}
      /\ req.quantity \in Int /\ req.display \in Int /\ req.side \in Sides /\ req.tif \in Tifs
      /\ req.account \in Accounts \cup {0}
  BY <1>1 DEF OrderRequests
<1>3. /\ req.type \in {"Limit", "StopLimit"} => req.price > 0
      /\ req.type \in StopTypes => req.stop > 0
  BY DEF NewOrder, ValidPrices
<1>4. o \in OrderRecords
  <2>1. req.price \in Nat /\ req.stop \in Nat
    <3>1. \A p \in Prices \cup {0} : p \in Nat
      BY PricesAssumption
    <3> QED BY <1>2, <3>1
  <2>2. /\ (IF req.type = "Stop" THEN req.stop ELSE req.price) \in Nat
        /\ (IF req.type \in StopTypes THEN req.stop ELSE 0) \in Prices \cup {0}
        /\ (IF req.display > 0 THEN req.display ELSE req.quantity) \in Int
    BY <1>2, <2>1
  <2> QED BY <1>2, <2>2 DEF OrderRecords
<1>5. /\ o.type # "Market" => o.price \in Prices
      /\ req.type \in StopTypes => o.level \in Prices /\ o.type # "Market"
  <2>1. ~ (0 > 0)
    OBVIOUS
  <2>2. /\ req.type \in {"Limit", "StopLimit"} => req.price \in Prices
        /\ req.type \in StopTypes => req.stop \in Prices
    BY <1>2, <1>3, <2>1
  <2>3. req.type \in {"Limit", "Market", "Stop", "StopLimit"}
    BY <1>2 DEF Types
  <2> QED BY <2>2, <2>3 DEF StopTypes
<1>6. /\ pc = "idle" /\ nextId \in OrderIds /\ freeOrders > 0
      /\ ord' = [ord EXCEPT ![nextId] = o] /\ index' = index \cup {nextId}
      /\ nextId' = nextId + 1 /\ freeOrders' = freeOrders - 1 /\ cur' = nextId
      /\ event' = OrderEvent("Accepted", nextId) /\ depth' = NoDepth
      /\ UNCHANGED <<bookVars, tradeVars, sessionVars, matchVars, sweep>>
  BY EngineAssumption DEF NewOrder, EngineInv, Typed, OrderIds
<1>7. /\ pc' \in {"stop", "collect", "start"}
      /\ pc' = "stop" => req.type \in StopTypes
  BY DEF NewOrder
<1>8. nextId \notin index /\ nextId >= nextId
  BY <1>6 DEF OrderIds, EngineInv, Structure
<1> HIDE DEF o
<1>9. Enters(nextId, o)
  BY <1>4, <1>5, <1>6, <1>7, <1>8 DEF Enters
<1> QED BY <1>9, EntersKeeps

\* restore_order.
LEMMA RestoreOrderKeeps ==
    ASSUME EngineInv, NEW s \in RestoreRequests, RestoreOrder(s)
    PROVE  EngineInv'
<1> DEFINE o == [s.order EXCEPT !.level = 0]
<1>1. s.order \in OrderRecords /\ s.order.price \in Prices
  <2>1. s \in [id : Nat, order : OrderRecords] /\ s.order.price \in Prices
    BY EngineAssumption DEF RestoreRequests, EngineInv, Typed
  <2> QED BY <2>1
<1>2. o \in OrderRecords /\ o.price \in Prices
  BY <1>1 DEF OrderRecords
<1>3. /\ pc = "idle" /\ s.id \in OrderIds \ index /\ freeOrders > 0
      /\ ord' = [ord EXCEPT ![s.id] = o] /\ index' = index \cup {s.id}
      /\ nextId' = IF s.id >= nextId THEN s.id + 1 ELSE nextId
      /\ freeOrders' = freeOrders - 1 /\ cur' = s.id
      /\ event' = OrderEvent("Accepted", s.id) /\ depth' = NoDepth /\ pc' = "restore"
      /\ UNCHANGED <<bookVars, tradeVars, sessionVars, matchVars, sweep>>
  BY DEF RestoreOrder
<1> HIDE DEF o
<1>4. Enters(s.id, o)
  BY <1>2, <1>3 DEF Enters
<1> QED BY <1>4, EntersKeeps
=============================================================================
