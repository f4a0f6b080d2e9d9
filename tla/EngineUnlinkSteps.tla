------------------------- MODULE EngineUnlinkSteps -------------------------
(***************************************************************************)
(* The steps of the engine that take a linked order out of its queue: to   *)
(* give it back, or to work on it again.                                   *)
(***************************************************************************)
EXTENDS EngineBookSteps

USE DEF poolVars, bookVars, tradeVars, sessionVars, matchVars,
        PcValues, EventKinds, NoEvent, OrderEvent, Event, NoDepth, Depth

\* book_.remove_order and the level slot that goes back with an empty level.
LEMMA UnlinkEffect ==
    ASSUME EngineInv, NEW id \in Resting, NEW taken \in Int, Unlink(id, taken),
           profile' = profile
    PROVE  /\ Unlinked(OrderIds, ord, book, stops, id, book') /\ stops' = stops
           /\ book' \in Books(OrderIds) /\ freeLevels' \in Nat
           /\ levelTotal' \in [Sides -> [Prices -> Int]]
           /\ freeLevels' + LevelCount(book') + LevelCount(stops') = MaxPriceLevels'
<1> DEFINE side == ord[id].side
           price == ord[id].level
<1>1. /\ id \in index /\ Linked(ord, book, id) /\ ord[id] \in OrderRecords
      /\ side \in Sides /\ price \in Prices
  BY RestingNotCurrent
<1>2. /\ book' = RemoveOrder(book, side, price, id)
      /\ levelTotal' = [levelTotal EXCEPT ![side][price] = @ - taken - ord[id].remaining]
      /\ freeLevels' = freeLevels + FreedLevels(book, side, price) /\ stops' = stops
  BY DEF Unlink
<1>3. /\ Typed /\ LinksOK(ord, index, cur, book, stops)
      /\ freeLevels + LevelCount(book) + LevelCount(stops) = MaxPriceLevels
  BY DEF EngineInv, Structure, PoolsConserved
<1>4. book \in Books(OrderIds) /\ levelTotal \in [Sides -> [Prices -> Int]]
      /\ freeLevels \in Nat
  BY <1>3 DEF Typed
<1>5. Unlinked(OrderIds, ord, book, stops, id, book')
  <2>1. Places(ord, {id})
    BY <1>1, <1>3, LiveIds
  <2> QED BY <1>1, <1>2, <1>3, <1>4, <2>1, UnlinkedQueues
<1>6. levelTotal' \in [Sides -> [Prices -> Int]]
  <2>1. ord[id].remaining \in Int
    BY <1>1 DEF OrderRecords
  <2>2. levelTotal[side][price] - taken - ord[id].remaining \in Int
    BY <1>1, <1>4, <2>1
  <2> QED BY <1>1, <1>2, <1>4, <2>2, SetTotal
<1>7. /\ book' \in Books(OrderIds) /\ LevelCount(book) \in Nat /\ LevelCount(stops) \in Nat
      /\ LevelCount(book') = LevelCount(book) - FreedLevels(book, side, price)
  BY <1>5, LevelCountNat DEF Unlinked
<1>8. FreedLevels(book, side, price) \in {0, 1}
  BY DEF FreedLevels
<1>9. MaxPriceLevels' = MaxPriceLevels
  BY DEF MaxPriceLevels
<1> HIDE DEF side, price
<1>10. freeLevels' \in Nat
       /\ freeLevels' + LevelCount(book') + LevelCount(stops) = MaxPriceLevels
  BY <1>2, <1>3, <1>4, <1>7, <1>8
<1> QED BY <1>2, <1>5, <1>6, <1>7, <1>9, <1>10

\* remove_stop and its level slot.
LEMMA UnlinkStopEffect ==
    ASSUME EngineInv, NEW id \in index, Linked(ord, stops, id), profile' = profile,
           book' = book, stops' = RemoveOrder(stops, ord[id].side, ord[id].level, id),
           freeLevels' = freeLevels + FreedLevels(stops, ord[id].side, ord[id].level)
    PROVE  /\ Unlinked(OrderIds, ord, stops, book, id, stops')
           /\ stops' \in Books(OrderIds) /\ freeLevels' \in Nat
           /\ freeLevels' + LevelCount(book') + LevelCount(stops') = MaxPriceLevels'
<1> DEFINE freed == FreedLevels(stops, ord[id].side, ord[id].level)
<1>1. /\ Typed /\ LinksOK(ord, index, cur, stops, book)
      /\ freeLevels + LevelCount(book) + LevelCount(stops) = MaxPriceLevels
  BY LinksSymmetric DEF EngineInv, Structure, PoolsConserved
<1>2. stops \in Books(OrderIds) /\ freeLevels \in Nat
  BY <1>1 DEF Typed
<1>3. Unlinked(OrderIds, ord, stops, book, id, stops')
  <2>1. Places(ord, {id})
    BY <1>1, LiveIds
  <2> QED BY <1>1, <1>2, <2>1, UnlinkedQueues
<1>4. /\ stops' \in Books(OrderIds) /\ LevelCount(book) \in Nat /\ LevelCount(stops) \in Nat
      /\ LevelCount(stops') = LevelCount(stops) - freed
  BY <1>3, LevelCountNat DEF Unlinked
<1>5. freed \in {0, 1} /\ freeLevels' = freeLevels + freed
  BY DEF FreedLevels
<1>6. MaxPriceLevels' = MaxPriceLevels
  BY DEF MaxPriceLevels
<1> HIDE DEF freed
<1>7. freeLevels' \in Nat
      /\ freeLevels' + LevelCount(book) + LevelCount(stops') = MaxPriceLevels
  BY <1>1, <1>2, <1>4, <1>5
<1> QED BY <1>3, <1>4, <1>6, <1>7

-----------------------------------------------------------------------------
(* A resting order leaves the engine *)

\* Unlinked from the book and given back, whatever else happens to quantities.
LEMMA ReleaseFromBook ==
    ASSUME EngineInv, NEW id \in Resting, NEW taken \in Int, Unlink(id, taken),
           UNCHANGED <<profile, nextId, cur>>, index' = index \ {id},
           freeOrders' = freeOrders + 1, SameShape(ord, ord', index \ {id})
    PROVE  Structure' /\ freeOrders' \in Nat /\ Resting \ {id} \subseteq Resting'
<1>1. /\ Typed /\ PoolsConserved /\ LinksOK(ord, index, cur, book, stops)
      /\ Places(ord, index) /\ id \in index
  BY LiveIds DEF EngineInv, Structure, Resting
<1>2. /\ Unlinked(OrderIds, ord, book, stops, id, book') /\ stops' = stops
      /\ freeLevels' + LevelCount(book') + LevelCount(stops') = MaxPriceLevels'
  BY UnlinkEffect
<1>3. SamePlace(ord, ord', index \ {id})
  BY DEF SameShape, SamePlace
<1>4. LinksOK(ord', index \ {id}, cur, book', stops)
  BY <1>1, <1>2, <1>3, LinksUnlink
<1>5. freeOrders' \in Nat /\ freeOrders' + Cardinality(index') = MaxOrders'
  BY <1>1, SlotGivenBack
<1>6. \A x \in index \ {id} : /\ x < nextId
                              /\ ord'[x].type # "Market" => ord'[x].price \in Prices
                              /\ Linked(ord', stops, x) => ord'[x].type # "Market"
  BY DEF EngineInv, Structure, SameShape, Linked
<1>7. ASSUME NEW x \in Resting \ {id} PROVE x \in Resting'
  <2>1. x \in index \ {id} /\ Linked(ord, book, x) /\ Places(ord, {x})
    BY <1>1, LiveIds DEF Resting
  <2>2. SamePlace(ord, ord', {x})
    BY <1>3, <2>1 DEF SamePlace
  <2>3. Linked(ord', book', x)
    BY <1>2, <2>1, <2>2, LinkedAfterUnlink
  <2> QED BY <2>1, <2>3 DEF Resting
<1>8. PoolsConserved'
  BY <1>2, <1>5 DEF PoolsConserved
<1>9. LinksOK(ord', index', cur', book', stops')
  BY <1>2, <1>4
<1>10. Structure'
  BY <1>2, <1>6, <1>8, <1>9 DEF Structure
<1> QED BY <1>5, <1>7, <1>10

\* The same for an order of the stop book.
LEMMA ReleaseFromStops ==
    ASSUME EngineInv, NEW id \in index, Linked(ord, stops, id), book' = book,
           stops' = RemoveOrder(stops, ord[id].side, ord[id].level, id),
           freeLevels' = freeLevels + FreedLevels(stops, ord[id].side, ord[id].level),
           UNCHANGED <<profile, nextId, cur>>, index' = index \ {id},
           freeOrders' = freeOrders + 1, SameShape(ord, ord', index \ {id})
    PROVE  Structure' /\ freeOrders' \in Nat
<1>1. /\ Typed /\ PoolsConserved /\ LinksOK(ord, index, cur, stops, book)
      /\ Places(ord, index)
  BY LiveIds, LinksSymmetric DEF EngineInv, Structure
<1>2. /\ Unlinked(OrderIds, ord, stops, book, id, stops')
      /\ freeLevels' + LevelCount(book') + LevelCount(stops') = MaxPriceLevels'
  BY UnlinkStopEffect
<1>3. SamePlace(ord, ord', index \ {id})
  BY DEF SameShape, SamePlace
<1>4. LinksOK(ord', index \ {id}, cur, stops', book)
  BY <1>1, <1>2, <1>3, LinksUnlink
<1>5. freeOrders' \in Nat /\ freeOrders' + Cardinality(index') = MaxOrders'
  BY <1>1, SlotGivenBack
<1>6. ASSUME NEW x \in index \ {id}, Linked(ord', stops', x) PROVE Linked(ord, stops, x)
  <2>1. Places(ord, {x}) /\ SamePlace(ord, ord', {x})
    BY <1>1, <1>3, LiveIds DEF SamePlace
  <2> QED BY <1>2, <1>6, <2>1, LinkedAfterUnlink
<1>7. \A x \in index \ {id} : /\ x < nextId
                              /\ ord'[x].type # "Market" => ord'[x].price \in Prices
                              /\ Linked(ord, stops, x) => ord'[x].type # "Market"
  BY DEF EngineInv, Structure, SameShape
<1>8. PoolsConserved'
  BY <1>2, <1>5 DEF PoolsConserved
<1>9. LinksOK(ord', index', cur', book', stops')
  BY <1>4, LinksSymmetric
<1>10. Structure'
  BY <1>6, <1>7, <1>8, <1>9 DEF Structure
<1> QED BY <1>5, <1>10

\* A resting order that is filled.
LEMMA FillRemoveKeeps ==
    ASSUME EngineInv, NEW f, FillRemove(f)
    PROVE  EngineInv'
<1> DEFINE r == f.resting
<1>1. /\ f.quantity \in Int /\ r \in Resting /\ Tail(fills) \in Seq(FillRecords)
      /\ walk = << >> /\ PendingIn(<< >>, Tail(fills), Resting \ {r})
      /\ cur \in OrderIds /\ cur \in index /\ ord[cur] \in OrderRecords
      /\ ord[cur].filled + f.quantity \in Int
  BY NextFill DEF FillRemove, Executes
<1>2. /\ lastTrade' \in Nat /\ position' \in [Accounts -> Int]
      /\ trades' \in Seq(TradeRecords) /\ event'.kind \in EventKinds
      /\ fills' = Tail(fills) /\ pc = "fills"
      /\ UNCHANGED <<sessionVars, walk, hit, pc, cur, sweep>>
  BY ReportFillTyped DEF FillRemove
<1>3. /\ ord' = [ord EXCEPT ![cur].filled = ord[cur].filled + f.quantity, ![r] = NoOrder]
      /\ index' = index \ {r} /\ freeOrders' = freeOrders + 1 /\ nextId' = nextId
      /\ depth'.action = "Remove" /\ Unlink(r, f.quantity)
  BY DEF FillRemove
<1> HIDE DEF r
<1>4. r \in OrderIds /\ r # cur
  BY <1>1, RestingNotCurrent
<1>5. ord' \in Orders /\ SameShape(ord, ord', index \ {r})
  <2>1. /\ ord' = [id \in OrderIds |-> ord'[id]] /\ ord'[r] = NoOrder
        /\ \A id \in OrderIds \ {r, cur} : ord'[id] = ord[id]
        /\ ord'[cur] = [ord[cur] EXCEPT !.filled = ord[cur].filled + f.quantity]
    BY <1>1, <1>3, <1>4 DEF EngineInv, Typed, Orders
  <2>2. Requantified(ord'[cur], ord[cur])
    BY <1>1, <2>1, SetQuantity
  <2>3. NoOrder \in OrderRecords
    BY DEF NoOrder, OrderRecords, Sides, Types, Tifs
  <2>4. \A id \in OrderIds : ord[id] \in OrderRecords
    BY DEF EngineInv, Typed, Orders
  <2>5. \A id \in OrderIds : ord'[id] \in OrderRecords
    BY <2>1, <2>2, <2>3, <2>4 DEF Requantified
  <2>6. SameShape(ord, ord', index \ {r})
    BY <2>1, <2>2 DEF SameShape, Requantified, EngineInv, Typed
  <2> QED BY <2>1, <2>5, <2>6 DEF Orders
<1>6. /\ Structure' /\ freeOrders' \in Nat /\ Resting \ {r} \subseteq Resting'
  BY <1>1, <1>2, <1>3, <1>5, ReleaseFromBook
<1>7. /\ book' \in Books(OrderIds) /\ freeLevels' \in Nat /\ stops' = stops
      /\ levelTotal' \in [Sides -> [Prices -> Int]]
  BY <1>1, <1>2, <1>3, UnlinkEffect
<1>8. Typed'
  BY <1>1, <1>2, <1>3, <1>5, <1>6, <1>7 DEF EngineInv, Typed, LimitTiers
<1>9. CurrentLive' /\ SweepLive'
  BY <1>1, <1>2, <1>3, <1>4 DEF CurrentLive, SweepLive, Working, MayWork
<1>10. PendingIn(walk', fills', Resting')
  BY <1>1, <1>2, <1>6, PendingMore
<1>11. MatchPending'
  BY <1>1, <1>2, <1>10 DEF MatchPending
<1> QED BY <1>6, <1>8, <1>9, <1>11 DEF EngineInv

\* An order cancelled where it rests, by its client, in a sweep or as the older
\* side of a self-match.
Cancels(id) ==
    /\ Release(id) /\ event'.kind \in EventKinds
    /\ depth'.action \in {"none", "Update", "Remove"}
    /\ hit' \in {hit, 0} /\ sweep' \subseteq sweep
    /\ UNCHANGED <<tradeVars, sessionVars, walk, fills, cur>>

\* It leaves its queue, the index and the pool together.
LEMMA CancelsKeeps ==
    ASSUME EngineInv, NEW id \in index, Cancels(id), walk = << >>, fills = << >>, pc' \in PcValues,
           \/ Linked(ord, book, id) /\ Unlink(id, 0)
           \/ /\ Linked(ord, stops, id) /\ UNCHANGED <<book, levelTotal>>
              /\ stops' = RemoveOrder(stops, ord[id].side, ord[id].level, id)
              /\ freeLevels' = freeLevels + FreedLevels(stops, ord[id].side, ord[id].level)
    PROVE  Typed' /\ Structure' /\ ord' = [ord EXCEPT ![id] = NoOrder]
           /\ index' = index \ {id} /\ (pc' # "undo" => MatchPending')
<1>1. /\ ord' = [ord EXCEPT ![id] = NoOrder] /\ index' = index \ {id}
      /\ freeOrders' = freeOrders + 1 /\ nextId' = nextId
      /\ walk' = << >> /\ fills' = << >> /\ UNCHANGED <<tradeVars, sessionVars, cur>>
      /\ event'.kind \in EventKinds /\ depth'.action \in {"none", "Update", "Remove"}
      /\ hit' \in {hit, 0} /\ sweep' \subseteq sweep
  BY DEF Cancels, Release
<1>2. NoOrder \in OrderRecords /\ ord \in Orders /\ index \in SUBSET OrderIds
  BY DEF NoOrder, OrderRecords, Sides, Types, Tifs, EngineInv, Typed
<1>3. ord' \in Orders /\ SameShape(ord, ord', index \ {id})
  BY <1>1, <1>2 DEF Orders, SameShape
<1>4. /\ Structure' /\ freeOrders' \in Nat /\ freeLevels' \in Nat
      /\ book' \in Books(OrderIds) /\ stops' \in Books(OrderIds)
      /\ levelTotal' \in [Sides -> [Prices -> Int]]
  <2>1. CASE Linked(ord, book, id) /\ Unlink(id, 0)
    <3>1. id \in Resting
      BY <2>1 DEF Resting
    <3>2. Structure' /\ freeOrders' \in Nat
      <4>1. UNCHANGED <<profile, nextId, cur>> /\ 0 \in Int /\ Unlink(id, 0)
        BY <1>1, <2>1
      <4>2. index' = index \ {id} /\ freeOrders' = freeOrders + 1
        BY <1>1
      <4> QED BY <1>3, <3>1, <4>1, <4>2, ReleaseFromBook
    <3>3. /\ book' \in Books(OrderIds) /\ freeLevels' \in Nat /\ stops' = stops
          /\ levelTotal' \in [Sides -> [Prices -> Int]]
      <4>1. profile' = profile /\ 0 \in Int /\ Unlink(id, 0)
        BY <1>1, <2>1
      <4> QED BY <3>1, <4>1, UnlinkEffect
    <3> QED BY <3>2, <3>3 DEF EngineInv, Typed
  <2>2. CASE /\ Linked(ord, stops, id) /\ UNCHANGED <<book, levelTotal>>
             /\ stops' = RemoveOrder(stops, ord[id].side, ord[id].level, id)
             /\ freeLevels' = freeLevels + FreedLevels(stops, ord[id].side, ord[id].level)
    <3>1. Structure' /\ freeOrders' \in Nat
      BY <1>1, <1>3, <2>2, ReleaseFromStops
    <3>2. stops' \in Books(OrderIds) /\ freeLevels' \in Nat
      BY <1>1, <2>2, UnlinkStopEffect
    <3> QED BY <2>2, <3>1, <3>2 DEF EngineInv, Typed
  <2> QED BY <2>1, <2>2
<1>5. Typed'
  BY <1>1, <1>3, <1>4 DEF EngineInv, Typed, LimitTiers
<1>6. pc' # "undo" => MatchPending'
  BY <1>1, NothingPending
<1> QED BY <1>1, <1>4, <1>5, <1>6

\* CancelOldest and the first half of CancelBoth.
LEMMA SmpCancelRestingKeeps ==
    ASSUME EngineInv, SmpCancelResting
    PROVE  EngineInv'
<1>1. hit \in Resting /\ walk = << >> /\ fills = << >> /\ cur \in index
  BY DEF EngineInv, MatchPending, SmpCancelResting, CurrentLive, Working
<1>2. hit \in index /\ hit # cur /\ Linked(ord, book, hit)
  BY <1>1, RestingNotCurrent
<1>3. Cancels(hit) /\ Unlink(hit, 0) /\ pc' \in {"smpBoth", "limits"} /\ cur' = cur
  BY DEF SmpCancelResting, Cancels, DepthAfterRemove, CancelReasons
<1>4. Typed' /\ Structure' /\ index' = index \ {hit} /\ MatchPending'
  BY <1>1, <1>2, <1>3, CancelsKeeps
<1>5. CurrentLive' /\ SweepLive'
  BY <1>1, <1>2, <1>3, <1>4 DEF CurrentLive, SweepLive, Working, MayWork
<1> QED BY <1>4, <1>5 DEF EngineInv

\* cancel_active_order between matches.
LEMMA CancelActiveKeeps ==
    ASSUME EngineInv, pc \in {"idle", "massCancel", "expire"}, NEW id \in index,
           NEW reason \in CancelReasons, CancelActive(id, reason), sweep' \subseteq sweep,
           pc' \in {"done", "massCancel", "expire"},
           SweepLive /\ index' = index \ {id} => SweepLive'
    PROVE  EngineInv'
<1>1. cur = 0 /\ walk = << >> /\ fills = << >>
  BY DEF EngineInv, CurrentLive, Working, MayWork, MatchPending
<1>2. Cancels(id) /\ cur' = cur
  BY DEF CancelActive, Cancels, CancelFromStops, CancelFromBook, DepthAfterRemove
<1>3. \/ Linked(ord, book, id) /\ Unlink(id, 0)
      \/ /\ Linked(ord, stops, id) /\ UNCHANGED <<book, levelTotal>>
         /\ stops' = RemoveOrder(stops, ord[id].side, ord[id].level, id)
         /\ freeLevels' = freeLevels + FreedLevels(stops, ord[id].side, ord[id].level)
  BY DEF CancelActive, CancelFromStops, CancelFromBook, IsMisplaced, InBook, Linked
<1>4. Typed' /\ Structure' /\ index' = index \ {id} /\ MatchPending'
  BY <1>1, <1>2, <1>3, CancelsKeeps
<1>5. CurrentLive'
  BY <1>1, <1>2 DEF CurrentLive, Working, MayWork
<1> QED BY <1>4, <1>5 DEF EngineInv

\* cancel_order.
LEMMA CancelOrderKeeps ==
    ASSUME EngineInv, NEW id \in OrderIds, CancelOrder(id)
    PROVE  EngineInv'
<1>1. CASE CancelActive(id, "UserRequested") /\ pc' = "done" /\ UNCHANGED sweep
  BY <1>1, CancelActiveKeeps DEF CancelOrder, CancelReasons, SweepLive
<1>2. CASE CancelMisplaced(id)
  BY <1>2, CallControlKeeps DEF CancelOrder, CancelMisplaced
<1> QED BY <1>1, <1>2 DEF CancelOrder

\* One order of a mass cancel or an expiry.
LEMMA SweepStepKeeps ==
    ASSUME EngineInv, SweepStep
    PROVE  EngineInv'
<1> DEFINE id == Min(sweep)
           reason == IF pc = "expire" THEN "Expired" ELSE "MassCancelled"
<1>1. /\ pc \in {"massCancel", "expire"} /\ sweep # {} /\ sweep \subseteq index
      /\ sweep \subseteq OrderIds
  BY DEF EngineInv, SweepLive, SweepStep, Typed
<1>2. id \in sweep
  <2>1. sweep \subseteq Nat
    BY <1>1 DEF OrderIds
  <2>2. PICK m \in sweep : \A n \in sweep : <<n, m>> \notin OpToRel(<, Nat)
    BY <1>1, <2>1, NatLessThanWellFounded, WFMin, Zenon
  <2>3. \A n \in sweep : ~ (n < m)
    BY <2>1, <2>2, Zenon DEF OpToRel
  <2>4. \A n \in sweep : m <= n
    BY <2>1, <2>3
  <2> QED BY <2>4 DEF Min
<1>3. reason \in CancelReasons
  BY DEF CancelReasons
<1>4. \/ /\ CancelActive(id, reason)
         /\ sweep' = sweep \ {id} /\ pc' = IF sweep' = {} THEN "done" ELSE pc
      \/ CancelMisplaced(id)
  BY DEF SweepStep
<1> HIDE DEF id, reason
<1>5. CASE CancelMisplaced(id)
  BY <1>1, <1>5, CallControlKeeps DEF CancelMisplaced
<1>6. CASE /\ CancelActive(id, reason)
           /\ sweep' = sweep \ {id} /\ pc' = IF sweep' = {} THEN "done" ELSE pc
  <2>1. index' = index \ {id} => SweepLive'
    BY <1>1, <1>6 DEF SweepLive
  <2> QED BY <1>1, <1>2, <1>3, <1>6, <2>1, CancelActiveKeeps
<1> QED BY <1>4, <1>5, <1>6
=============================================================================
