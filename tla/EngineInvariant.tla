------------------------ MODULE EngineInvariant -----------------------------
(***************************************************************************)
(* The inductive invariant of the matching engine, and that the steps      *)
(* which move control or quantities, and leave both books as they are,     *)
(* preserve it.  It holds for every set of prices, accounts and profiles.  *)
(***************************************************************************)
EXTENDS MatchingEngine, BookLinkProofs

-----------------------------------------------------------------------------
(* The inductive invariant *)

Orders == [OrderIds -> OrderRecords]

\* TypeOK, without the upper bounds of the pools, which follow from PoolsConserved.
Typed ==
    /\ profile \in DOMAIN Profiles
    /\ session \in SessionStates /\ viRef \in Nat /\ tier \in 0 .. Len(LimitTiers)
    /\ ord \in Orders
    /\ index \in SUBSET OrderIds /\ nextId \in 1 .. MaxOrderIds
    /\ book \in Books(OrderIds) /\ stops \in Books(OrderIds)
    /\ levelTotal \in [Sides -> [Prices -> Int]]
    /\ freeOrders \in Nat /\ freeLevels \in Nat
    /\ lastTrade \in Nat
    /\ position \in [Accounts -> Int] /\ trades \in Seq(TradeRecords)
    /\ pc \in PcValues
    /\ cur \in OrderIds \cup {0} /\ hit \in OrderIds \cup {0}
    /\ walk \in Seq(OrderIds) /\ fills \in Seq(FillRecords)
    /\ sweep \in SUBSET OrderIds
    /\ event.kind \in EventKinds
    /\ depth.action \in {"none", "Add", "Update", "Remove"}

\* next_order_id_ is beyond every live id, the links and the pools agree, and
\* whatever may still be linked by its price has one.
Structure ==
    /\ \A id \in index : id < nextId
    /\ LinksOK(ord, index, cur, book, stops)
    /\ PoolsConserved
    /\ \A id \in index : ord[id].type # "Market" => ord[id].price \in Prices
    /\ \A id \in index : Linked(ord, stops, id) => ord[id].type # "Market"

\* The steps that work on an order, and those that may have lost it.
Working == {"stop", "collect", "restore", "start", "algo", "fills", "undo", "smpBoth",
            "post"}
MayWork == {"match", "limits"}
CurrentLive ==
    /\ pc \in Working => cur \in index
    /\ pc \in MayWork => cur \in index \cup {0}
    /\ pc \notin Working \cup MayWork => cur = 0
    /\ pc = "stop" => ord[cur].level \in Prices /\ ord[cur].type # "Market"
    /\ pc = "restore" => ord[cur].price \in Prices

Resting == {id \in index : Linked(ord, book, id)}

\* The match in progress: the orders still to be walked and those of the fills
\* not yet processed rest in the book, and none of them comes up twice.
MatchPending ==
    /\ pc # "algo" => walk = << >>
    /\ pc \notin {"algo", "fills", "undo"} => fills = << >>
    /\ pc = "undo" => hit \in Resting
    /\ PendingIn(walk, fills, Resting)

SweepLive == pc \in {"massCancel", "expire"} => sweep # {} /\ sweep \subseteq index

EngineInv == Typed /\ Structure /\ CurrentLive /\ MatchPending /\ SweepLive

-----------------------------------------------------------------------------
(* Steps that leave links and slots alone *)

\* Everything about an order that its links depend on.
SameShape(o, p, ids) ==
    \A id \in ids : /\ p[id].side = o[id].side /\ p[id].level = o[id].level
                    /\ p[id].type = o[id].type /\ p[id].price = o[id].price

Quiet ==
    /\ UNCHANGED <<index, nextId, freeOrders, book, stops, freeLevels, cur, profile>>
    /\ SameShape(ord, ord', index)

\* A step that moves quantities and control only leaves every link as it was.
LEMMA QuietKeepsStructure ==
    ASSUME Structure, Quiet
    PROVE  Structure' /\ Resting' = Resting
<1>1. SamePlace(ord, ord', index)
  BY DEF Quiet, SameShape, SamePlace
<1>2. LinksOK(ord', index, cur, book, stops)
  BY <1>1, LinksKept DEF Structure
<1>3. \A id \in index : /\ Linked(ord', book, id) <=> Linked(ord, book, id)
                        /\ Linked(ord', stops, id) <=> Linked(ord, stops, id)
  BY <1>1 DEF Linked, SamePlace
<1>4. /\ index' = index /\ book' = book /\ stops' = stops /\ cur' = cur
      /\ nextId' = nextId /\ freeOrders' = freeOrders /\ freeLevels' = freeLevels
      /\ profile' = profile
  BY DEF Quiet
<1>5. PoolsConserved'
  BY <1>4 DEF Structure, PoolsConserved, MaxOrders, MaxPriceLevels
<1>6. /\ \A id \in index : ord'[id].type # "Market" => ord'[id].price \in Prices
      /\ \A id \in index : Linked(ord', stops, id) => ord'[id].type # "Market"
  BY <1>3 DEF Structure, Quiet, SameShape
<1>7. \A id \in index : id < nextId
  BY DEF Structure
<1>8. Resting' = Resting
  BY <1>3, <1>4 DEF Resting
<1> QED BY <1>2, <1>4, <1>5, <1>6, <1>7, <1>8 DEF Structure

USE DEF poolVars, bookVars, tradeVars, sessionVars, matchVars

\* A step of control: only pc, hit, walk and what the listeners see change.
ControlStep ==
    /\ UNCHANGED <<poolVars, bookVars, tradeVars, profile, fills, cur>>
    /\ session' \in SessionStates /\ viRef' \in Nat /\ tier' \in 0 .. Len(LimitTiers)
    /\ pc' \in PcValues /\ hit' \in OrderIds \cup {0} /\ walk' \in Seq(OrderIds)
    /\ sweep' \in SUBSET OrderIds
    /\ event'.kind \in EventKinds
    /\ depth'.action \in {"none", "Add", "Update", "Remove"}

\* Such a step keeps types, links and slots.
LEMMA ControlKeepsStructure ==
    ASSUME Typed, Structure, ControlStep
    PROVE  Typed' /\ Structure'
<1>1. Typed'
  BY DEF Typed, ControlStep, LimitTiers
<1>2. Quiet
  BY DEF ControlStep, Quiet, SameShape
<1> QED BY <1>1, <1>2, QuietKeepsStructure

\* What the steps of control have to show besides.
LEMMA ControlKeepsInv ==
    ASSUME EngineInv, ControlStep, CurrentLive', MatchPending', SweepLive'
    PROVE  EngineInv'
BY ControlKeepsStructure DEF EngineInv

USE DEF PcValues, EventKinds, NoEvent, OrderEvent, Event, NoDepth, Depth

\* Entering a level: its queue is what is walked.
LEMMA TakeLevelKeeps ==
    ASSUME EngineInv, NEW price \in Prices, TakeLevel(price)
    PROVE  EngineInv'
<1> DEFINE side == Opposite(ord[cur].side)
           queue == book[side][price]
<1>1. side \in Sides
  BY DEF Opposite, Sides
<1>2. queue \in Seq(OrderIds)
  BY <1>1 DEF EngineInv, Typed, Books
<1>10. QueuesOK(ord, index, cur, book)
  BY DEF EngineInv, Structure, LinksOK
<1>3. IsInjective(queue) /\ \A i \in DOMAIN queue : Contains(queue, queue[i])
  BY <1>1, <1>2, <1>10 DEF QueuesOK, Contains
<1>11. \A id : Contains(queue, id) =>
                  id \in index /\ ord[id].side = side /\ ord[id].level = price
  BY ONLY <1>1, <1>10, price \in Prices DEF QueuesOK
<1>4. \A i \in DOMAIN queue : queue[i] \in index /\ Linked(ord, book, queue[i])
  <2> SUFFICES ASSUME NEW i \in DOMAIN queue
               PROVE  queue[i] \in index /\ Linked(ord, book, queue[i])
    OBVIOUS
  <2>1. queue[i] \in index /\ ord[queue[i]].side = side /\ ord[queue[i]].level = price
    BY ONLY <1>3, <1>11, i \in DOMAIN queue
  <2>2. price # 0
    BY ONLY price \in Prices, PricesAssumption
  <2>3. Contains(book[ord[queue[i]].side][ord[queue[i]].level], queue[i])
    BY ONLY <1>3, <2>1, i \in DOMAIN queue DEF queue
  <2> QED BY ONLY <2>1, <2>2, <2>3 DEF Linked
<1>5. ControlStep
  BY <1>2 DEF TakeLevel, ControlStep, EngineInv, Typed
<1>6. walk' = queue /\ pc = "match" /\ pc' = "algo" /\ fills' = fills /\ cur # 0
      /\ UNCHANGED <<ord, index, book, cur>>
  BY DEF TakeLevel, IsNextLevel
<1> HIDE DEF queue, side
<1>7. CurrentLive' /\ SweepLive'
  BY <1>6 DEF EngineInv, CurrentLive, SweepLive, Working, MayWork
<1>8. fills = << >>
  BY <1>6 DEF EngineInv, MatchPending
<1>9. MatchPending'
  <2>1. \A i \in DOMAIN queue : queue[i] \in Resting
    BY <1>4 DEF Resting
  <2>2. Resting' = Resting
    BY <1>6 DEF Resting
  <2>3. PendingIn(queue, << >>, Resting)
    BY <1>3, <2>1 DEF PendingIn, IsInjective
  <2> QED BY <1>6, <1>8, <2>2, <2>3 DEF MatchPending
<1> QED BY <1>5, <1>7, <1>9, ControlKeepsInv

\* Nothing is pending, or the same as before.
LEMMA SamePending ==
    ASSUME MatchPending, Resting \subseteq Resting', fills' = fills,
           walk' = walk \/ walk' = << >>,
           pc' # "algo" => walk' = << >>,
           pc' \notin {"algo", "fills", "undo"} => fills = << >>,
           pc' = "undo" => hit' \in Resting
    PROVE  MatchPending'
<1>1. PendingIn(walk', fills, Resting)
  BY DEF MatchPending, PendingIn
<1>2. PendingIn(walk', fills, Resting')
  BY <1>1, PendingMore
<1> QED BY <1>2 DEF MatchPending

\* The same for a step of control.
LEMMA ControlPending ==
    ASSUME MatchPending, ControlStep,
           walk' = walk \/ walk' = << >>,
           pc' # "algo" => walk' = << >>,
           pc' \notin {"algo", "fills", "undo"} => fills = << >>,
           pc' = "undo" => hit' \in Resting
    PROVE  MatchPending'
<1>1. Resting' = Resting /\ fills' = fills
  BY DEF ControlStep, Resting
<1> QED BY <1>1, SamePending

\* The steps of the matching loop that change nothing but control.
LEMMA LoopControlKeeps ==
    ASSUME EngineInv,
           \/ LeaveLoop \/ FifoDone \/ DetectSelfMatch \/ SmpContinue \/ FillsDone
    PROVE  EngineInv'
<1> USE DEF EngineInv
<1>1. CASE LeaveLoop
  <2>1. ControlStep /\ MatchPending' /\ SweepLive'
    BY <1>1, ControlPending DEF LeaveLoop, AfterLoop, ControlStep, Typed, SweepLive, MatchPending
  <2>2. CurrentLive'
    BY <1>1 DEF LeaveLoop, AfterLoop, CurrentLive, Working, MayWork
  <2> QED BY <2>1, <2>2, ControlKeepsInv
<1>2. CASE FifoDone
  <2>1. ControlStep /\ MatchPending' /\ SweepLive'
    BY <1>2, ControlPending DEF FifoDone, ControlStep, Typed, SweepLive, MatchPending
  <2>2. CurrentLive'
    BY <1>2 DEF FifoDone, CurrentLive, Working, MayWork
  <2> QED BY <2>1, <2>2, ControlKeepsInv
<1>3. CASE DetectSelfMatch
  <2>1. fills \in Seq(FillRecords) /\ fills # << >> /\ PendingIn(<< >>, fills, Resting)
    BY <1>3 DEF DetectSelfMatch, MatchPending, Typed
  <2> HIDE DEF EngineInv
  <2>2. Head(fills).resting \in Resting
    BY <2>1, PendingTail
  <2> USE DEF EngineInv
  <2>3. Head(fills).resting \in OrderIds
    BY <2>2 DEF Resting, Typed
  <2>4. ControlStep /\ SweepLive'
    BY <1>3, <2>3 DEF DetectSelfMatch, ControlStep, Typed, SweepLive
  <2>5. MatchPending'
    BY <1>3, <2>2, <2>4, ControlPending DEF DetectSelfMatch, MatchPending
  <2>6. CurrentLive'
    BY <1>3 DEF DetectSelfMatch, CurrentLive, Working, MayWork
  <2> QED BY <2>4, <2>5, <2>6, ControlKeepsInv
<1>4. CASE SmpContinue
  <2>1. ControlStep /\ MatchPending' /\ SweepLive'
    BY <1>4, ControlPending DEF SmpContinue, ControlStep, Typed, SweepLive, MatchPending
  <2>2. CurrentLive'
    BY <1>4 DEF SmpContinue, CurrentLive, Working, MayWork
  <2> QED BY <2>1, <2>2, ControlKeepsInv
<1>5. CASE FillsDone
  <2>1. ControlStep /\ MatchPending' /\ SweepLive'
    BY <1>5, ControlPending DEF FillsDone, ControlStep, Typed, SweepLive, MatchPending
  <2>2. CurrentLive'
    BY <1>5 DEF FillsDone, CurrentLive, Working, MayWork
  <2> QED BY <2>1, <2>2, ControlKeepsInv
<1> QED BY <1>1, <1>2, <1>3, <1>4, <1>5

\* The checks after a level: session state and limit tier may change.
LEMMA LimitChecksKeep ==
    ASSUME EngineInv,
           \/ StillLocked \/ HitDailyLimit \/ InterruptVolatility \/ NextLevel
    PROVE  EngineInv'
<1> USE DEF EngineInv
<1>1. PICK next \in {"match", AfterLoop} : EndLevel(next)
  BY DEF StillLocked, HitDailyLimit, InterruptVolatility, NextLevel
<1>2. profile' = profile
  BY DEF StillLocked, HitDailyLimit, InterruptVolatility, NextLevel
<1>3. session' \in SessionStates /\ viRef' \in Nat
  BY DEF StillLocked, HitDailyLimit, InterruptVolatility, NextLevel, Typed, SessionStates
<1>4. tier' \in 0 .. Len(LimitTiers)
  <2>1. LimitTiers \in Seq(Nat \X Nat)
    BY EngineAssumption DEF LimitTiers, Typed
  <2>2. tier' = tier \/ (tier' = tier + 1 /\ tier < Len(LimitTiers))
    BY DEF StillLocked, HitDailyLimit, InterruptVolatility, NextLevel
  <2> QED BY <2>1, <2>2 DEF Typed
<1>5. ControlStep
  BY <1>1, <1>2, <1>3, <1>4 DEF EndLevel, AfterLoop, ControlStep, Typed
<1>6. MatchPending' /\ SweepLive'
  BY <1>1, <1>5, ControlPending DEF EndLevel, AfterLoop, MatchPending, SweepLive
<1>7. CurrentLive'
  BY <1>1 DEF EndLevel, AfterLoop, CurrentLive, Working, MayWork
<1> QED BY <1>5, <1>6, <1>7, ControlKeepsInv

\* Calls that only set something up, and the end of a call.
LEMMA CallControlKeeps ==
    ASSUME EngineInv,
           \/ Return
           \/ \E new \in Sessions : SetSessionState(new)
           \/ UnlockLimit
           \/ pc \in {"idle", "massCancel", "expire"} /\ Corrupt
    PROVE  EngineInv'
<1> USE DEF EngineInv
<1>1. CASE Return
  <2>1. ControlStep /\ MatchPending' /\ SweepLive'
    BY <1>1, ControlPending DEF Return, ControlStep, Typed, SweepLive, MatchPending
  <2>2. CurrentLive'
    BY <1>1 DEF Return, CurrentLive, Working, MayWork
  <2> QED BY <2>1, <2>2, ControlKeepsInv
<1>2. ASSUME NEW new \in Sessions, SetSessionState(new) PROVE EngineInv'
  <2>1. new \in SessionStates
    BY EngineAssumption DEF Sessions, Typed
  <2>2. ControlStep /\ MatchPending' /\ SweepLive'
    BY <1>2, <2>1, ControlPending DEF SetSessionState, ControlStep, Typed, SweepLive,
                                   MatchPending
  <2>3. CurrentLive'
    BY <1>2 DEF SetSessionState, CurrentLive, Working, MayWork
  <2> QED BY <2>2, <2>3, ControlKeepsInv
<1>3. CASE UnlockLimit
  <2>1. ControlStep /\ MatchPending' /\ SweepLive'
    BY <1>3, ControlPending DEF UnlockLimit, ControlStep, Typed, SweepLive, MatchPending,
                             SessionStates
  <2>2. CurrentLive'
    BY <1>3 DEF UnlockLimit, CurrentLive, Working, MayWork
  <2> QED BY <2>1, <2>2, ControlKeepsInv
<1>4. CASE pc \in {"idle", "massCancel", "expire"} /\ Corrupt
  <2>1. cur = 0
    BY <1>4 DEF CurrentLive, Working, MayWork
  <2>2. ControlStep /\ MatchPending' /\ SweepLive'
    BY <1>4, <2>1, ControlPending DEF Corrupt, ControlStep, Typed, SweepLive, MatchPending
  <2>3. CurrentLive'
    BY <1>4, <2>1 DEF Corrupt, CurrentLive, Working, MayWork
  <2> QED BY <2>2, <2>3, ControlKeepsInv
<1> QED BY <1>1, <1>2, <1>3, <1>4

\* A mass cancel or an expiry begins with live orders only.
LEMMA BeginSweepKeeps ==
    ASSUME EngineInv, NEW ids \in SUBSET index, NEW how \in {"massCancel", "expire"},
           BeginSweep(ids, how)
    PROVE  EngineInv'
<1> USE DEF EngineInv
<1>1. ControlStep /\ MatchPending' /\ SweepLive'
  BY ControlPending DEF BeginSweep, ControlStep, Typed, SweepLive, MatchPending
<1>2. CurrentLive'
  BY DEF BeginSweep, CurrentLive, Working, MayWork
<1> QED BY <1>1, <1>2, ControlKeepsInv

-----------------------------------------------------------------------------
(* Steps that move quantity between orders *)

\* Record x differs from order o in its quantities only.
Requantified(x, o) ==
    /\ x \in OrderRecords
    /\ x.side = o.side /\ x.level = o.level /\ x.type = o.type /\ x.price = o.price

\* What assignments to the quantities of one order do.
LEMMA SetQuantity ==
    ASSUME NEW o \in OrderRecords, NEW m \in Int, NEW x,
           \/ x = o
           \/ x = [o EXCEPT !.filled = m]
           \/ x = [o EXCEPT !.remaining = m]
    PROVE  Requantified(x, o)
BY DEF Requantified, OrderRecords

\* The same for two of them at once.
LEMMA SetQuantities ==
    ASSUME NEW o \in OrderRecords, NEW m \in Int, NEW n \in Int, NEW x,
           \/ x = [o EXCEPT !.filled = m, !.remaining = n]
           \/ x = [o EXCEPT !.quantity = m, !.remaining = n]
    PROVE  Requantified(x, o)
BY DEF Requantified, OrderRecords

\* A step that does no more than that to any order.
LEMMA RequantifiedOrders ==
    ASSUME NEW o, NEW p, p = [id \in OrderIds |-> p[id]],
           \A id \in OrderIds : Requantified(p[id], o[id]),
           NEW ids \in SUBSET OrderIds
    PROVE  p \in Orders /\ SameShape(o, p, ids)
<1>1. \A id \in OrderIds : p[id] \in OrderRecords
  BY DEF Requantified
<1>2. p \in Orders
  BY <1>1 DEF Orders
<1>3. SameShape(o, p, ids)
  BY DEF Requantified, SameShape
<1> QED BY <1>2, <1>3

\* Two orders, of which one is the aggressor.
LEMMA TwoRequantified ==
    ASSUME Typed, NEW r \in OrderIds, NEW p, p = [id \in OrderIds |-> p[id]],
           \A id \in OrderIds \ {r, cur} : p[id] = ord[id],
           Requantified(p[r], ord[r]), Requantified(p[cur], ord[cur])
    PROVE  p \in Orders /\ SameShape(ord, p, index)
<1>1. \A id \in OrderIds : ord[id] \in OrderRecords
  BY DEF Typed, Orders
<1>2. \A id \in OrderIds : Requantified(p[id], ord[id])
  BY <1>1 DEF Requantified
<1>3. index \in SUBSET OrderIds
  BY DEF Typed
<1> QED BY <1>2, <1>3, RequantifiedOrders

\* The remaining obligations of a step that leaves links and slots alone.
LEMMA QuietKeepsInv ==
    ASSUME EngineInv, Quiet, Typed', CurrentLive', SweepLive',
           Resting' = Resting => MatchPending'
    PROVE  EngineInv'
<1>1. Structure' /\ Resting' = Resting
  BY QuietKeepsStructure DEF EngineInv
<1> QED BY <1>1 DEF EngineInv

\* The order worked on is none of those that rest.
LEMMA RestingNotCurrent ==
    ASSUME EngineInv, NEW r \in Resting
    PROVE  r \in OrderIds /\ r \in index /\ r # cur /\ Linked(ord, book, r)
           /\ ord[r] \in OrderRecords /\ ord[r].level \in Prices /\ ord[r].side \in Sides
<1>1. r \in index /\ Linked(ord, book, r) /\ r \in OrderIds /\ ord[r] \in OrderRecords
  BY DEF Resting, EngineInv, Typed, Orders
<1>2. Places(ord, {r})
  BY <1>1 DEF Places, OrderRecords
<1>3. QueuesOK(ord, index, cur, book)
  BY DEF EngineInv, Structure, LinksOK
<1>4. r # cur
  BY <1>1, <1>2, <1>3, LinkedLive
<1>5. ord[r].level \in Prices /\ ord[r].side \in Sides
  BY <1>1, <1>2, LinkedPlace
<1> QED BY <1>1, <1>4, <1>5

\* The matching policy: the head of the walk becomes a fill.
LEMMA FifoStepKeeps ==
    ASSUME EngineInv, FifoStep
    PROVE  EngineInv'
<1> DEFINE r == Head(walk)
           q == Smaller(ord[cur].remaining, ord[r].remaining)
           f == [resting |-> r, price |-> ord[r].level, quantity |-> q,
                 left |-> ord[r].remaining - q]
<1>1. /\ walk \in Seq(OrderIds) /\ walk # << >> /\ fills \in Seq(FillRecords)
      /\ PendingIn(walk, fills, Resting) /\ ord \in Orders
      /\ cur \in OrderIds
  BY DEF EngineInv, FifoStep, MatchPending, Typed, CurrentLive, Working
<1>2. r \in Resting
  BY <1>1 DEF PendingIn
<1>3. /\ r \in OrderIds /\ r # cur /\ ord[r] \in OrderRecords /\ ord[r].level \in Prices
      /\ ord[cur] \in OrderRecords
  BY <1>1, <1>2, RestingNotCurrent DEF Orders
<1>4. /\ q \in Int /\ ord[r].remaining - q \in Int /\ ord[cur].remaining - q \in Int
      /\ ord[r].filled + q \in Int
  BY <1>3 DEF Smaller, OrderRecords
<1>5. /\ ord' = [ord EXCEPT ![r].filled = @ + q, ![r].remaining = @ - q,
                            ![cur].remaining = @ - q]
      /\ fills' = Append(fills, f) /\ walk' = Tail(walk)
      /\ pc = "algo" /\ pc' = pc
      /\ UNCHANGED <<index, nextId, freeOrders, bookVars, tradeVars, sessionVars, hit, cur,
                     sweep, event, depth>>
  BY DEF FifoStep
<1> HIDE DEF q
<1>6. f \in FillRecords /\ f.resting = Head(walk)
  BY <1>3, <1>4 DEF FillRecords
<1> HIDE DEF f, r
<1>7. ord' \in Orders /\ SameShape(ord, ord', index)
  <2>1. /\ ord' = [id \in OrderIds |-> ord'[id]]
        /\ \A id \in OrderIds \ {r, cur} : ord'[id] = ord[id]
        /\ ord'[r] = [ord[r] EXCEPT !.filled = ord[r].filled + q,
                                    !.remaining = ord[r].remaining - q]
        /\ ord'[cur] = [ord[cur] EXCEPT !.remaining = ord[cur].remaining - q]
    BY <1>1, <1>3, <1>5 DEF Orders
  <2>2. PICK m, n \in Int : ord'[r] = [ord[r] EXCEPT !.filled = m, !.remaining = n]
    BY <1>4, <2>1
  <2>3. Requantified(ord'[r], ord[r])
    BY <1>3, <2>2, SetQuantities
  <2>4. Requantified(ord'[cur], ord[cur])
    BY <1>3, <1>4, <2>1, SetQuantity
  <2> QED BY <1>3, <2>1, <2>3, <2>4, TwoRequantified DEF EngineInv
<1>8. Typed' /\ Quiet
  BY <1>1, <1>5, <1>6, <1>7 DEF EngineInv, Typed, Quiet, LimitTiers
<1>9. CurrentLive' /\ SweepLive'
  BY <1>5 DEF EngineInv, CurrentLive, SweepLive, Working, MayWork
<1>10. PendingIn(walk', fills', Resting)
  BY <1>1, <1>5, <1>6, PendingAdvance
<1>11. Resting' = Resting => MatchPending'
  BY <1>5, <1>10 DEF MatchPending
<1> QED BY <1>8, <1>9, <1>11, QuietKeepsInv

\* What holds of the fill to be processed next.
LEMMA NextFill ==
    ASSUME EngineInv, pc \in {"fills", "undo"}, fills # << >>, NEW f, f = Head(fills)
    PROVE  /\ f \in FillRecords /\ f.quantity \in Int /\ f.price \in Prices
           /\ f.resting \in Resting
           /\ fills \in Seq(FillRecords) /\ Tail(fills) \in Seq(FillRecords)
           /\ walk = << >> /\ PendingIn(<< >>, Tail(fills), Resting \ {f.resting})
           /\ cur \in OrderIds /\ cur \in index /\ ord[cur] \in OrderRecords
           /\ ord[cur].filled + f.quantity \in Int
<1>1. /\ fills \in Seq(FillRecords) /\ walk = << >> /\ PendingIn(<< >>, fills, Resting)
      /\ cur \in OrderIds /\ cur \in index /\ ord[cur] \in OrderRecords
  BY DEF EngineInv, MatchPending, Typed, CurrentLive, Working, Orders
<1>2. f.resting \in Resting /\ PendingIn(<< >>, Tail(fills), Resting \ {f.resting})
  BY <1>1, PendingTail
<1>3. f \in FillRecords /\ Tail(fills) \in Seq(FillRecords)
  BY <1>1
<1>4. f.quantity \in Int /\ f.price \in Prices /\ ord[cur].filled + f.quantity \in Int
  BY <1>1, <1>3 DEF FillRecords, OrderRecords
<1> QED BY <1>1, <1>2, <1>3, <1>4

\* undo_fills, one fill per step.
LEMMA UndoFillKeeps ==
    ASSUME EngineInv, UndoFill
    PROVE  EngineInv'
<1> DEFINE f == Head(fills)
           r == f.resting
           q == f.quantity
<1>1. /\ q \in Int /\ r \in Resting
      /\ Tail(fills) \in Seq(FillRecords)
      /\ walk = << >> /\ PendingIn(<< >>, Tail(fills), Resting \ {r})
      /\ cur \in OrderIds /\ ord[cur] \in OrderRecords
  BY NextFill DEF UndoFill
<1>2. /\ ord' = [ord EXCEPT ![r].filled = @ - q, ![r].remaining = @ + q,
                            ![cur].remaining = @ + q]
      /\ fills' = Tail(fills) /\ pc = "undo" /\ pc' = pc
      /\ UNCHANGED <<index, nextId, freeOrders, bookVars, tradeVars, sessionVars,
                     walk, hit, cur, sweep, event, depth>>
  BY DEF UndoFill
<1> HIDE DEF f, r, q
<1>3. r \in OrderIds /\ r # cur /\ ord[r] \in OrderRecords
  BY <1>1, RestingNotCurrent
<1>4. /\ ord[r].remaining + q \in Int /\ ord[cur].remaining + q \in Int
      /\ ord[r].filled - q \in Int
  <2>1. q \in Int /\ ord[r] \in OrderRecords /\ ord[cur] \in OrderRecords
    BY <1>1, <1>3
  <2>2. ord[r].remaining \in Int /\ ord[cur].remaining \in Int /\ ord[r].filled \in Int
    BY <2>1 DEF OrderRecords
  <2> QED BY <2>1, <2>2
<1>5. ord' \in Orders /\ SameShape(ord, ord', index)
  <2>1. /\ ord' = [id \in OrderIds |-> ord'[id]]
        /\ \A id \in OrderIds \ {r, cur} : ord'[id] = ord[id]
        /\ ord'[r] = [ord[r] EXCEPT !.filled = ord[r].filled - q,
                                    !.remaining = ord[r].remaining + q]
        /\ ord'[cur] = [ord[cur] EXCEPT !.remaining = ord[cur].remaining + q]
    BY <1>1, <1>2, <1>3 DEF EngineInv, Typed, Orders
  <2>2. PICK m, n \in Int : ord'[r] = [ord[r] EXCEPT !.filled = m, !.remaining = n]
    BY <1>4, <2>1
  <2>3. Requantified(ord'[r], ord[r])
    BY <1>3, <2>2, SetQuantities
  <2>4. Requantified(ord'[cur], ord[cur])
    BY <1>1, <1>3, <1>4, <2>1, SetQuantity
  <2> QED BY <1>3, <2>1, <2>3, <2>4, TwoRequantified DEF EngineInv
<1>6. Typed' /\ Quiet
  BY <1>1, <1>2, <1>5 DEF EngineInv, Typed, Quiet, LimitTiers
<1>7. CurrentLive' /\ SweepLive'
  BY <1>2 DEF EngineInv, CurrentLive, SweepLive, Working, MayWork
<1>8. PendingIn(walk', fills', Resting)
  <2>1. Resting \ {r} \subseteq Resting /\ PendingIn(walk', fills', Resting \ {r})
    BY <1>1, <1>2
  <2> QED BY <2>1, PendingMore
<1>9. Resting' = Resting => MatchPending'
  BY <1>2, <1>8 DEF EngineInv, MatchPending
<1> QED BY <1>6, <1>7, <1>9, QuietKeepsInv

\* What every fill reports has its type.
LEMMA ReportFillTyped ==
    ASSUME EngineInv, NEW f, Executes(f), ReportFill(f)
    PROVE  /\ lastTrade' \in Nat /\ position' \in [Accounts -> Int]
           /\ trades' \in Seq(TradeRecords) /\ event'.kind \in EventKinds
           /\ fills' = Tail(fills) /\ pc = "fills"
           /\ UNCHANGED <<sessionVars, walk, hit, pc, cur, sweep>>
<1>1. /\ f \in FillRecords /\ f.quantity \in Int /\ f.price \in Prices
      /\ f.resting \in Resting /\ cur \in OrderIds /\ ord[cur] \in OrderRecords
  BY NextFill DEF Executes
<1>2. f.resting \in OrderIds /\ ord[f.resting] \in OrderRecords
  BY <1>1, RestingNotCurrent
<1>3. lastTrade' \in Nat
  BY <1>1, PricesAssumption DEF ReportFill
<1>4. position' \in [Accounts -> Int]
  BY <1>1 DEF ReportFill, Moved, EngineInv, Typed
<1>5. trades' \in Seq(TradeRecords)
  <2> DEFINE t == [aggressor |-> cur, resting |-> f.resting, price |-> f.price,
                   quantity |-> f.quantity, side |-> ord[cur].side,
                   aggressorAccount |-> ord[cur].account,
                   restingAccount |-> ord[f.resting].account, busted |-> FALSE]
  <2>1. t \in TradeRecords
    BY <1>1, <1>2 DEF TradeRecords, OrderRecords
  <2>2. trades' = trades \/ trades' = Append(trades, t)
    BY DEF ReportFill
  <2>3. trades \in Seq(TradeRecords)
    BY DEF EngineInv, Typed
  <2>4. \A u \in TradeRecords : Append(trades, u) \in Seq(TradeRecords)
    BY <2>3
  <2> QED BY <2>1, <2>2, <2>3, <2>4
<1>6. event'.kind \in EventKinds
  BY DEF ReportFill
<1>7. /\ fills' = Tail(fills) /\ pc = "fills"
      /\ UNCHANGED <<sessionVars, walk, hit, pc, cur, sweep>>
  BY DEF ReportFill, Executes
<1> QED BY <1>3, <1>4, <1>5, <1>6, <1>7

\* A fill that leaves the resting order where it is.
LEMMA FillPartialKeeps ==
    ASSUME EngineInv, NEW f, FillPartial(f)
    PROVE  EngineInv'
<1>1. /\ f.quantity \in Int /\ f.resting \in Resting /\ Tail(fills) \in Seq(FillRecords)
      /\ walk = << >> /\ PendingIn(<< >>, Tail(fills), Resting \ {f.resting})
      /\ cur \in OrderIds /\ ord[cur] \in OrderRecords
      /\ ord[cur].filled + f.quantity \in Int
  BY NextFill DEF FillPartial, Executes
<1>2. /\ lastTrade' \in Nat /\ position' \in [Accounts -> Int]
      /\ trades' \in Seq(TradeRecords) /\ event'.kind \in EventKinds
      /\ fills' = Tail(fills) /\ pc = "fills"
      /\ UNCHANGED <<sessionVars, walk, hit, pc, cur, sweep>>
  BY ReportFillTyped DEF FillPartial
<1>3. /\ ord' = [ord EXCEPT ![cur].filled = ord[cur].filled + f.quantity]
      /\ levelTotal' = [levelTotal EXCEPT ![ord[f.resting].side][ord[f.resting].level] =
                            @ - f.quantity]
      /\ depth'.action = "Update"
      /\ UNCHANGED <<index, nextId, freeOrders, book, stops, freeLevels>>
  BY DEF FillPartial
<1>4. ord' \in Orders /\ SameShape(ord, ord', index)
  <2>1. /\ ord' = [id \in OrderIds |-> ord'[id]]
        /\ \A id \in OrderIds \ {cur} : ord'[id] = ord[id]
        /\ ord'[cur] = [ord[cur] EXCEPT !.filled = ord[cur].filled + f.quantity]
    BY <1>1, <1>3 DEF EngineInv, Typed, Orders
  <2>2. Requantified(ord'[cur], ord[cur])
    BY <1>1, <2>1, SetQuantity
  <2> QED BY <1>1, <2>1, <2>2, TwoRequantified DEF EngineInv
<1>5. levelTotal' \in [Sides -> [Prices -> Int]]
  BY <1>1, <1>3, RestingNotCurrent DEF EngineInv, Typed
<1>6. Typed' /\ Quiet
  BY <1>1, <1>2, <1>3, <1>4, <1>5 DEF EngineInv, Typed, Quiet, LimitTiers
<1>7. CurrentLive' /\ SweepLive'
  BY <1>2, <1>3 DEF EngineInv, CurrentLive, SweepLive, Working, MayWork
<1>8. PendingIn(walk', fills', Resting)
  <2>1. /\ Resting \ {f.resting} \subseteq Resting
        /\ PendingIn(walk', fills', Resting \ {f.resting})
    BY <1>1, <1>2
  <2> QED BY <2>1, PendingMore
<1>9. Resting' = Resting => MatchPending'
  BY <1>1, <1>2, <1>8 DEF MatchPending
<1> QED BY <1>6, <1>7, <1>9, QuietKeepsInv

\* One level's total is set.
LEMMA SetTotal ==
    ASSUME NEW f \in [Sides -> [Prices -> Int]], NEW side \in Sides, NEW price \in Prices,
           NEW n \in Int
    PROVE  /\ [f EXCEPT ![side][price] = n] \in [Sides -> [Prices -> Int]]
           /\ f[side][price] \in Int
OBVIOUS

\* Positions stay numbers.
LEMMA MovedTyped ==
    ASSUME Typed, NEW buyer, NEW seller, NEW n \in Int
    PROVE  Moved(buyer, seller, n) \in [Accounts -> Int]
BY DEF Typed, Moved

\* Between calls every live order is linked.
LEMMA IdleLinked ==
    ASSUME EngineInv, cur = 0, NEW id \in index
    PROVE  /\ id \in OrderIds /\ ord[id] \in OrderRecords
           /\ ord[id].side \in Sides /\ ord[id].level \in Prices
           /\ Linked(ord, book, id) <=> ~ Linked(ord, stops, id)
<1>1. id \in OrderIds /\ ord[id] \in OrderRecords /\ id # 0
  BY DEF EngineInv, Typed, Orders, OrderIds
<1>2. Places(ord, {id})
  BY <1>1 DEF Places, OrderRecords
<1>3. Linked(ord, book, id) <=> ~ Linked(ord, stops, id)
  BY <1>1 DEF EngineInv, Structure, LinksOK
<1>4. Linked(ord, book, id) \/ Linked(ord, stops, id)
  BY <1>3
<1>5. ord[id].side \in Sides /\ ord[id].level \in Prices
  BY <1>2, <1>4, LinkedPlace
<1> QED BY <1>1, <1>3, <1>5

\* Amending an order down in place.
LEMMA AmendDownKeeps ==
    ASSUME EngineInv, pc = "idle", NEW id \in index, NEW m \in [price : Prices, quantity : Int],
           AmendDown(id, m)
    PROVE  EngineInv'
<1> DEFINE left == m.quantity - ord[id].filled
           less == ord[id].remaining - left
<1>1. cur = 0
  BY DEF EngineInv, CurrentLive, Working, MayWork
<1>2. /\ id \in OrderIds /\ ord[id] \in OrderRecords
      /\ ord[id].side \in Sides /\ ord[id].level \in Prices
  BY <1>1, IdleLinked
<1>3. m.quantity \in Int /\ left \in Int /\ less \in Int
  BY <1>2 DEF OrderRecords
<1>4. /\ ord' = [ord EXCEPT ![id].quantity = m.quantity, ![id].remaining = left]
      /\ \/ levelTotal' = levelTotal
         \/ levelTotal' = [levelTotal EXCEPT ![ord[id].side][ord[id].level] = @ - less]
      /\ depth'.action = "Update" /\ event'.kind = "Modified" /\ pc' = "done"
      /\ UNCHANGED <<index, nextId, freeOrders, book, stops, freeLevels, tradeVars,
                     sessionVars, matchVars, cur, sweep>>
  BY DEF AmendDown
<1> HIDE DEF left, less
<1>5. ord' \in Orders /\ SameShape(ord, ord', index)
  <2>1. /\ ord' = [x \in OrderIds |-> ord'[x]]
        /\ \A x \in OrderIds \ {id} : ord'[x] = ord[x]
        /\ ord'[id] = [ord[id] EXCEPT !.quantity = m.quantity, !.remaining = left]
    BY <1>2, <1>4 DEF EngineInv, Typed, Orders
  <2>2. PICK k, n \in Int : ord'[id] = [ord[id] EXCEPT !.quantity = k, !.remaining = n]
    BY <1>3, <2>1
  <2>3. Requantified(ord'[id], ord[id])
    BY <1>2, <2>2, SetQuantities
  <2>4. \A x \in OrderIds : ord[x] \in OrderRecords
    BY DEF EngineInv, Typed, Orders
  <2>5. \A x \in OrderIds : Requantified(ord'[x], ord[x])
    BY <2>1, <2>3, <2>4 DEF Requantified
  <2> QED BY <2>1, <2>5, RequantifiedOrders DEF EngineInv, Typed
<1>6. levelTotal' \in [Sides -> [Prices -> Int]]
  <2>1. levelTotal \in [Sides -> [Prices -> Int]]
    BY DEF EngineInv, Typed
  <2>2. levelTotal[ord[id].side][ord[id].level] - less \in Int
    BY <1>2, <1>3, <2>1
  <2> QED BY <1>2, <1>4, <2>1, <2>2, SetTotal
<1>7. Typed' /\ Quiet
  BY <1>4, <1>5, <1>6 DEF EngineInv, Typed, Quiet, LimitTiers
<1>8. CurrentLive' /\ SweepLive'
  BY <1>1, <1>4 DEF CurrentLive, SweepLive, Working, MayWork
<1>9. Resting' = Resting => MatchPending'
  BY <1>4 DEF EngineInv, MatchPending
<1> QED BY <1>7, <1>8, <1>9, QuietKeepsInv

\* Busting a trade.
LEMMA BustTradeKeeps ==
    ASSUME EngineInv, NEW i \in DOMAIN trades, BustTrade(i)
    PROVE  EngineInv'
<1> DEFINE t == trades[i]
           Back(id) == IF id \in index THEN Named(t, id) * t.quantity ELSE 0
           BackAt(id, side, price) ==
               IF id \in index /\ ord[id].side = side /\ ord[id].level = price
               THEN t.quantity ELSE 0
<1>1. cur = 0 /\ pc = "idle"
  BY DEF BustTrade, EngineInv, CurrentLive, Working, MayWork
<1>2. t \in TradeRecords /\ t.quantity \in Int
  <2>1. trades \in Seq(TradeRecords)
    BY DEF EngineInv, Typed
  <2>2. t \in TradeRecords
    BY <2>1
  <2> QED BY <2>2 DEF TradeRecords
<1>3. ASSUME NEW id \in OrderIds PROVE Back(id) \in Int
  <2>1. Named(t, id) \in {0, 1, 2}
    BY DEF Named
  <2>2. 0 * t.quantity \in Int /\ 1 * t.quantity \in Int /\ 2 * t.quantity \in Int
    BY <1>2
  <2> QED BY <2>1, <2>2
<1>4. /\ ord' = [id \in OrderIds |-> [ord[id] EXCEPT !.filled = ord[id].filled - Back(id),
                                                  !.remaining = ord[id].remaining + Back(id)]]
      /\ trades' = [trades EXCEPT ![i].busted = TRUE]
      /\ depth'.action = "none" /\ event'.kind = "Busted" /\ pc' = "done"
      /\ UNCHANGED <<index, nextId, freeOrders, book, stops, freeLevels, lastTrade,
                     sessionVars, matchVars, cur, sweep>>
  BY DEF BustTrade
<1>5. levelTotal' \in [Sides -> [Prices -> Int]]
  <2>1. levelTotal' = [side \in Sides |-> [price \in Prices |->
            levelTotal[side][price] + BackAt(t.aggressor, side, price)
                                    + BackAt(t.resting, side, price)]]
    BY DEF BustTrade
  <2>2. \A id, side, price : BackAt(id, side, price) \in Int
    BY <1>2
  <2>3. levelTotal \in [Sides -> [Prices -> Int]]
    BY DEF EngineInv, Typed
  <2> HIDE DEF BackAt, t
  <2> QED BY <2>1, <2>2, <2>3
<1>6. position' \in [Accounts -> Int]
  <2>1. \E buyer, seller : position' = Moved(buyer, seller, t.quantity)
    BY DEF BustTrade
  <2> QED BY <1>2, <2>1, MovedTyped DEF EngineInv
<1>7. trades' \in Seq(TradeRecords)
  <2> DEFINE u == [t EXCEPT !.busted = TRUE]
  <2>1. u \in TradeRecords
    BY <1>2 DEF TradeRecords
  <2>2. trades' = [trades EXCEPT ![i] = u] /\ trades \in Seq(TradeRecords)
    BY <1>4 DEF EngineInv, Typed
  <2> HIDE DEF u
  <2> QED BY <2>1, <2>2
<1> HIDE DEF Back, t
<1>8. ord' \in Orders /\ SameShape(ord, ord', index)
  <2>1. ASSUME NEW id \in OrderIds PROVE Requantified(ord'[id], ord[id])
    <3>1. ord[id] \in OrderRecords
      BY DEF EngineInv, Typed, Orders
    <3>2. ord[id].filled - Back(id) \in Int /\ ord[id].remaining + Back(id) \in Int
      BY <1>3, <3>1 DEF OrderRecords
    <3>3. PICK k, n \in Int : ord'[id] = [ord[id] EXCEPT !.filled = k, !.remaining = n]
      BY <1>4, <3>2
    <3> QED BY <3>1, <3>3, SetQuantities
  <2>2. ord' = [id \in OrderIds |-> ord'[id]]
    BY <1>4
  <2> QED BY <2>1, <2>2, RequantifiedOrders DEF EngineInv, Typed
<1>9. Typed' /\ Quiet
  BY <1>4, <1>5, <1>6, <1>7, <1>8 DEF EngineInv, Typed, Quiet, LimitTiers
<1>10. CurrentLive' /\ SweepLive'
  BY <1>1, <1>4 DEF CurrentLive, SweepLive, Working, MayWork
<1>11. Resting' = Resting => MatchPending'
  BY <1>1, <1>4 DEF EngineInv, MatchPending
<1> QED BY <1>9, <1>10, <1>11, QuietKeepsInv
=============================================================================
