--------------------------- MODULE BookLinkProofs ---------------------------
(***************************************************************************)
(* How orders, the index of live ids and two books hang together, and what *)
(* the list operations do to that, for any set of prices and ids.          *)
(***************************************************************************)
EXTENDS OrderBookProofs

\* Order id of orders o is in the queue of book b that it points to.
Linked(o, b, id) == o[id].level # 0 /\ Contains(b[o[id].side][o[id].level], id)

QueuesOK(o, idx, c, b) ==
    \A side \in Sides, price \in Prices :
        /\ IsInjective(b[side][price])
        /\ \A id : Contains(b[side][price], id) =>
               id \in idx /\ id # c /\ o[id].side = side /\ o[id].level = price

\* The queues of both books hold live orders other than c, each where it says
\* it is, and each live order other than c is in exactly one of the books.
LinksOK(o, idx, c, b, d) ==
    /\ QueuesOK(o, idx, c, b) /\ QueuesOK(o, idx, c, d)
    /\ \A id \in idx \ {c} : Linked(o, b, id) <=> ~ Linked(o, d, id)

\* Orders with a side, and a level or none.
Places(o, ids) == \A id \in ids : o[id].side \in Sides /\ o[id].level \in Prices \cup {0}

\* The orders of ids sit on the same side and level in o and in p.
SamePlace(o, p, ids) == \A id \in ids : p[id].side = o[id].side /\ p[id].level = o[id].level

\* The two books play the same part.
LEMMA LinksSymmetric ==
    ASSUME NEW o, NEW idx, NEW c, NEW b, NEW d, LinksOK(o, idx, c, b, d)
    PROVE  LinksOK(o, idx, c, d, b)
BY DEF LinksOK

\* A linked order has a level.
LEMMA LinkedPlace ==
    ASSUME NEW o, NEW id, Places(o, {id}), NEW b, Linked(o, b, id)
    PROVE  /\ o[id].side \in Sides /\ o[id].level \in Prices
           /\ Contains(b[o[id].side][o[id].level], id)
BY DEF Linked, Places

\* A linked order is live, and not the one being worked on.
LEMMA LinkedLive ==
    ASSUME NEW o, NEW idx, NEW c, NEW b, QueuesOK(o, idx, c, b),
           NEW id, Places(o, {id}), Linked(o, b, id)
    PROVE  id \in idx /\ id # c
<1>1. /\ o[id].side \in Sides /\ o[id].level \in Prices
      /\ Contains(b[o[id].side][o[id].level], id)
  BY LinkedPlace
<1> QED BY <1>1 DEF QueuesOK

\* Quantities change, places do not.
LEMMA LinksKept ==
    ASSUME NEW o, NEW p, NEW idx, NEW c, NEW b, NEW d, LinksOK(o, idx, c, b, d),
           SamePlace(o, p, idx)
    PROVE  LinksOK(p, idx, c, b, d)
<1>1. \A id \in idx : /\ Linked(p, b, id) <=> Linked(o, b, id)
                      /\ Linked(p, d, id) <=> Linked(o, d, id)
  BY DEF Linked, SamePlace
<1>2. QueuesOK(p, idx, c, b) /\ QueuesOK(p, idx, c, d)
  BY DEF QueuesOK, LinksOK, SamePlace
<1> QED BY <1>1, <1>2 DEF LinksOK

\* The order being worked on is given back.
LEMMA LinksDropCurrent ==
    ASSUME NEW o, NEW p, NEW idx, 0 \notin idx, NEW c, NEW b, NEW d,
           LinksOK(o, idx, c, b, d), SamePlace(o, p, idx \ {c})
    PROVE  LinksOK(p, idx \ {c}, 0, b, d)
<1>1. \A id \in idx \ {c} : /\ Linked(p, b, id) <=> Linked(o, b, id)
                            /\ Linked(p, d, id) <=> Linked(o, d, id)
  BY DEF Linked, SamePlace
<1>2. QueuesOK(p, idx \ {c}, 0, b)
  BY DEF QueuesOK, LinksOK, SamePlace
<1>3. QueuesOK(p, idx \ {c}, 0, d)
  BY DEF QueuesOK, LinksOK, SamePlace
<1> QED BY <1>1, <1>2, <1>3 DEF LinksOK

\* A new order is worked on before it is linked anywhere.
LEMMA LinksNewCurrent ==
    ASSUME NEW o, NEW p, NEW idx, 0 \notin idx, NEW id, id \notin idx, NEW b, NEW d,
           LinksOK(o, idx, 0, b, d), SamePlace(o, p, idx)
    PROVE  LinksOK(p, idx \cup {id}, id, b, d)
<1>1. \A x \in idx : /\ Linked(p, b, x) <=> Linked(o, b, x)
                     /\ Linked(p, d, x) <=> Linked(o, d, x)
  BY DEF Linked, SamePlace
<1>2. QueuesOK(p, idx \cup {id}, id, b) /\ QueuesOK(p, idx \cup {id}, id, d)
  BY DEF QueuesOK, LinksOK, SamePlace
<1>3. (idx \cup {id}) \ {id} = idx \ {0}
  OBVIOUS
<1> QED BY <1>1, <1>2, <1>3 DEF LinksOK

\* Places and queues that do not change keep an order linked.
LEMMA StillLinked ==
    ASSUME NEW o, NEW p, NEW b, NEW e, NEW x, Places(o, {x}), SamePlace(o, p, {x}),
           \A s \in Sides, q \in Prices : Contains(e[s][q], x) <=> Contains(b[s][q], x)
    PROVE  Linked(p, e, x) <=> Linked(o, b, x)
<1>1. p[x].side = o[x].side /\ p[x].level = o[x].level
  BY DEF SamePlace
<1>2. o[x].side \in Sides /\ o[x].level \in Prices \cup {0}
  BY DEF Places
<1> QED BY <1>1, <1>2 DEF Linked

\* The order being worked on is linked at the back of a queue.
LEMMA LinksInsertCurrent ==
    ASSUME NEW ids, NEW o, NEW p, NEW idx, 0 \notin idx, Places(o, idx),
           NEW c \in idx, c \in ids, NEW b \in Books(ids), NEW d,
           LinksOK(o, idx, c, b, d), SamePlace(o, p, idx \ {c}),
           NEW side \in Sides, NEW price \in Prices, p[c].side = side, p[c].level = price
    PROVE  LinksOK(p, idx, 0, InsertOrder(b, side, price, c), d)
<1> DEFINE e == InsertOrder(b, side, price, c)
<1>1. \A s \in Sides, q \in Prices : ~ Contains(b[s][q], c) /\ ~ Contains(d[s][q], c)
  BY DEF LinksOK, QueuesOK
<1>2. /\ e \in Books(ids) /\ SameElsewhere(b, e, side, price)
      /\ \A x : Contains(e[side][price], x) <=> Contains(b[side][price], x) \/ x = c
      /\ IsInjective(b[side][price]) /\ ~ Contains(b[side][price], c)
             => IsInjective(e[side][price])
  BY InsertOrderEffect
<1> HIDE DEF e
<1>3. 0 \notin Prices
  BY PricesAssumption
<1>4. QueuesOK(p, idx, 0, d)
  BY <1>1 DEF QueuesOK, LinksOK, SamePlace
<1>5. QueuesOK(p, idx, 0, e)
  <2> SUFFICES ASSUME NEW s \in Sides, NEW q \in Prices
               PROVE  /\ IsInjective(e[s][q])
                      /\ \A x : Contains(e[s][q], x) =>
                             x \in idx /\ x # 0 /\ p[x].side = s /\ p[x].level = q
    BY DEF QueuesOK
  <2>1. /\ IsInjective(b[s][q])
        /\ \A x : Contains(b[s][q], x) =>
               x \in idx \ {c} /\ p[x].side = s /\ p[x].level = q
    BY DEF QueuesOK, LinksOK, SamePlace
  <2>2. CASE s = side /\ q = price
    BY <1>1, <1>2, <2>1, <2>2
  <2>3. CASE ~ (s = side /\ q = price)
    BY <1>2, <2>1, <2>3 DEF SameElsewhere
  <2> QED BY <2>2, <2>3
<1>6. ASSUME NEW x \in idx \ {0} PROVE Linked(p, e, x) <=> ~ Linked(p, d, x)
  <2>1. CASE x = c
    <3>1. Linked(p, e, c)
      BY <1>2, <1>3 DEF Linked
    <3>2. ~ Linked(p, d, c)
      BY <1>1 DEF Linked
    <3> QED BY <2>1, <3>1, <3>2
  <2>2. CASE x # c
    <3>1. Linked(o, b, x) <=> ~ Linked(o, d, x)
      BY <2>2 DEF LinksOK
    <3>2. Places(o, {x}) /\ SamePlace(o, p, {x})
      BY <2>2 DEF Places, SamePlace
    <3>3. \A s \in Sides, q \in Prices : Contains(e[s][q], x) <=> Contains(b[s][q], x)
      BY <1>2, <2>2 DEF SameElsewhere
    <3>4. Linked(p, e, x) <=> Linked(o, b, x)
      BY <3>2, <3>3, StillLinked
    <3>5. Linked(p, d, x) <=> Linked(o, d, x)
      BY <3>2, StillLinked
    <3> QED BY <3>1, <3>4, <3>5
  <2> QED BY <2>1, <2>2
<1> QED BY <1>4, <1>5, <1>6 DEF LinksOK, e

\* What an unlinked order leaves behind: its queue without it, the others as
\* they were.
Unlinked(ids, o, b, d, id, e) ==
    /\ e \in Books(ids)
    /\ \A s \in Sides, q \in Prices : /\ IsInjective(e[s][q])
                                      /\ ~ Contains(e[s][q], id)
                                      /\ ~ Contains(d[s][q], id)
    /\ \A s \in Sides, q \in Prices :
           \A x : x # id => (Contains(e[s][q], x) <=> Contains(b[s][q], x))
    /\ LevelCount(e) = LevelCount(b) - FreedLevels(b, o[id].side, o[id].level)
    /\ LevelCount(b) \in Nat

\* remove_order does that to an order linked where it says it is.
LEMMA UnlinkedQueues ==
    ASSUME NEW ids, NEW o, NEW idx, NEW c, NEW b \in Books(ids), NEW d,
           LinksOK(o, idx, c, b, d), NEW id, Places(o, {id}), Linked(o, b, id),
           NEW e, e = RemoveOrder(b, o[id].side, o[id].level, id)
    PROVE  Unlinked(ids, o, b, d, id, e)
<1> DEFINE side == o[id].side
           price == o[id].level
<1>1. side \in Sides /\ price \in Prices /\ Contains(b[side][price], id)
  BY LinkedPlace
<1>2. \A s \in Sides, q \in Prices :
          /\ IsInjective(b[s][q])
          /\ s # side \/ q # price => ~ Contains(b[s][q], id)
  BY DEF LinksOK, QueuesOK
<1>3. id \in idx \ {c}
  BY <1>1 DEF LinksOK, QueuesOK
<1>4. \A s \in Sides, q \in Prices : ~ Contains(d[s][q], id)
  <2>1. ~ Linked(o, d, id)
    BY <1>3 DEF LinksOK
  <2> SUFFICES ASSUME NEW s \in Sides, NEW q \in Prices, Contains(d[s][q], id)
               PROVE  FALSE
    OBVIOUS
  <2>2. side = s /\ price = q
    BY DEF LinksOK, QueuesOK
  <2>3. price # 0
    BY <1>1, PricesAssumption
  <2> QED BY <2>1, <2>2, <2>3 DEF Linked
<1> HIDE DEF side, price
<1>5. /\ e \in Books(ids) /\ SameElsewhere(b, e, side, price)
      /\ IsInjective(e[side][price])
      /\ \A x : Contains(e[side][price], x) <=> Contains(b[side][price], x) /\ x # id
      /\ LevelCount(e) = LevelCount(b) - FreedLevels(b, side, price)
      /\ LevelCount(b) \in Nat
  <2>1. IsInjective(b[side][price]) /\ e = RemoveOrder(b, side, price, id)
    BY <1>1, <1>2 DEF side, price
  <2> QED BY <1>1, <2>1, RemoveOrderEffect
<1>6. ASSUME NEW s \in Sides, NEW q \in Prices
      PROVE  /\ IsInjective(e[s][q]) /\ ~ Contains(e[s][q], id)
             /\ \A x : x # id => (Contains(e[s][q], x) <=> Contains(b[s][q], x))
  <2>1. CASE s = side /\ q = price
    BY <1>5, <2>1
  <2>2. CASE s # side \/ q # price
    BY <1>2, <1>5, <2>2 DEF SameElsewhere
  <2> QED BY <2>1, <2>2
<1>7. LevelCount(e) = LevelCount(b) - FreedLevels(b, o[id].side, o[id].level)
  BY <1>5 DEF side, price
<1> QED BY <1>4, <1>5, <1>6, <1>7 DEF Unlinked

\* A resting order is unlinked and given back, or unlinked to be worked on.
LEMMA LinksUnlink ==
    ASSUME NEW ids, NEW o, NEW p, NEW idx, Places(o, idx), NEW c, NEW b, NEW d,
           LinksOK(o, idx, c, b, d), NEW id, SamePlace(o, p, idx \ {id}),
           NEW e, Unlinked(ids, o, b, d, id, e)
    PROVE  /\ LinksOK(p, idx \ {id}, c, e, d)
           /\ c \notin idx => LinksOK(p, idx, id, e, d)
<1>1. ASSUME NEW x \in idx \ {id}
      PROVE  /\ Linked(p, e, x) <=> Linked(o, b, x)
             /\ Linked(p, d, x) <=> Linked(o, d, x)
  <2>1. Places(o, {x}) /\ SamePlace(o, p, {x})
    BY DEF SamePlace, Places
  <2>2. \A s \in Sides, q \in Prices : Contains(e[s][q], x) <=> Contains(b[s][q], x)
    BY DEF Unlinked
  <2>3. Linked(p, e, x) <=> Linked(o, b, x)
    BY <2>1, <2>2, StillLinked
  <2>4. Linked(p, d, x) <=> Linked(o, d, x)
    BY <2>1, StillLinked
  <2> QED BY <2>3, <2>4
<1>2. QueuesOK(p, idx \ {id}, c, e)
  BY DEF LinksOK, QueuesOK, SamePlace, Unlinked
<1>3. QueuesOK(p, idx \ {id}, c, d)
  BY DEF LinksOK, QueuesOK, SamePlace, Unlinked
<1>4. QueuesOK(p, idx, id, e)
  BY <1>2 DEF QueuesOK, Unlinked
<1>5. QueuesOK(p, idx, id, d)
  BY <1>3 DEF QueuesOK, Unlinked
<1>6. \A x \in (idx \ {id}) \ {c} : Linked(p, e, x) <=> ~ Linked(p, d, x)
  BY <1>1 DEF LinksOK
<1> QED BY <1>2, <1>3, <1>4, <1>5, <1>6 DEF LinksOK

\* The other orders stay linked when one is unlinked.
LEMMA LinkedAfterUnlink ==
    ASSUME NEW ids, NEW o, NEW p, NEW b, NEW d, NEW id, NEW e,
           Unlinked(ids, o, b, d, id, e),
           NEW x, x # id, Places(o, {x}), SamePlace(o, p, {x})
    PROVE  Linked(p, e, x) <=> Linked(o, b, x)
<1>1. \A s \in Sides, q \in Prices : Contains(e[s][q], x) <=> Contains(b[s][q], x)
  BY DEF Unlinked
<1> QED BY <1>1, StillLinked

\* A book with the same orders in every queue, in whatever order.
SameQueues(ids, b, e) ==
    /\ e \in Books(ids)
    /\ \A s \in Sides, q \in Prices :
           /\ IsInjective(e[s][q])
           /\ \A x : Contains(e[s][q], x) <=> Contains(b[s][q], x)
    /\ LevelCount(e) = LevelCount(b)

\* A revealed tranche moves within its queue.
LEMMA RequeuedQueues ==
    ASSUME NEW ids, NEW o, NEW idx, NEW c, NEW b \in Books(ids), NEW d,
           LinksOK(o, idx, c, b, d), NEW id \in ids, Places(o, {id}), Linked(o, b, id)
    PROVE  SameQueues(ids, b, Requeue(b, o[id].side, o[id].level, id))
<1> DEFINE side == o[id].side
           price == o[id].level
           e == Requeue(b, side, price, id)
<1>1. side \in Sides /\ price \in Prices /\ Contains(b[side][price], id)
  BY LinkedPlace
<1>2. IsInjective(b[side][price])
  BY <1>1 DEF LinksOK, QueuesOK
<1> HIDE DEF side, price
<1>3. /\ e \in Books(ids) /\ SameElsewhere(b, e, side, price)
      /\ IsInjective(e[side][price])
      /\ \A x : Contains(e[side][price], x) <=> Contains(b[side][price], x)
      /\ LevelCount(e) = LevelCount(b)
  BY <1>1, <1>2, RequeueEffect
<1> HIDE DEF e
<1>4. \A s \in Sides, q \in Prices :
          /\ IsInjective(e[s][q])
          /\ \A x : Contains(e[s][q], x) <=> Contains(b[s][q], x)
  BY <1>3 DEF SameElsewhere, LinksOK, QueuesOK
<1>5. SameQueues(ids, b, e)
  BY <1>3, <1>4 DEF SameQueues
<1> QED BY <1>5 DEF e, side, price

\* All links stay as they were.
LEMMA LinksRequeue ==
    ASSUME NEW ids, NEW o, NEW p, NEW idx, Places(o, idx), NEW c, NEW b, NEW d,
           LinksOK(o, idx, c, b, d), SamePlace(o, p, idx), NEW e, SameQueues(ids, b, e)
    PROVE  /\ LinksOK(p, idx, c, e, d)
           /\ \A x \in idx : Linked(p, e, x) <=> Linked(o, b, x)
<1>1. ASSUME NEW x \in idx
      PROVE  /\ Linked(p, e, x) <=> Linked(o, b, x)
             /\ Linked(p, d, x) <=> Linked(o, d, x)
  <2>1. Places(o, {x}) /\ SamePlace(o, p, {x})
    BY DEF SamePlace, Places
  <2>2. \A s \in Sides, q \in Prices : Contains(e[s][q], x) <=> Contains(b[s][q], x)
    BY DEF SameQueues
  <2>3. Linked(p, e, x) <=> Linked(o, b, x)
    BY <2>1, <2>2, StillLinked
  <2>4. Linked(p, d, x) <=> Linked(o, d, x)
    BY <2>1, StillLinked
  <2> QED BY <2>3, <2>4
<1>2. QueuesOK(p, idx, c, e) /\ QueuesOK(p, idx, c, d)
  BY DEF LinksOK, QueuesOK, SamePlace, SameQueues
<1> QED BY <1>1, <1>2 DEF LinksOK

-----------------------------------------------------------------------------
(* A level being matched *)

\* The orders still to be walked, and those of the fills not yet processed,
\* are in R, and none of them comes up twice.
PendingIn(w, f, R) ==
    /\ \A i, j \in DOMAIN w : w[i] = w[j] => i = j
    /\ \A i \in DOMAIN w : w[i] \in R
    /\ \A i, j \in DOMAIN f : f[i].resting = f[j].resting => i = j
    /\ \A i \in DOMAIN f : f[i].resting \in R
    /\ \A i \in DOMAIN w, j \in DOMAIN f : w[i] # f[j].resting

\* The head of the walk becomes the last fill.
LEMMA PendingAdvance ==
    ASSUME NEW ids, NEW recs, NEW w \in Seq(ids), w # << >>, NEW f \in Seq(recs),
           NEW g \in recs, g.resting = Head(w), NEW R, PendingIn(w, f, R)
    PROVE  PendingIn(Tail(w), Append(f, g), R)
<1> DEFINE v == Tail(w)
           h == Append(f, g)
<1>1. /\ Len(w) \in Nat /\ Len(f) \in Nat /\ Len(w) >= 1
      /\ DOMAIN w = 1 .. Len(w) /\ DOMAIN f = 1 .. Len(f) /\ Head(w) = w[1]
  OBVIOUS
<1>2. DOMAIN v = 1 .. Len(w) - 1 /\ \A i \in DOMAIN v : v[i] = w[i + 1]
  BY <1>1
<1>3. /\ DOMAIN h = 1 .. Len(f) + 1 /\ h[Len(f) + 1] = g
      /\ \A i \in DOMAIN f : h[i] = f[i]
  BY <1>1
<1> HIDE DEF v, h
<1>4. \A i \in DOMAIN v : i \in Nat /\ i + 1 \in DOMAIN w /\ 1 \in DOMAIN w /\ i + 1 # 1
  BY <1>1, <1>2
<1>5. \A i \in DOMAIN h : i \in DOMAIN f \/ i = Len(f) + 1
  BY <1>1, <1>3
<1>6. \A i, j \in DOMAIN v : v[i] = v[j] => i = j
  BY <1>2, <1>4 DEF PendingIn
<1>7. \A i \in DOMAIN v : v[i] \in R /\ v[i] # w[1]
  BY <1>2, <1>4 DEF PendingIn
<1>8. \A i \in DOMAIN f : f[i].resting \in R /\ f[i].resting # w[1]
  BY <1>1 DEF PendingIn
<1>9. w[1] \in R
  BY <1>1 DEF PendingIn
<1>10. \A i, j \in DOMAIN h : h[i].resting = h[j].resting => i = j
  BY <1>1, <1>3, <1>5, <1>8 DEF PendingIn
<1>11. \A i \in DOMAIN h : h[i].resting \in R
  BY <1>1, <1>3, <1>5, <1>8, <1>9
<1>12. \A i \in DOMAIN v, j \in DOMAIN f : v[i] # f[j].resting
  BY <1>2, <1>4 DEF PendingIn
<1>13. \A i \in DOMAIN v, j \in DOMAIN h : v[i] # h[j].resting
  BY <1>1, <1>3, <1>5, <1>7, <1>12
<1> QED BY <1>6, <1>7, <1>10, <1>11, <1>13 DEF PendingIn, v, h

\* The first fill has been processed.
LEMMA PendingTail ==
    ASSUME NEW recs, NEW f \in Seq(recs), f # << >>, NEW R, PendingIn(<< >>, f, R)
    PROVE  /\ Head(f).resting \in R
           /\ PendingIn(<< >>, Tail(f), R \ {Head(f).resting})
<1> DEFINE h == Tail(f)
<1>1. /\ Len(f) \in Nat /\ Len(f) >= 1 /\ DOMAIN f = 1 .. Len(f) /\ Head(f) = f[1]
  OBVIOUS
<1>2. DOMAIN h = 1 .. Len(f) - 1 /\ \A i \in DOMAIN h : h[i] = f[i + 1]
  BY <1>1
<1> HIDE DEF h
<1>3. \A i \in DOMAIN h : i \in Nat /\ i + 1 \in DOMAIN f /\ 1 \in DOMAIN f /\ i + 1 # 1
  BY <1>1, <1>2
<1>4. \A i, j \in DOMAIN h : h[i].resting = h[j].resting => i = j
  BY <1>2, <1>3 DEF PendingIn
<1>5. \A i \in DOMAIN h : h[i].resting \in R /\ h[i].resting # f[1].resting
  BY <1>2, <1>3 DEF PendingIn
<1>6. f[1].resting \in R
  BY <1>1 DEF PendingIn
<1> QED BY <1>1, <1>4, <1>5, <1>6 DEF PendingIn, h

\* Whatever else rests does not matter.
LEMMA PendingMore ==
    ASSUME NEW w, NEW f, NEW R, PendingIn(w, f, R), NEW S, R \subseteq S
    PROVE  PendingIn(w, f, S)
BY DEF PendingIn

\* Nothing is pending.
LEMMA PendingNothing == \A R : PendingIn(<< >>, << >>, R)
BY DEF PendingIn
=============================================================================
