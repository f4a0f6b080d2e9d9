-------------------------- MODULE OrderBookProofs --------------------------
(***************************************************************************)
(* What the list operations of OrderBook do to a queue, to every other     *)
(* queue and to the number of levels, for any set of prices and ids.       *)
(***************************************************************************)
EXTENDS OrderBook, FiniteSetTheorems, SequenceTheorems, TLAPS

Books(ids) == [Sides -> [Prices -> Seq(ids)]]

\* The two ways of naming the elements of a queue agree.
LEMMA ElementsOfQueue ==
    ASSUME NEW S, NEW q \in Seq(S), NEW x
    PROVE  /\ x \in ToSet(q) <=> Contains(q, x)
           /\ Contains(q, x) => x \in S /\ q # << >> /\ Len(q) > 0
<1>1. DOMAIN q = 1 .. Len(q) /\ Len(q) \in Nat
  OBVIOUS
<1>2. \A i \in 1 .. Len(q) : q[i] \in S
  OBVIOUS
<1>3. x \in ToSet(q) <=> Contains(q, x)
  BY <1>1 DEF ToSet, Contains
<1>4. Contains(q, x) => x \in S /\ q # << >> /\ Len(q) > 0
  BY <1>1, <1>2 DEF Contains
<1> QED BY <1>3, <1>4

\* list_push_back adds the newcomer and nobody else.
LEMMA AppendToQueue ==
    ASSUME NEW S, NEW q \in Seq(S), NEW e \in S
    PROVE  /\ Append(q, e) \in Seq(S) /\ Append(q, e) # << >>
           /\ \A x : Contains(Append(q, e), x) <=> Contains(q, x) \/ x = e
           /\ IsInjective(q) /\ ~ Contains(q, e) => IsInjective(Append(q, e))
<1> DEFINE r == Append(q, e)
<1>1. /\ r \in Seq(S) /\ Len(r) = Len(q) + 1 /\ Len(q) \in Nat /\ r[Len(q) + 1] = e
      /\ DOMAIN r = 1 .. Len(r) /\ DOMAIN q = 1 .. Len(q)
      /\ \A i \in 1 .. Len(q) : r[i] = q[i]
  OBVIOUS
<1> HIDE DEF r
<1>2. \A x : Contains(r, x) <=> Contains(q, x) \/ x = e
  BY <1>1 DEF Contains
<1>3. ASSUME IsInjective(q), ~ Contains(q, e) PROVE IsInjective(r)
  BY <1>1, <1>3 DEF IsInjective, Contains
<1>4. r # << >>
  BY <1>1
<1> QED BY <1>1, <1>2, <1>3, <1>4 DEF r

\* Taking out position i leaves the others in their order.
LEMMA RemoveAtValue ==
    ASSUME NEW S, NEW q \in Seq(S), NEW i \in 1 .. Len(q)
    PROVE  /\ RemoveAt(q, i) \in Seq(S)
           /\ Len(RemoveAt(q, i)) = Len(q) - 1
           /\ \A j \in 1 .. Len(q) - 1 :
                  RemoveAt(q, i)[j] = IF j < i THEN q[j] ELSE q[j + 1]
<1> DEFINE a == SubSeq(q, 1, i - 1)
           b == SubSeq(q, i + 1, Len(q))
<1>1. /\ a \in Seq(S) /\ Len(a) = i - 1 /\ \A j \in 1 .. i - 1 : a[j] = q[j]
      /\ b \in Seq(S) /\ Len(b) = Len(q) - i
      /\ \A j \in 1 .. Len(q) - i : b[j] = q[i + j]
  OBVIOUS
<1>2. Len(q) \in Nat /\ i \in Nat
  OBVIOUS
<1> HIDE DEF a, b
<1>3. a \o b \in Seq(S) /\ Len(a \o b) = Len(q) - 1
  <2>1. a \o b \in Seq(S) /\ Len(a \o b) = Len(a) + Len(b)
    BY <1>1, ConcatProperties
  <2>2. Len(a) + Len(b) = Len(q) - 1
    BY <1>1, <1>2
  <2> QED BY <2>1, <2>2
<1>4. ASSUME NEW j \in 1 .. Len(q) - 1
      PROVE  (a \o b)[j] = IF j < i THEN q[j] ELSE q[j + 1]
  <2>1. CASE j < i
    BY <1>1, <1>2, <2>1
  <2>2. CASE ~ (j < i)
    <3>1. j - (i - 1) \in 1 .. Len(q) - i
      BY <1>2, <2>2
    <3>2. (a \o b)[j] = b[j - (i - 1)]
      BY <1>1, <1>2, <2>2
    <3>3. i + (j - (i - 1)) = j + 1
      BY <1>2
    <3> QED BY <1>1, <3>1, <3>2, <3>3, <2>2
  <2> QED BY <2>1, <2>2
<1> QED BY <1>3, <1>4 DEF RemoveAt, a, b

\* list_remove takes out the one order and keeps the rest.
LEMMA RemoveFromQueue ==
    ASSUME NEW S, NEW q \in Seq(S), IsInjective(q), NEW i \in 1 .. Len(q)
    PROVE  /\ RemoveAt(q, i) \in Seq(S) /\ IsInjective(RemoveAt(q, i))
           /\ RemoveAt(q, i) = << >> <=> Len(q) = 1
           /\ \A x : Contains(RemoveAt(q, i), x) <=> Contains(q, x) /\ x # q[i]
<1> DEFINE r == RemoveAt(q, i)
<1>1. /\ r \in Seq(S) /\ Len(r) = Len(q) - 1 /\ Len(q) \in Nat
      /\ DOMAIN r = 1 .. Len(q) - 1 /\ DOMAIN q = 1 .. Len(q)
      /\ \A j \in 1 .. Len(q) - 1 : r[j] = IF j < i THEN q[j] ELSE q[j + 1]
  BY RemoveAtValue
<1> HIDE DEF r
<1>2. IsInjective(r)
  <2> SUFFICES ASSUME NEW j \in 1 .. Len(q) - 1, NEW k \in 1 .. Len(q) - 1, r[j] = r[k]
               PROVE  j = k
    BY <1>1 DEF IsInjective
  <2> DEFINE from(n) == IF n < i THEN n ELSE n + 1
  <2>1. /\ from(j) \in 1 .. Len(q) /\ r[j] = q[from(j)]
        /\ from(k) \in 1 .. Len(q) /\ r[k] = q[from(k)]
    BY <1>1
  <2>2. from(j) = from(k)
    BY <1>1, <2>1 DEF IsInjective
  <2> QED BY <2>2
<1>3. ASSUME NEW x, Contains(r, x) PROVE Contains(q, x) /\ x # q[i]
  <2>1. PICK j \in 1 .. Len(r) : r[j] = x
    BY <1>3 DEF Contains
  <2>2. CASE j < i
    BY <1>1, <2>1, <2>2 DEF Contains, IsInjective
  <2>3. CASE ~ (j < i)
    BY <1>1, <2>1, <2>3 DEF Contains, IsInjective
  <2> QED BY <2>2, <2>3
<1>4. ASSUME NEW x, Contains(q, x), x # q[i] PROVE Contains(r, x)
  <2>1. PICK j \in 1 .. Len(q) : q[j] = x
    BY <1>4 DEF Contains
  <2>2. CASE j < i
    <3>1. j \in 1 .. Len(r) /\ r[j] = x
      BY <1>1, <2>1, <2>2
    <3> QED BY <3>1 DEF Contains
  <2>3. CASE j > i
    <3>1. j - 1 \in 1 .. Len(r) /\ r[j - 1] = x
      BY <1>1, <2>1, <2>3
    <3> QED BY <3>1 DEF Contains
  <2> QED BY <2>1, <2>2, <2>3, <1>4
<1>5. r = << >> <=> Len(q) = 1
  BY <1>1
<1> QED BY <1>1, <1>2, <1>3, <1>4, <1>5 DEF r

-----------------------------------------------------------------------------

InUse(b, side, price) == IF b[side][price] = << >> THEN 0 ELSE 1

\* Books b and c differ in the queue of one side and price at most.
SameElsewhere(b, c, side, price) ==
    \A s \in Sides, p \in Prices : s # side \/ p # price => c[s][p] = b[s][p]

\* There are finitely many places for a level.
LEMMA FinitelyManyLevels == IsFiniteSet(Sides \X Prices)
<1>1. IsFiniteSet({"Buy"})
  BY FS_Singleton
<1>2. IsFiniteSet({"Buy"} \cup {"Sell"})
  BY <1>1, FS_AddElement
<1>3. IsFiniteSet(Sides)
  BY <1>2, {"Buy"} \cup {"Sell"} = Sides DEF Sides
<1> QED BY <1>3, FS_Product, PricesAssumption

\* So the levels of a book can be counted.
LEMMA LevelCountNat ==
    ASSUME NEW b
    PROVE  LevelCount(b) \in Nat
<1>1. IsFiniteSet({sp \in Sides \X Prices : b[sp[1]][sp[2]] # << >>})
  BY FinitelyManyLevels, FS_Subset
<1> QED BY <1>1, FS_CardinalityType DEF LevelCount

\* An empty book has none, and every queue of it is empty.
LEMMA EmptyBookEffect ==
    ASSUME NEW ids
    PROVE  /\ EmptyBook \in Books(ids) /\ LevelCount(EmptyBook) = 0
           /\ \A side \in Sides, price \in Prices : EmptyBook[side][price] = << >>
<1>1. \A side \in Sides, price \in Prices : EmptyBook[side][price] = << >>
  BY DEF EmptyBook
<1>2. {sp \in Sides \X Prices : EmptyBook[sp[1]][sp[2]] # << >>} = {}
  BY <1>1
<1>3. LevelCount(EmptyBook) = 0
  BY <1>2, FS_EmptySet DEF LevelCount
<1> QED BY <1>1, <1>3 DEF EmptyBook, Books

\* The number of levels follows the one queue that changed.
LEMMA LevelCountChange ==
    ASSUME NEW ids, NEW b \in Books(ids), NEW c \in Books(ids),
           NEW side \in Sides, NEW price \in Prices, SameElsewhere(b, c, side, price)
    PROVE  /\ LevelCount(b) \in Nat
           /\ LevelCount(c) = LevelCount(b) - InUse(b, side, price) + InUse(c, side, price)
<1> DEFINE Linked(d) == {sp \in Sides \X Prices : d[sp[1]][sp[2]] # << >>}
           here == <<side, price>>
<1>2. IsFiniteSet(Linked(b)) /\ IsFiniteSet(Linked(c))
  BY FinitelyManyLevels, FS_Subset
<1>3. here \in Linked(b) <=> b[side][price] # << >>
  OBVIOUS
<1>4. Linked(c) = IF c[side][price] # << >> THEN Linked(b) \cup {here} ELSE Linked(b) \ {here}
  <2>1. ASSUME NEW sp \in Sides \X Prices, sp # here
        PROVE  c[sp[1]][sp[2]] = b[sp[1]][sp[2]]
    <3>1. sp = <<sp[1], sp[2]>> /\ sp[1] \in Sides /\ sp[2] \in Prices
      OBVIOUS
    <3>2. sp[1] # side \/ sp[2] # price
      BY <2>1, <3>1
    <3> QED BY <3>1, <3>2 DEF SameElsewhere
  <2>2. here \in Linked(c) <=> c[side][price] # << >>
    OBVIOUS
  <2>3. \A sp : sp # here => (sp \in Linked(c) <=> sp \in Linked(b))
    BY <2>1
  <2> HIDE DEF Linked, here
  <2> QED BY <2>2, <2>3
<1> HIDE DEF Linked, here
<1>5. Cardinality(Linked(b)) \in Nat
  BY <1>2, FS_CardinalityType
<1>6. Cardinality(Linked(b) \cup {here}) =
          IF here \in Linked(b) THEN Cardinality(Linked(b)) ELSE Cardinality(Linked(b)) + 1
  BY <1>2, FS_AddElement
<1>7. Cardinality(Linked(b) \ {here}) =
          IF here \in Linked(b) THEN Cardinality(Linked(b)) - 1 ELSE Cardinality(Linked(b))
  BY <1>2, FS_RemoveElement
<1>8. Cardinality(Linked(c)) = Cardinality(Linked(b)) - InUse(b, side, price)
                                                     + InUse(c, side, price)
  BY <1>3, <1>4, <1>5, <1>6, <1>7 DEF InUse
<1> QED BY <1>5, <1>8 DEF LevelCount, Linked

\* insert_order: one queue gets the order at its back, and a level is linked
\* exactly when NewLevels says so.
LEMMA InsertOrderEffect ==
    ASSUME NEW ids, NEW b \in Books(ids), NEW side \in Sides, NEW price \in Prices,
           NEW id \in ids
    PROVE  LET c == InsertOrder(b, side, price, id) IN
           /\ c \in Books(ids) /\ SameElsewhere(b, c, side, price)
           /\ \A x : Contains(c[side][price], x) <=> Contains(b[side][price], x) \/ x = id
           /\ IsInjective(b[side][price]) /\ ~ Contains(b[side][price], id)
                  => IsInjective(c[side][price])
           /\ LevelCount(c) = LevelCount(b) + NewLevels(b, side, price)
           /\ LevelCount(b) \in Nat
<1> DEFINE q == b[side][price]
           c == InsertOrder(b, side, price, id)
<1>1. q \in Seq(ids)
  BY DEF Books
<1>2. /\ Append(q, id) \in Seq(ids) /\ Append(q, id) # << >>
      /\ \A x : Contains(Append(q, id), x) <=> Contains(q, x) \/ x = id
      /\ IsInjective(q) /\ ~ Contains(q, id) => IsInjective(Append(q, id))
  BY <1>1, AppendToQueue
<1>3. c \in Books(ids) /\ SameElsewhere(b, c, side, price) /\ c[side][price] = Append(q, id)
  BY <1>2 DEF InsertOrder, Books, SameElsewhere
<1> HIDE DEF c
<1>4. /\ LevelCount(b) \in Nat
      /\ LevelCount(c) = LevelCount(b) - InUse(b, side, price) + InUse(c, side, price)
  BY <1>3, LevelCountChange
<1>5. LevelCount(c) = LevelCount(b) + NewLevels(b, side, price)
  BY <1>2, <1>3, <1>4 DEF InUse, NewLevels
<1> QED BY <1>2, <1>3, <1>4, <1>5 DEF c

\* remove_order: one queue loses the order, and its level is unlinked exactly
\* when FreedLevels says so.
LEMMA RemoveOrderEffect ==
    ASSUME NEW ids, NEW b \in Books(ids), NEW side \in Sides, NEW price \in Prices,
           NEW id, Contains(b[side][price], id), IsInjective(b[side][price])
    PROVE  LET c == RemoveOrder(b, side, price, id) IN
           /\ c \in Books(ids) /\ SameElsewhere(b, c, side, price)
           /\ IsInjective(c[side][price])
           /\ \A x : Contains(c[side][price], x) <=> Contains(b[side][price], x) /\ x # id
           /\ LevelCount(c) = LevelCount(b) - FreedLevels(b, side, price)
           /\ LevelCount(b) \in Nat
<1> DEFINE q == b[side][price]
           i == CHOOSE j \in DOMAIN q : q[j] = id
           c == RemoveOrder(b, side, price, id)
<1>1. q \in Seq(ids)
  BY DEF Books
<1>2. i \in 1 .. Len(q) /\ q[i] = id
  BY <1>1 DEF Contains
<1> HIDE DEF i
<1>3. /\ RemoveAt(q, i) \in Seq(ids) /\ IsInjective(RemoveAt(q, i))
      /\ RemoveAt(q, i) = << >> <=> Len(q) = 1
      /\ \A x : Contains(RemoveAt(q, i), x) <=> Contains(q, x) /\ x # id
  BY <1>1, <1>2, RemoveFromQueue
<1>4. c = [b EXCEPT ![side][price] = RemoveAt(q, i)]
  BY DEF RemoveOrder, i
<1>5. c \in Books(ids) /\ SameElsewhere(b, c, side, price) /\ c[side][price] = RemoveAt(q, i)
  BY <1>3, <1>4 DEF Books, SameElsewhere
<1> HIDE DEF c
<1>6. /\ LevelCount(b) \in Nat
      /\ LevelCount(c) = LevelCount(b) - InUse(b, side, price) + InUse(c, side, price)
  BY <1>5, LevelCountChange
<1>7. q # << >>
  BY <1>1, <1>2
<1>8. LevelCount(c) = LevelCount(b) - FreedLevels(b, side, price)
  BY <1>3, <1>5, <1>6, <1>7 DEF InUse, FreedLevels
<1> QED BY <1>3, <1>5, <1>6, <1>8 DEF c

\* A revealed tranche: its level keeps the same orders and stays linked.
LEMMA RequeueEffect ==
    ASSUME NEW ids, NEW b \in Books(ids), NEW side \in Sides, NEW price \in Prices,
           NEW id \in ids, Contains(b[side][price], id), IsInjective(b[side][price])
    PROVE  LET c == Requeue(b, side, price, id) IN
           /\ c \in Books(ids) /\ SameElsewhere(b, c, side, price)
           /\ IsInjective(c[side][price])
           /\ \A x : Contains(c[side][price], x) <=> Contains(b[side][price], x)
           /\ LevelCount(c) = LevelCount(b)
<1> DEFINE a == RemoveOrder(b, side, price, id)
           c == InsertOrder(a, side, price, id)
<1>1. /\ a \in Books(ids) /\ SameElsewhere(b, a, side, price)
      /\ IsInjective(a[side][price])
      /\ \A x : Contains(a[side][price], x) <=> Contains(b[side][price], x) /\ x # id
  BY RemoveOrderEffect
<1> HIDE DEF a
<1>2. /\ c \in Books(ids) /\ SameElsewhere(a, c, side, price)
      /\ \A x : Contains(c[side][price], x) <=> Contains(a[side][price], x) \/ x = id
      /\ IsInjective(c[side][price])
  <2>1. ~ Contains(a[side][price], id)
    BY <1>1
  <2>2. a \in Books(ids)
    BY <1>1
  <2>3. /\ c \in Books(ids) /\ SameElsewhere(a, c, side, price)
        /\ \A x : Contains(c[side][price], x) <=> Contains(a[side][price], x) \/ x = id
        /\ IsInjective(a[side][price]) /\ ~ Contains(a[side][price], id)
               => IsInjective(c[side][price])
    BY <2>2, InsertOrderEffect
  <2> QED BY <1>1, <2>1, <2>3
<1> HIDE DEF c
<1>3. SameElsewhere(b, c, side, price)
  BY <1>1, <1>2 DEF SameElsewhere
<1>4. b[side][price] # << >> /\ c[side][price] # << >>
  <2>1. b[side][price] \in Seq(ids) /\ c[side][price] \in Seq(ids)
    BY <1>2 DEF Books
  <2>2. Contains(c[side][price], id)
    BY <1>2
  <2> QED BY <2>1, <2>2, ElementsOfQueue
<1>5. LevelCount(c) = LevelCount(b) /\ LevelCount(b) \in Nat
  <2>1. /\ LevelCount(b) \in Nat
        /\ LevelCount(c) = LevelCount(b) - InUse(b, side, price) + InUse(c, side, price)
    BY <1>2, <1>3, LevelCountChange
  <2> QED BY <2>1, <1>4 DEF InUse
<1> QED BY <1>1, <1>2, <1>3, <1>5 DEF Requeue, a, c
=============================================================================
