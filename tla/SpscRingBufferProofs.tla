------------------------ MODULE SpscRingBufferProofs ------------------------
(* For every capacity and counter width: the ring is free of data races.   *)
EXTENDS SpscRingBuffer, TLAPS

\* What the wrapping subtraction of two counters computes.
LEMMA DistanceValue ==
    ASSUME NEW from \in Positions, NEW to \in Positions
    PROVE  /\ Distance(from, to) = IF to >= from THEN to - from
                                                 ELSE to - from + Width
           /\ Distance(from, to) \in Positions
<1>1. Width \in Nat \ {0}
  BY RingAssumption
<1>2. CASE to >= from
  BY <1>1, <1>2 DEF Distance, Positions
<1>3. CASE to < from
  BY <1>1, <1>3 DEF Distance, Positions
<1> QED BY <1>2, <1>3 DEF Positions

\* A store of pos + 1, wrapped at the counter's width.
LEMMA AdvanceValue ==
    ASSUME NEW pos \in Positions
    PROVE  /\ Advance(pos) = IF pos = Width - 1 THEN 0 ELSE pos + 1
           /\ Advance(pos) \in Positions
<1>1. Width \in Nat \ {0}
  BY RingAssumption
<1>2. CASE pos = Width - 1
  BY <1>1, <1>2 DEF Advance, Positions
<1>3. CASE pos < Width - 1
  BY <1>1, <1>3 DEF Advance, Positions
<1> QED BY <1>1, <1>2, <1>3 DEF Positions

\* Distances add up along the ring.
LEMMA DistanceSplit ==
    ASSUME NEW a \in Positions, NEW b \in Positions, NEW c \in Positions,
           \/ Distance(a, b) <= Distance(a, c)
           \/ Distance(a, b) + Distance(b, c) < Width
    PROVE  Distance(b, c) = Distance(a, c) - Distance(a, b)
<1>1. Width \in Nat /\ \A p \in Positions : p \in 0 .. Width - 1
  BY RingAssumption DEF Positions
<1>2. Distance(a, b) = IF b >= a THEN b - a ELSE b - a + Width
  BY DistanceValue
<1>3. Distance(a, c) = IF c >= a THEN c - a ELSE c - a + Width
  BY DistanceValue
<1>4. Distance(b, c) = IF c >= b THEN c - b ELSE c - b + Width
  BY DistanceValue
<1> QED BY <1>1, <1>2, <1>3, <1>4

\* Only equal counters are at distance zero.
LEMMA DistanceZero ==
    ASSUME NEW a \in Positions, NEW b \in Positions
    PROVE  Distance(a, b) = 0 <=> a = b
<1>1. Width \in Nat /\ a \in 0 .. Width - 1 /\ b \in 0 .. Width - 1
  BY RingAssumption DEF Positions
<1> QED BY <1>1, DistanceValue

\* Publishing an item lengthens, releasing one shortens, the distance by one.
LEMMA DistanceStep ==
    ASSUME NEW a \in Positions, NEW b \in Positions
    PROVE  /\ Distance(a, b) < Width - 1
                  => Distance(a, Advance(b)) = Distance(a, b) + 1
           /\ a # b => Distance(Advance(a), b) = Distance(a, b) - 1
<1>1. Width \in Nat /\ a \in 0 .. Width - 1 /\ b \in 0 .. Width - 1
  BY RingAssumption DEF Positions
<1>2. Distance(a, b) = IF b >= a THEN b - a ELSE b - a + Width
  BY DistanceValue
<1>3. LET c == Advance(b)
      IN  Distance(a, c) = IF c >= a THEN c - a ELSE c - a + Width
  BY DistanceValue, AdvanceValue
<1>4. LET c == Advance(a)
      IN  Distance(c, b) = IF b >= c THEN b - c ELSE b - c + Width
  BY DistanceValue, AdvanceValue
<1> QED BY <1>1, <1>2, <1>3, <1>4, AdvanceValue

\* Division with remainder, the fact about % the slot argument uses.
LEMMA Division ==
    ASSUME NEW c \in Nat \ {0}, NEW x \in Int
    PROVE  x \div c \in Int /\ x % c \in Int /\ x = c * (x \div c) + (x % c)
OBVIOUS

\* Two positions less than a lap apart never share a slot: Capacity divides
\* the width of the counters, so this survives the wrap.
LEMMA SlotsDiffer ==
    ASSUME NEW a \in Positions, NEW b \in Positions,
           Distance(a, b) > 0, Distance(a, b) < Capacity
    PROVE  Slot(a) # Slot(b)
<1> DEFINE i == a \div Capacity
           j == b \div Capacity
           k == Width \div Capacity
<1>1. Capacity \in Nat \ {0} /\ Width \in Nat /\ Width % Capacity = 0
  BY RingAssumption
<1>2. a \in Int /\ b \in Int
  BY <1>1 DEF Positions
<1>3. i \in Int /\ Slot(a) \in Int /\ a = Capacity * i + Slot(a)
  BY <1>1, <1>2, Division DEF Slot
<1>4. j \in Int /\ Slot(b) \in Int /\ b = Capacity * j + Slot(b)
  BY <1>1, <1>2, Division DEF Slot
<1>5. k \in Int /\ Width = Capacity * k
  BY <1>1, Division
<1>6. SUFFICES ASSUME Slot(a) = Slot(b) PROVE FALSE
  OBVIOUS
<1>7. \E n \in Int : Distance(a, b) = Capacity * n
  <2> HIDE DEF i, j, k
  <2>1. CASE b >= a
    <3>1. Distance(a, b) = b - a
      BY <2>1, DistanceValue
    <3>2. b - a = Capacity * (j - i)
      BY <1>1, <1>3, <1>4, <1>6
    <3> QED BY <1>3, <1>4, <3>1, <3>2
  <2>2. CASE b < a
    <3>1. Distance(a, b) = b - a + Width
      BY <1>2, <2>2, DistanceValue
    <3>2. Capacity * (j - i + k) = Capacity * j - Capacity * i + Capacity * k
      BY <1>1, <1>3, <1>4, <1>5
    <3>3. b - a = Capacity * j - Capacity * i
      BY <1>1, <1>3, <1>4, <1>6
    <3>4. b - a + Width = Capacity * (j - i + k)
      BY <1>1, <1>2, <1>3, <1>4, <1>5, <3>2, <3>3
    <3> QED BY <1>3, <1>4, <1>5, <3>1, <3>4
  <2> QED BY <1>2, <2>1, <2>2
<1>8. PICK n \in Int : Distance(a, b) = Capacity * n
  BY <1>7
<1> QED BY <1>1, <1>8

-----------------------------------------------------------------------------
\* No call of either thread disturbs the order of the four positions.
LEMMA RingInvInductive == RingInv /\ [Next]_vars => RingInv'
<1> SUFFICES ASSUME RingInv, [Next]_vars PROVE RingInv'
  OBVIOUS
<1> DEFINE Order ==
        /\ Distance(seenRead, write_pos) <= Capacity
        /\ Distance(seenRead, read_pos) <= Distance(seenRead, write_pos)
        /\ Distance(read_pos, seenWrite) <= Distance(read_pos, write_pos)
<1>a. Width \in Nat /\ Capacity \in Nat \ {0} /\ Width >= 2 * Capacity
  BY RingAssumption
<1>b. /\ write_pos \in Positions /\ read_pos \in Positions
      /\ seenRead \in Positions /\ seenWrite \in Positions
  BY DEF RingInv, TypeOK
<1>c. \A p, q \in Positions : Distance(p, q) \in Nat
  BY <1>a, DistanceValue DEF Positions
<1>d. Order
  BY DEF RingInv
<1>e. Distance(read_pos, write_pos) <= Capacity
  BY <1>a, <1>b, <1>c, <1>d, DistanceSplit
<1>f. ASSUME NEW wp \in Positions,
             Distance(seenWrite, wp) <= Distance(seenWrite, write_pos)
      PROVE  Distance(read_pos, wp) <= Distance(read_pos, write_pos)
  <2>1. Distance(seenWrite, write_pos)
            = Distance(read_pos, write_pos) - Distance(read_pos, seenWrite)
    BY <1>b, <1>c, <1>d, DistanceSplit
  <2>2. Distance(read_pos, write_pos) \in Nat /\ Distance(read_pos, write_pos) < Width
    BY <1>a, <1>b, DistanceValue DEF Positions
  <2>3. Distance(read_pos, seenWrite) + Distance(seenWrite, wp) < Width
    BY <1>a, <1>b, <1>c, <1>f, <2>1, <2>2
  <2> QED BY <1>b, <1>c, <1>f, <2>1, <2>3, DistanceSplit
<1>1. ASSUME NEW item \in Items, PushLoad(item) PROVE RingInv'
  <2>1. PICK rp \in Loadable(seenRead, read_pos) :
            /\ seenRead' = rp
            /\ IF LooksFull(rp) THEN UNCHANGED <<producer, pushing>>
               ELSE producer' = "write" /\ pushing' = item
    BY <1>1 DEF PushLoad
  <2>2. rp \in Positions /\ Distance(seenRead, rp) <= Distance(seenRead, read_pos)
    BY <2>1 DEF Loadable
  <2>3. TypeOK'
    BY <1>1, <2>1, <2>2 DEF PushLoad, RingInv, TypeOK
  <2>4. /\ Distance(rp, write_pos) = Distance(seenRead, write_pos) - Distance(seenRead, rp)
        /\ Distance(rp, read_pos) = Distance(seenRead, read_pos) - Distance(seenRead, rp)
    BY <1>b, <1>c, <1>d, <2>2, DistanceSplit
  <2>5. Order'
    BY <1>1, <1>a, <1>b, <1>c, <1>d, <2>1, <2>2, <2>4 DEF PushLoad
  <2> QED BY <1>1, <1>a, <1>b, <1>c, <2>1, <2>2, <2>3, <2>5
    DEF PushLoad, LooksFull, RingInv, SizeWithinCapacity
<1>2. CASE PushWrite
  <2>1. TypeOK'
    BY <1>2 DEF PushWrite, RingInv, TypeOK
  <2> QED BY <1>2, <2>1 DEF PushWrite, RingInv, SizeWithinCapacity
<1>3. CASE PushPublish
  <2>1. TypeOK'
    BY <1>3, AdvanceValue DEF PushPublish, RingInv, TypeOK
  <2>2. /\ Distance(seenRead, write_pos') = Distance(seenRead, write_pos) + 1
        /\ Distance(read_pos, write_pos') = Distance(read_pos, write_pos) + 1
        /\ Distance(seenRead, write_pos) < Capacity
    <3>1. Distance(seenRead, write_pos) < Capacity
      BY <1>3 DEF PushPublish, RingInv
    <3>2. Distance(read_pos, write_pos) < Capacity
      BY <1>a, <1>b, <1>c, <1>d, <3>1, DistanceSplit
    <3> QED BY <1>3, <1>a, <1>b, <1>c, <3>1, <3>2, DistanceStep DEF PushPublish
  <2>3. Order'
    BY <1>3, <1>a, <1>b, <1>c, <1>d, <2>2 DEF PushPublish
  <2> QED BY <1>3, <2>1, <2>3 DEF PushPublish, RingInv, SizeWithinCapacity
<1>4. CASE PopLoad
  <2>1. PICK wp \in Loadable(seenWrite, write_pos) :
            /\ seenWrite' = wp
            /\ consumer' = IF LooksEmpty(wp) THEN "idle" ELSE "read"
    BY <1>4 DEF PopLoad
  <2>2. wp \in Positions /\ Distance(seenWrite, wp) <= Distance(seenWrite, write_pos)
    BY <2>1 DEF Loadable
  <2>3. TypeOK'
    BY <1>4, <2>1, <2>2 DEF PopLoad, RingInv, TypeOK
  <2>4. Distance(read_pos, wp) <= Distance(read_pos, write_pos)
    BY <1>f, <2>2
  <2> QED BY <1>4, <1>d, <2>1, <2>3, <2>4
    DEF PopLoad, LooksEmpty, RingInv, SizeWithinCapacity
<1>5. CASE PopRead
  <2>1. Slot(read_pos) \in Slots
    BY <1>a, <1>b DEF Slot, Slots, Positions
  <2>2. TypeOK'
    BY <1>5, <2>1 DEF PopRead, RingInv, TypeOK
  <2> QED BY <1>5, <2>2 DEF PopRead, RingInv, SizeWithinCapacity
<1>6. CASE PopRelease
  <2>1. TypeOK'
    BY <1>6, AdvanceValue DEF PopRelease, RingInv, TypeOK
  <2>2. read_pos # seenWrite
    BY <1>6 DEF PopRelease, RingInv
  <2>3. read_pos # write_pos
    BY <1>b, <1>c, <1>d, <2>2, DistanceZero
  <2>4. /\ Distance(read_pos', write_pos) = Distance(read_pos, write_pos) - 1
        /\ Distance(read_pos', seenWrite) = Distance(read_pos, seenWrite) - 1
    BY <1>6, <1>b, <2>2, <2>3, DistanceStep DEF PopRelease
  <2>5. Distance(seenRead, read_pos') = Distance(seenRead, read_pos) + 1
    <3>1. Distance(seenRead, read_pos) < Distance(seenRead, write_pos)
      BY <1>b, <1>c, <1>d, <2>3, DistanceSplit, DistanceZero
    <3> QED BY <1>6, <1>a, <1>b, <1>c, <1>d, <3>1, DistanceStep DEF PopRelease
  <2>6. Distance(seenRead, read_pos) < Distance(seenRead, write_pos)
    BY <1>b, <1>c, <1>d, <2>3, DistanceSplit, DistanceZero
  <2>7. Order'
    BY <1>6, <1>b, <1>c, <1>d, <2>4, <2>5, <2>6 DEF PopRelease
  <2> QED BY <1>6, <2>1, <2>7 DEF PopRelease, RingInv, SizeWithinCapacity
<1>7. CASE SizeByProducer
  <2>1. PICK rp \in Loadable(seenRead, read_pos) :
            seenRead' = rp /\ reported' = Distance(rp, write_pos)
    BY <1>7 DEF SizeByProducer
  <2>2. rp \in Positions /\ Distance(seenRead, rp) <= Distance(seenRead, read_pos)
    BY <2>1 DEF Loadable
  <2>3. TypeOK'
    BY <1>7, <1>b, <2>1, <2>2, DistanceValue DEF SizeByProducer, RingInv, TypeOK
  <2>4. /\ Distance(rp, write_pos) = Distance(seenRead, write_pos) - Distance(seenRead, rp)
        /\ Distance(rp, read_pos) = Distance(seenRead, read_pos) - Distance(seenRead, rp)
    BY <1>b, <1>c, <1>d, <2>2, DistanceSplit
  <2>5. Order' /\ reported' <= Capacity
    BY <1>7, <1>a, <1>b, <1>c, <1>d, <2>1, <2>2, <2>4 DEF SizeByProducer
  <2> QED BY <1>7, <2>3, <2>5 DEF SizeByProducer, RingInv, SizeWithinCapacity
<1>8. CASE SizeByConsumer
  <2>1. PICK wp \in Loadable(seenWrite, write_pos) :
            seenWrite' = wp /\ reported' = Distance(read_pos, wp)
    BY <1>8 DEF SizeByConsumer
  <2>2. wp \in Positions /\ Distance(seenWrite, wp) <= Distance(seenWrite, write_pos)
    BY <2>1 DEF Loadable
  <2>3. TypeOK'
    BY <1>8, <1>b, <2>1, <2>2, DistanceValue DEF SizeByConsumer, RingInv, TypeOK
  <2>4. Distance(read_pos, wp) <= Distance(read_pos, write_pos)
    BY <1>f, <2>2
  <2>5. Order' /\ reported' <= Capacity
    BY <1>8, <1>a, <1>b, <1>c, <1>d, <1>e, <2>1, <2>2, <2>4 DEF SizeByConsumer
  <2> QED BY <1>8, <2>3, <2>5 DEF SizeByConsumer, RingInv, SizeWithinCapacity
<1>9. CASE UNCHANGED vars
  BY <1>9 DEF vars, RingInv, TypeOK, SizeWithinCapacity
<1> QED BY <1>1, <1>2, <1>3, <1>4, <1>5, <1>6, <1>7, <1>8, <1>9 DEF Next

\* try_push, try_pop and size keep their counters in step: for every capacity
\* and width, the beliefs of the two threads stay old but true, and size()
\* answers within [0, Capacity].
THEOREM RingInvariant == Spec => []RingInv
<1>1. Init => RingInv
  BY RingAssumption, DistanceValue
     DEF Init, RingInv, TypeOK, SizeWithinCapacity, Positions, Slots
<1> QED BY <1>1, RingInvInductive, PTL DEF Spec

\* The producer never stores into the slot the consumer is copying: the plain
\* buffer_ array is race free under acquire/release counters alone.
THEOREM RaceFreedom == Spec => []NoSharedSlot
<1>1. RingInv => NoSharedSlot
  <2> SUFFICES ASSUME RingInv, producer = "write", consumer = "read"
               PROVE  Slot(write_pos) # Slot(read_pos)
    BY DEF NoSharedSlot
  <2>1. /\ write_pos \in Positions /\ read_pos \in Positions
        /\ seenRead \in Positions /\ seenWrite \in Positions
    BY DEF RingInv, TypeOK
  <2>2. \A p, q \in Positions : Distance(p, q) \in Nat
    BY RingAssumption, DistanceValue DEF Positions
  <2>3. /\ Distance(seenRead, write_pos) < Capacity
        /\ Distance(seenRead, read_pos) <= Distance(seenRead, write_pos)
        /\ Distance(read_pos, seenWrite) <= Distance(read_pos, write_pos)
        /\ read_pos # seenWrite
    BY DEF RingInv
  <2>4. Distance(read_pos, write_pos) > 0
    BY <2>1, <2>2, <2>3, DistanceZero
  <2>5. Distance(read_pos, write_pos) < Capacity
    BY <2>1, <2>2, <2>3, DistanceSplit, RingAssumption
  <2> QED BY <2>1, <2>4, <2>5, SlotsDiffer
<1> QED BY <1>1, RingInvariant, PTL
=============================================================================
