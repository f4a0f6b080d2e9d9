--------------------------- MODULE SpscRingBuffer ---------------------------
(***************************************************************************)
(* SpscRingBuffer<T, Capacity> (exchange-core/spsc_ring_buffer.h): one     *)
(* producer thread in try_push, one consumer thread in try_pop, no lock.   *)
(*                                                                         *)
(* write_pos_ and read_pos_ are size_t counters that are never reset and   *)
(* wrap at Width (2^64 in the code).  Each thread owns one of them, so its *)
(* relaxed load returns the true value; the acquire load of the OTHER      *)
(* counter may return any value at least as recent as the last one this    *)
(* thread saw.  A release store publishes the buffer slot written before   *)
(* it, which is why a slot is modelled as visible once the counter that    *)
(* covers it has been seen.                                                *)
(***************************************************************************)
EXTENDS Integers, Sequences

CONSTANTS Items,        \* what is queued
          Capacity,     \* number of slots
          Width,        \* counters are taken modulo Width
          NoItem        \* an unwritten slot

ASSUME RingAssumption ==
    /\ Capacity \in Nat \ {0}
    /\ Width \in Nat
    /\ Width % Capacity = 0 /\ Width >= 2 * Capacity
    /\ NoItem \notin Items

Positions == 0 .. Width - 1
Slots == 0 .. Capacity - 1

VARIABLES
    write_pos, read_pos,    \* the two atomics
    buffer,                 \* the slots
    seenRead,               \* newest read_pos_ the producer has loaded
    seenWrite,              \* newest write_pos_ the consumer has loaded
    producer, consumer,     \* where each thread is inside its call
    pushing, popped,        \* argument of try_push, result of try_pop
    reported                \* the answer of the last size()

vars == <<write_pos, read_pos, buffer, seenRead, seenWrite, producer,
          consumer, pushing, popped, reported>>

Slot(pos) == pos % Capacity
Distance(from, to) == (to - from) % Width

\* wp - rp >= Capacity, and the same test with the comparison off by one.
LooksFullOffByOne(rp) == Distance(rp, write_pos) > Capacity
LooksFull(rp) == Distance(rp, write_pos) >= Capacity

\* rp == wp, and the test that lets the consumer run one slot ahead.
LooksEmptyBackwards(wp) == Distance(wp, read_pos) = 1
LooksEmpty(wp) == wp = read_pos

\* The counter stored by a pop, and a counter reduced to a slot number.
AdvanceInSlots(pos) == (pos + 1) % Capacity
Advance(pos) == (pos + 1) % Width

\* An acquire load of a counter now at `now' by a thread that last saw `seen'.
Loadable(seen, now) ==
    {pos \in Positions : Distance(seen, pos) <= Distance(seen, now)}

Init ==
    /\ write_pos = 0 /\ read_pos = 0
    /\ buffer = [s \in Slots |-> NoItem]
    /\ seenRead = 0 /\ seenWrite = 0
    /\ producer = "idle" /\ consumer = "idle"
    /\ pushing = NoItem /\ popped = << >>
    /\ reported = 0

\* try_push: load both counters; give up if the ring looks full.
PushLoad(item) ==
    /\ producer = "idle"
    /\ \E rp \in Loadable(seenRead, read_pos) :
        /\ seenRead' = rp
        /\ IF LooksFull(rp)
           THEN UNCHANGED <<producer, pushing>>
           ELSE producer' = "write" /\ pushing' = item
    /\ UNCHANGED <<write_pos, read_pos, buffer, seenWrite, consumer, popped,
                   reported>>

PushWrite ==
    /\ producer = "write"
    /\ buffer' = [buffer EXCEPT ![Slot(write_pos)] = pushing]
    /\ producer' = "publish"
    /\ UNCHANGED <<write_pos, read_pos, seenRead, seenWrite, consumer,
                   pushing, popped, reported>>

PushPublish ==
    /\ producer = "publish"
    /\ write_pos' = Advance(write_pos)
    /\ producer' = "idle"
    /\ pushing' = NoItem
    /\ UNCHANGED <<read_pos, buffer, seenRead, seenWrite, consumer, popped,
                   reported>>

\* try_pop: load both counters; give up if the ring looks empty.
PopLoad ==
    /\ consumer = "idle"
    /\ \E wp \in Loadable(seenWrite, write_pos) :
        /\ seenWrite' = wp
        /\ consumer' = IF LooksEmpty(wp) THEN "idle" ELSE "read"
    /\ UNCHANGED <<write_pos, read_pos, buffer, seenRead, producer, pushing,
                   popped, reported>>

PopRead ==
    /\ consumer = "read"
    /\ popped' = <<buffer[Slot(read_pos)]>>
    /\ consumer' = "release"
    /\ UNCHANGED <<write_pos, read_pos, buffer, seenRead, seenWrite,
                   producer, pushing, reported>>

PopRelease ==
    /\ consumer = "release"
    /\ read_pos' = Advance(read_pos)
    /\ consumer' = "idle"
    /\ UNCHANGED <<write_pos, buffer, seenRead, seenWrite, producer, pushing,
                   popped, reported>>

\* size(), asked by either thread between its own calls.
SizeByProducer ==
    /\ producer = "idle"
    /\ \E rp \in Loadable(seenRead, read_pos) :
        /\ seenRead' = rp
        /\ reported' = Distance(rp, write_pos)
    /\ UNCHANGED <<write_pos, read_pos, buffer, seenWrite, producer,
                   consumer, pushing, popped>>

SizeByConsumer ==
    /\ consumer = "idle"
    /\ \E wp \in Loadable(seenWrite, write_pos) :
        /\ seenWrite' = wp
        /\ reported' = Distance(read_pos, wp)
    /\ UNCHANGED <<write_pos, read_pos, buffer, seenRead, producer, consumer,
                   pushing, popped>>

Next ==
    \/ \E item \in Items : PushLoad(item)
    \/ PushWrite \/ PushPublish
    \/ PopLoad \/ PopRead \/ PopRelease
    \/ SizeByProducer \/ SizeByConsumer

Spec == Init /\ [][Next]_vars

-----------------------------------------------------------------------------
(* Properties *)

\* Every variable keeps its type: counters stay below Width, and try_pop never
\* hands out anything but what was pushed or an unwritten slot.
TypeOK ==
    /\ write_pos \in Positions /\ read_pos \in Positions
    /\ seenRead \in Positions /\ seenWrite \in Positions
    /\ buffer \in [Slots -> Items \cup {NoItem}]
    /\ producer \in {"idle", "write", "publish"}
    /\ consumer \in {"idle", "read", "release"}
    /\ pushing \in Items \cup {NoItem}
    /\ popped \in {<< >>} \cup {<<item>> : item \in Items \cup {NoItem}}
    /\ reported \in Positions

\* No data race: while the consumer copies a slot out, the producer is never
\* storing into that same slot, whatever stale counters the two acted on
\* (the buffer is a plain array, only the counters are atomic).
NoSharedSlot ==
    ~ /\ producer = "write" /\ consumer = "read"
      /\ Slot(write_pos) = Slot(read_pos)

\* "always within [0, Capacity]": the size either thread is told, although
\* the other thread moves its counter meanwhile and both counters wrap.
SizeWithinCapacity == reported <= Capacity

\* Around the ring the four positions keep the order seenRead, read_pos,
\* seenWrite, write_pos, all within one Capacity, and a thread that passed its
\* check still has room (or an item) when it acts: what each thread believes
\* of the other counter is old but never wrong.  This is the inductive
\* invariant the race-freedom proof rests on.
RingInv ==
    /\ TypeOK
    /\ SizeWithinCapacity
    /\ Distance(seenRead, write_pos) <= Capacity
    /\ Distance(seenRead, read_pos) <= Distance(seenRead, write_pos)
    /\ Distance(read_pos, seenWrite) <= Distance(read_pos, write_pos)
    /\ producer # "idle" => Distance(seenRead, write_pos) < Capacity
    /\ consumer # "idle" => read_pos # seenWrite

\* The items the consumer has not yet released, oldest first.  An item leaves
\* the abstract queue when the consumer copies it out.
InFlight ==
    LET skip == IF consumer = "release" THEN 1 ELSE 0
        count == Distance(read_pos, write_pos) - skip
    IN  [i \in 1 .. count |-> buffer[Slot(read_pos + skip + i - 1)]]

Fifo == INSTANCE BoundedFifo WITH queue <- InFlight, taken <- popped

\* try_push / try_pop implement the bounded FIFO: nothing is lost, repeated,
\* reordered or invented, and at most Capacity items are ever in flight.
ImplementsFifo == Fifo!Spec
=============================================================================
