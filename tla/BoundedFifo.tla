---------------------------- MODULE BoundedFifo ----------------------------
(***************************************************************************)
(* What a single-producer single-consumer queue promises its two threads:  *)
(* at most Capacity items are in flight, and the consumer takes them out   *)
(* one by one, each exactly once, in the order the producer put them in.   *)
(***************************************************************************)
EXTENDS Naturals, Sequences

CONSTANTS Items, Capacity

VARIABLES queue, taken      \* items in flight; the item taken out last

Push(item) ==
    /\ Len(queue) < Capacity
    /\ queue' = Append(queue, item)
    /\ UNCHANGED taken

Pop ==
    /\ queue # << >>
    /\ taken' = <<Head(queue)>>
    /\ queue' = Tail(queue)

Init == queue = << >> /\ taken = << >>

Next == Pop \/ \E item \in Items : Push(item)

Spec == Init /\ [][Next]_<<queue, taken>>
=============================================================================
