----------------------------- MODULE OrderBook -----------------------------
(***************************************************************************)
(* The two price-ordered structures of the engine: OrderBook               *)
(* (exchange-core/orderbook.{h,cc}) and StopBook (stop_book.{h,cc}).       *)
(* Both are, per side, a sorted list of price levels, each holding a FIFO  *)
(* list of orders.  A book is modelled as a function from side and price   *)
(* to the queue of order ids; a level exists exactly while its queue is    *)
(* not empty, because insert links a level on first use and remove unlinks *)
(* it with its last order.  The intrusive prev/next pointers are what the  *)
(* sequences abstract.                                                     *)
(***************************************************************************)
EXTENDS Integers, Sequences, FiniteSets, SequencesExt

CONSTANT Prices     \* the price ticks in play

ASSUME PricesAssumption == Prices \subseteq Nat \ {0} /\ IsFiniteSet(Prices)

Sides == {"Buy", "Sell"}
Opposite(side) == IF side = "Buy" THEN "Sell" ELSE "Buy"
Smaller(a, b) == IF a <= b THEN a ELSE b

EmptyBook == [side \in Sides |-> [price \in Prices |-> << >>]]
Levels(book, side) == {price \in Prices : book[side][price] # << >>}
LevelCount(book) ==
    Cardinality({sp \in Sides \X Prices : book[sp[1]][sp[2]] # << >>})

\* Bids are linked highest first, asks lowest first; buy stops lowest first,
\* sell stops highest first.  The head of the list is the level to act on.
IsBestLevel(book, side, price) ==
    /\ price \in Levels(book, side)
    /\ \A other \in Levels(book, side) :
           IF side = "Buy" THEN other <= price ELSE price <= other

IsFirstStopLevel(book, side, price) ==
    /\ price \in Levels(book, side)
    /\ \A other \in Levels(book, side) :
           IF side = "Buy" THEN price <= other ELSE other <= price

\* Mutant of InsertOrder: the newcomer goes to the front.
InsertInFront(book, side, price, id) ==
    [book EXCEPT ![side][price] = <<id>> \o @]

\* insert_order / insert_stop: a level in use gets the order at its back.
InsertOrder(book, side, price, id) == [book EXCEPT ![side][price] = Append(@, id)]

\* remove_order / remove_stop, and the level it frees (1) or leaves (0).
RemoveOrder(book, side, price, id) ==
    LET queue == book[side][price]
        i == CHOOSE j \in DOMAIN queue : queue[j] = id
    IN  [book EXCEPT ![side][price] = RemoveAt(queue, i)]

FreedLevels(book, side, price) == IF Len(book[side][price]) = 1 THEN 1 ELSE 0
NewLevels(book, side, price) == IF book[side][price] = << >> THEN 1 ELSE 0

\* An iceberg whose shown tranche is used up goes to the back of its level
\* (list_remove followed by list_push_back).
Requeue(book, side, price, id) ==
    InsertOrder(RemoveOrder(book, side, price, id), side, price, id)
=============================================================================
