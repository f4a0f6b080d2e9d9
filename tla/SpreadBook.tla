----------------------------- MODULE SpreadBook -----------------------------
(***************************************************************************)
(* SpreadSimulator and its SpreadBooks over the outright matching engines  *)
(* that hold the legs: direct spread-against-spread matching, implied-in   *)
(* (a resting spread order takes the best quotes of its legs) and          *)
(* implied-out (the synthetic price of the legs takes a resting spread     *)
(* order), the legs being filled one engine at a time by                   *)
(* apply_implied_fills.                                                    *)
(*                                                                         *)
(* A book is the sequence of its resting orders in the order of their      *)
(* time priority; the levels of the code are the orders of one side and    *)
(* price, and a level's total is the sum of what they show.  The outright  *)
(* engines are the module MatchingEngine: here they only rest and cancel   *)
(* orders, between the calls, and take implied fills.  Everything runs on  *)
(* one thread: a call of the simulator is the sequence of steps that pc    *)
(* goes through, and nothing else happens until it is idle again.          *)
(***************************************************************************)
EXTENDS ImpliedPrices, FiniteSets

CONSTANTS
    Profiles,          \* profile name -> what an instance explores, see below
    MaxSpreadLevels    \* capacity of a spread book's level pool

VARIABLES
    setup,     \* the profile of this behaviour
    outright,  \* [inst -> sequence of [id, side, price, remaining, display, hidden]]
    spread,    \* [spread -> sequence of [side, price, remaining, filled, modified]]
    pc         \* the call in progress: [at: "idle"], or see the actions

vars == <<setup, outright, spread, pc>>

Config == Profiles[setup].config                       \* [spread -> [legs, tick, lot]]
Instruments == DOMAIN Profiles[setup].maxOutrightOrders
MaxOutrightOrders == Profiles[setup].maxOutrightOrders \* bound: orders resting in a book
OutrightRequests == Profiles[setup].outrightRequests   \* orders that may come to rest
MaxSpreadOrders == Profiles[setup].maxSpreadOrders     \* capacity of a book's order pool
SpreadRequests == Profiles[setup].spreadRequests       \* [spread, side, price, qty, tif]
SpreadChanges == Profiles[setup].spreadChanges         \* [price, qty] to modify to

Spreads == DOMAIN Config
Legs(k) == Config[k].legs
tick_sizes == [p \in DOMAIN Profiles |-> [k \in DOMAIN Profiles[p].config |->
                                              spread_tick(Profiles[p].config[k])]]
lot_sizes == [p \in DOMAIN Profiles |-> [k \in DOMAIN Profiles[p].config |->
                                             spread_lot(Profiles[p].config[k])]]
tick_size(k) == tick_sizes[setup][k]
lot_size(k) == lot_sizes[setup][k]

(***************************************************************************)
(* register_strategy: what the registry insists on before a spread exists. *)
(***************************************************************************)
register_strategy(k, legs, instruments) ==
    /\ Len(legs) >= 2
    /\ legs[1].ratio > 0
    /\ \A i \in DOMAIN legs : /\ legs[i].ratio # 0 /\ legs[i].tick > 0 /\ legs[i].lot > 0
                              /\ legs[i].inst # k /\ legs[i].inst \in instruments

ASSUME RegisteredAssumption ==
    \A p \in DOMAIN Profiles : \A k \in DOMAIN Profiles[p].config :
        register_strategy(k, Profiles[p].config[k].legs, DOMAIN Profiles[p].maxOutrightOrders)

Idle == [at |-> "idle"]
NoOrder == [id |-> 0, price |-> 0, remaining |-> 0]

\* Nothing keeps the identifier of an outright order from one step to the next:
\* between the steps the orders of a book are numbered by their place.
Renumbered(book) == [i \in DOMAIN book |-> [book[i] EXCEPT !.id = i]]

(***************************************************************************)
(* Books.                                                                  *)
(***************************************************************************)
On(book, side) == {i \in DOMAIN book : book[i].side = side}
Better(side, p, q) == IF side = "Buy" THEN p > q ELSE p < q

\* The order at the head of the best level of a side, and its place in the book.
BestIndex(book, side) ==
    CHOOSE i \in On(book, side) : \A j \in On(book, side) :
        \/ Better(side, book[i].price, book[j].price)
        \/ book[i].price = book[j].price /\ i <= j
Best(book, side) == IF On(book, side) = {} THEN NoOrder ELSE book[BestIndex(book, side)]

LevelTotal(book, side, price) ==
    FoldLeft(LAMBDA acc, o : acc + IF o.side = side /\ o.price = price THEN o.remaining ELSE 0,
             0, book)

Levels(book) == {<<book[i].side, book[i].price>> : i \in DOMAIN book}
Without(book, id) == SelectSeq(book, LAMBDA o : o.id # id)
Replace(book, new) == [i \in DOMAIN book |-> IF book[i].id = new.id THEN new ELSE book[i]]
Find(book, id) == SelectSeq(book, LAMBDA o : o.id = id)

\* The best order of a side takes a fill: it leaves the book when nothing remains.
AfterFill(book, side, qty) ==
    LET i == BestIndex(book, side)
    IN IF book[i].remaining = qty THEN RemoveAt(book, i)
       ELSE [book EXCEPT ![i].remaining = @ - qty, ![i].filled = @ + qty]

(***************************************************************************)
(* The callbacks into an outright engine.                                  *)
(***************************************************************************)
bbo_provider(book) ==
    [side \in Sides |->
        LET o == Best(book, side)
        IN [price |-> o.price, qty |-> IF o = NoOrder THEN 0 ELSE LevelTotal(book, side, o.price)]]

gather_leg_bbos(k, books) == [i \in DOMAIN Legs(k) |-> bbo_provider(books[Legs(k)[i].inst])]

best_order_id(inst, side) == Best(outright[inst], side).id

\* The validation of a fill: the order is known and shows at least qty.
FillValid(book, fill) ==
    /\ Find(book, fill.id) # <<>>
    /\ fill.qty > 0
    /\ Find(book, fill.id)[1].remaining >= fill.qty

\* A valid fill applied: a drained iceberg shows its next tranche at the back.
apply_implied_fill(book, fill) ==
    LET o == [Find(book, fill.id)[1] EXCEPT !.remaining = @ - fill.qty]
        tranche == Min({o.display, o.hidden})
    IN IF o.remaining > 0 THEN Replace(book, o)
       ELSE IF tranche > 0
       THEN Append(Without(book, o.id), [o EXCEPT !.remaining = tranche, !.hidden = @ - tranche])
       ELSE Without(book, o.id)

\* Mutant: a refused leg is skipped and the execution goes on.
ApplyLegsSkipping(batch) ==
    FoldLeft(LAMBDA acc, fill :
                 IF ~ FillValid(acc.books[fill.inst], fill) THEN acc
                 ELSE [acc EXCEPT !.books[fill.inst] = apply_implied_fill(@, fill)],
             [books |-> outright, ok |-> TRUE], batch)

(***************************************************************************)
(* The legs of one implied execution, applied engine by engine: books is   *)
(* what the outright books become, ok whether every leg was filled.  The   *)
(* first leg that is refused ends the loop; the earlier ones stay filled.  *)
(***************************************************************************)
ApplyLegs(batch) ==
    FoldLeft(LAMBDA acc, fill :
                 IF ~ acc.ok \/ ~ FillValid(acc.books[fill.inst], fill)
                 THEN [acc EXCEPT !.ok = FALSE]
                 ELSE [acc EXCEPT !.books[fill.inst] = apply_implied_fill(@, fill)],
             [books |-> outright, ok |-> TRUE], batch)

\* The batch for qty spreads, each leg against the head of the side it takes.
Batch(k, qty, bbos, Taken(_)) ==
    [i \in DOMAIN Legs(k) |->
        LET leg == Legs(k)[i]
        IN [inst |-> leg.inst, id |-> best_order_id(leg.inst, Taken(leg)),
            price |-> bbos[i][Taken(leg)].price, qty |-> leg_quantity(leg, qty)]]

Complete(batch) == \A i \in DOMAIN batch : batch[i].id # 0

FloorToLot(k, qty) == IF lot_size(k) > 0 THEN (qty \div lot_size(k)) * lot_size(k) ELSE qty

Init ==
    /\ setup \in DOMAIN Profiles
    /\ outright = [inst \in Instruments |-> <<>>]
    /\ spread = [k \in Spreads |-> <<>>]
    /\ pc = Idle

(***************************************************************************)
(* Outright engines between the calls: an order that crosses nothing comes *)
(* to rest, or a resting order leaves.                                     *)
(***************************************************************************)
OutrightRests(r) ==
    /\ pc = Idle
    /\ Len(outright[r.inst]) < MaxOutrightOrders[r.inst]
    /\ LET opp == Best(outright[r.inst], Opposite(r.side))
       IN opp = NoOrder \/ Better(r.side, opp.price, r.price)
    /\ outright' = [outright EXCEPT ![r.inst] = Append(@,
           [id |-> Len(@) + 1, side |-> r.side, price |-> r.price, remaining |-> r.qty,
            display |-> r.display, hidden |-> r.hidden])]
    /\ UNCHANGED <<setup, spread, pc>>

OutrightLeaves(inst, i) ==
    /\ pc = Idle
    /\ outright' = [outright EXCEPT ![inst] = Renumbered(RemoveAt(@, i))]
    /\ UNCHANGED <<setup, spread, pc>>

(***************************************************************************)
(* new_spread_order.  A request that fails validation, or finds the pool   *)
(* empty, changes nothing.  A fill-or-kill order that the opposite side    *)
(* cannot fill is cancelled at once; every other one is matched directly.  *)
(* Both go on to try_implied_in on the whole book.                         *)
(***************************************************************************)
Aligned(k, price, qty) ==
    /\ qty > 0 /\ qty % lot_size(k) = 0
    /\ AbsVal(price) % tick_size(k) = 0

crosses(side, price, resting) == IF side = "Buy" THEN resting <= price ELSE resting >= price

available_crossing_qty(book, r) ==
    FoldLeft(LAMBDA acc, o : acc + IF o.side # r.side /\ crosses(r.side, r.price, o.price)
                                   THEN o.remaining ELSE 0, 0, book)

TryImpliedIn(k) == [at |-> "in", spread |-> k, side |-> "Buy", failed |-> FALSE, ok |-> TRUE]

new_spread_order(r) ==
    /\ pc = Idle
    /\ Aligned(r.spread, r.price, r.qty)
    /\ Len(spread[r.spread]) < MaxSpreadOrders
    /\ pc' = IF r.tif = "FOK" /\ available_crossing_qty(spread[r.spread], r) < r.qty
             THEN TryImpliedIn(r.spread)
             ELSE [at |-> "match", spread |-> r.spread, tif |-> r.tif,
                   order |-> [side |-> r.side, price |-> r.price, remaining |-> r.qty, filled |-> 0, modified |-> FALSE]]
    /\ UNCHANGED <<setup, outright, spread>>

\* Whether the aggressor still has an order to trade with.
DirectCross ==
    LET opp == Best(spread[pc.spread], Opposite(pc.order.side))
    IN opp # NoOrder /\ pc.order.remaining > 0 /\ crosses(pc.order.side, pc.order.price, opp.price)

match_direct ==
    /\ pc.at = "match"
    /\ DirectCross
    /\ LET opp == Best(spread[pc.spread], Opposite(pc.order.side))
           qty == Min({pc.order.remaining, opp.remaining})
       IN /\ spread' = [spread EXCEPT ![pc.spread] = AfterFill(@, opp.side, qty)]
          /\ pc' = [pc EXCEPT !.order.remaining = @ - qty, !.order.filled = @ + qty]
    /\ UNCHANGED <<setup, outright>>

\* A level is taken from the pool before the price is looked up: with none
\* left the order is dropped, and nobody is told.
rest_order(book, order) ==
    IF Cardinality(Levels(book)) < MaxSpreadLevels THEN Append(book, order) ELSE book

\* Mutant: the order rests after the first fill, whatever it still crosses.
finish_new_order_early ==
    /\ pc.at = "match"
    /\ spread' = IF pc.order.remaining = 0 \/ pc.tif \in {"IOC", "FOK"} THEN spread
                 ELSE [spread EXCEPT ![pc.spread] = rest_order(@, pc.order)]
    /\ pc' = TryImpliedIn(pc.spread)
    /\ UNCHANGED <<setup, outright>>

finish_new_order ==
    /\ pc.at = "match"
    /\ ~ DirectCross
    /\ spread' = IF pc.order.remaining = 0 \/ pc.tif \in {"IOC", "FOK"} THEN spread
                 ELSE [spread EXCEPT ![pc.spread] = rest_order(@, pc.order)]
    /\ pc' = TryImpliedIn(pc.spread)
    /\ UNCHANGED <<setup, outright>>

cancel_spread_order(k, i) ==
    /\ pc = Idle
    /\ spread' = [spread EXCEPT ![k] = RemoveAt(@, i)]
    /\ UNCHANGED <<setup, outright, pc>>

\* Cancel-replace: the order is not matched again at its new price.
modify_spread_order(k, i, c) ==
    /\ pc = Idle
    /\ Aligned(k, c.price, c.qty)
    /\ LET o == [spread[k][i] EXCEPT !.price = c.price, !.remaining = c.qty - spread[k][i].filled,
                                     !.modified = TRUE]
       IN spread' = [spread EXCEPT ![k] = IF o.remaining <= 0 THEN RemoveAt(@, i)
                                          ELSE rest_order(RemoveAt(@, i), o)]
    /\ UNCHANGED <<setup, outright, pc>>

(***************************************************************************)
(* One iteration of an implied loop that found something to execute: the   *)
(* legs, then, when every one was filled, the spread order at its own      *)
(* price; a refused leg breaks out of the loop.                            *)
(***************************************************************************)
Execute(k, side, qty, batch) ==
    LET legs == ApplyLegs(batch)
    IN /\ outright' = [inst \in Instruments |-> Renumbered(legs.books[inst])]
       /\ spread' = IF legs.ok THEN [spread EXCEPT ![k] = AfterFill(@, side, qty)] ELSE spread

Refused(batch) == ~ ApplyLegs(batch).ok

(***************************************************************************)
(* try_implied_in: the head of the best level takes the best quotes of its *)
(* legs, as often as their net price honours its limit; bids, then asks.   *)
(***************************************************************************)
InTaken(leg) == Opposite(leg_side(leg, pc.side))

InQty(k, side) ==
    LET bbos == gather_leg_bbos(k, outright)
        avail(i) == bbos[i][Opposite(leg_side(Legs(k)[i], side))].qty \div AbsVal(Legs(k)[i].ratio)
    IN FloorToLot(k, Min({Best(spread[k], side).remaining, LeastOver(Legs(k), avail)}))

InNetPrice(k, side) ==
    LET bbos == gather_leg_bbos(k, outright)
    IN compute_spread_price(Legs(k), [i \in DOMAIN Legs(k) |->
                                         bbos[i][Opposite(leg_side(Legs(k)[i], side))].price])

\* Mutant: the limit of the spread order is not checked.
InFillableAnyPrice(k, side) == InQty(k, side) > 0

InFillable(k, side) ==
    /\ InQty(k, side) > 0
    /\ crosses(side, Best(spread[k], side).price, InNetPrice(k, side))

InBatch == Batch(pc.spread, InQty(pc.spread, pc.side), gather_leg_bbos(pc.spread, outright), InTaken)

\* Mutant: one execution per side, instead of as many as the quotes allow.
match_implied_in_once ==
    /\ pc.at = "in"
    /\ ~ pc.failed
    /\ InFillable(pc.spread, pc.side)
    /\ Execute(pc.spread, pc.side, InQty(pc.spread, pc.side), InBatch)
    /\ pc' = [pc EXCEPT !.failed = TRUE, !.ok = @ /\ ~ Refused(InBatch)]
    /\ UNCHANGED setup

match_implied_in_side ==
    /\ pc.at = "in"
    /\ ~ pc.failed
    /\ InFillable(pc.spread, pc.side)
    /\ Execute(pc.spread, pc.side, InQty(pc.spread, pc.side), InBatch)
    /\ pc' = [pc EXCEPT !.failed = Refused(InBatch), !.ok = @ /\ ~ Refused(InBatch)]
    /\ UNCHANGED setup

end_implied_in_side ==
    /\ pc.at = "in"
    /\ pc.failed \/ ~ InFillable(pc.spread, pc.side)
    /\ pc' = IF pc.side = "Buy" THEN [pc EXCEPT !.side = "Sell", !.failed = FALSE] ELSE Idle
    /\ UNCHANGED <<setup, outright, spread>>

(***************************************************************************)
(* on_outright_bbo_change: every spread with a leg in the instrument, in   *)
(* an order the hash set fixes; for each the synthetic bid against its     *)
(* asks, then the synthetic ask against its bids.  The quotes are gathered *)
(* once, and again only after an execution.                                *)
(***************************************************************************)
ImpliedOut(k, todo) ==
    [at |-> "out", spread |-> k, todo |-> todo, side |-> "Buy", failed |-> FALSE,
     fills |-> FALSE, bbos |-> gather_leg_bbos(k, outright)]

leg_to_spreads(inst) == {k \in Spreads : \E i \in DOMAIN Legs(k) : Legs(k)[i].inst = inst}

on_outright_bbo_change(inst) ==
    /\ pc = Idle
    /\ \E k \in leg_to_spreads(inst) : pc' = ImpliedOut(k, leg_to_spreads(inst) \ {k})
    /\ UNCHANGED <<setup, outright, spread>>

OutLevel ==
    IF pc.side = "Buy" THEN compute_implied_out_bid(Legs(pc.spread), pc.bbos, tick_size(pc.spread))
    ELSE compute_implied_out_ask(Legs(pc.spread), pc.bbos, tick_size(pc.spread))
OutOrder == Best(spread[pc.spread], Opposite(pc.side))
OutQty == FloorToLot(pc.spread, Min({OutLevel.quantity, OutOrder.remaining}))
OutTaken(leg) == leg_side(leg, pc.side)
OutBatch == Batch(pc.spread, OutQty, pc.bbos, OutTaken)

OutFillable ==
    /\ OutQty > 0
    /\ crosses(Opposite(pc.side), OutOrder.price, OutLevel.price)
    /\ Complete(OutBatch)

match_implied_out_side ==
    /\ pc.at = "out"
    /\ ~ pc.failed
    /\ OutFillable
    /\ Execute(pc.spread, Opposite(pc.side), OutQty, OutBatch)
    /\ pc' = IF Refused(OutBatch) THEN [pc EXCEPT !.failed = TRUE]
             ELSE [pc EXCEPT !.fills = TRUE, !.bbos = gather_leg_bbos(pc.spread, ApplyLegs(OutBatch).books)]
    /\ UNCHANGED setup

\* Mutant: the spread just done is not taken off the list.
end_implied_out_side_keeps ==
    /\ pc.at = "out"
    /\ pc.failed \/ ~ OutFillable
    /\ \/ /\ pc.side = "Buy"
          /\ pc' = [pc EXCEPT !.side = "Sell", !.failed = FALSE,
                              !.bbos = IF pc.fills THEN gather_leg_bbos(pc.spread, outright) ELSE @]
       \/ /\ pc.side = "Sell"
          /\ \/ pc.todo = {} /\ pc' = Idle
             \/ \E k \in pc.todo : pc' = ImpliedOut(k, pc.todo)
    /\ UNCHANGED <<setup, outright, spread>>

end_implied_out_side ==
    /\ pc.at = "out"
    /\ pc.failed \/ ~ OutFillable
    /\ \/ /\ pc.side = "Buy"
          /\ pc' = [pc EXCEPT !.side = "Sell", !.failed = FALSE,
                              !.bbos = IF pc.fills THEN gather_leg_bbos(pc.spread, outright) ELSE @]
       \/ /\ pc.side = "Sell"
          /\ \/ pc.todo = {} /\ pc' = Idle
             \/ \E k \in pc.todo : pc' = ImpliedOut(k, pc.todo \ {k})
    /\ UNCHANGED <<setup, outright, spread>>

Step ==
    \/ match_direct \/ finish_new_order
    \/ match_implied_in_side \/ end_implied_in_side
    \/ match_implied_out_side \/ end_implied_out_side

Next ==
    \/ \E r \in OutrightRequests : OutrightRests(r)
    \/ \E inst \in Instruments : \E i \in DOMAIN outright[inst] : OutrightLeaves(inst, i)
    \/ \E r \in SpreadRequests : new_spread_order(r)
    \/ \E k \in Spreads : \E i \in DOMAIN spread[k] :
          \/ cancel_spread_order(k, i)
          \/ \E c \in SpreadChanges : modify_spread_order(k, i, c)
    \/ \E inst \in Instruments : on_outright_bbo_change(inst)
    \/ Step

Spec == Init /\ [][Next]_vars

-----------------------------------------------------------------------------
(***************************************************************************)
(* Properties.                                                             *)
(***************************************************************************)

\* What the orders of a book still have to trade, the hidden part of icebergs included.
OpenQty(inst) == FoldLeft(LAMBDA acc, o : acc + o.remaining + o.hidden, 0, outright[inst])
SpreadQty(k) == FoldLeft(LAMBDA acc, o : acc + o.remaining, 0, spread[k])

\* What the legs of a spread take from one outright book, per spread traded.
Weight(k, inst) == FoldLeft(LAMBDA acc, leg : acc + IF leg.inst = inst THEN AbsVal(leg.ratio) ELSE 0,
                            0, Legs(k))

\* The call in progress is in an implied loop of spread k.
Implied(k) == pc.at \in {"in", "out"} /\ pc.spread = k

\* An implied execution never fills a spread order without its legs: whatever a
\* step of an implied loop takes off the spread book, the books of the legs
\* lose at least the leg quantities for (spread_book.h match_implied_*_side,
\* the fill of the spread order after all_applied).
ImpliedFillsAllLegs ==
    [][\A k \in Spreads, inst \in Instruments :
          Implied(k) => OpenQty(inst) - OpenQty(inst)'
                            >= Weight(k, inst) * (SpreadQty(k) - SpreadQty(k)')]_vars

\* How far the implied-out price may be from the sum of its legs: it is rounded
\* to the spread's tick, toward zero.  Nothing where that tick divides what each leg
\* contributes, which an override of the tick need not do.
Rounding(k) == tick_size(k) - gcd[tick_size(k), compute_tick_size(Legs(k))]

\* Two legs are the same instrument, as in the calendars and butterflies of KRX,
\* and the quotes in hand are older than a pass that broke off at a refused leg.
QuotesOutdated ==
    /\ pc.at = "out" /\ pc.bbos # gather_leg_bbos(pc.spread, outright)
    /\ \E i, j \in DOMAIN Legs(pc.spread) :
           i # j /\ Legs(pc.spread)[i].inst = Legs(pc.spread)[j].inst

\* The owner of a spread order does not trade through the limit: the prices of
\* the outright orders an implied execution takes add up to a spread price no
\* worse than the price of the spread order it fills, exactly for implied-in and
\* up to the rounding for implied-out.  The one exception are quotes that
\* on_outright_bbo_change did not refresh between its two passes.
ImpliedPriceHonoured ==
    [][(pc.at \in {"in", "out"} /\ spread' # spread) =>
          LET side == IF pc.at = "in" THEN pc.side ELSE Opposite(pc.side)
              taken(leg) == Opposite(leg_side(leg, side))
              slack == IF pc.at = "in" THEN 0 ELSE Rounding(pc.spread)
              limit == Best(spread[pc.spread], side).price
                       + IF side = "Buy" THEN slack ELSE -slack
              net == compute_spread_price(Legs(pc.spread), [i \in DOMAIN Legs(pc.spread) |->
                         Best(outright[Legs(pc.spread)[i].inst], taken(Legs(pc.spread)[i])).price])
          IN crosses(side, limit, net) \/ QuotesOutdated]_vars

\* Only modify_order, which does not match at the new price, can leave a spread
\* book crossed: whenever a bid and an ask cross, one of the two was modified.
CrossedOnlyByModify ==
    \A k \in Spreads : \A i \in On(spread[k], "Buy"), j \in On(spread[k], "Sell") :
        spread[k][i].price >= spread[k][j].price => spread[k][i].modified \/ spread[k][j].modified

\* When new_spread_order returns, and no engine refused a leg, no resting order
\* of the book could still be filled from the quotes of its legs: the loops of
\* try_implied_in stop neither early nor on the wrong side.
ImpliedInExhausted ==
    [][\A k \in Spreads : (pc.at = "in" /\ pc.spread = k /\ pc.ok /\ pc' = Idle)
            => \A side \in Sides : ~ InFillable(k, side)']_vars

\* How much the books and the order being matched still have to trade, and how
\* many phases the call in progress has left.
Work == MapThenSumSet(OpenQty, Instruments) + MapThenSumSet(SpreadQty, Spreads)
        + IF pc.at = "match" THEN pc.order.remaining ELSE 0
PhasesLeft ==
    CASE pc = Idle -> 0
      [] pc.at = "match" -> 5
      [] OTHER -> (IF pc.side = "Buy" THEN 4 ELSE 2) - (IF pc.failed THEN 1 ELSE 0)
                  + IF pc.at = "out" THEN 4 * Cardinality(pc.todo) ELSE 0

\* Every call of the simulator returns: each step of a call takes something off
\* a book or ends a phase, and none gives anything back, so no loop of the
\* spread book can go round for ever.
SpreadCallEnds ==
    [][pc # Idle => \/ Work' < Work
                    \/ Work' = Work /\ PhasesLeft' < PhasesLeft]_vars
=============================================================================
