---------------------------- MODULE FeedExchange ----------------------------
(***************************************************************************)
(* The exchange's half of the market data: an event of the engine goes to  *)
(* the venue's publisher, which keeps encoded packets until the runner's   *)
(* loop flushes them to a multicast group, and to a ring buffer in shared  *)
(* memory.  The loop also publishes definitions and snapshots.  Packets    *)
(* are lost, overtake one another, or are never sent because the socket is *)
(* full; the exchange stops, crashes and starts again.                     *)
(*                                                                         *)
(* A profile is one venue, observer and budget of faults.  Times are left  *)
(* out, and the number of a bundle, which nobody reads, is 1.              *)
(***************************************************************************)
EXTENDS Integers, FiniteSetsExt, SequencesExt

CONSTANTS Profiles,      \* profile name -> what the instance explores
          BookDepth,     \* BOOK_DEPTH: levels per side the observer keeps
          TradeDepth,    \* TRADE_DEPTH: trades the observer keeps
          SnapshotDepth, \* kSnapshotBookDepth: levels per side of a KRX snapshot
          RingCapacity   \* of the shared-memory ring

ASSUME DepthAssumption ==
    /\ BookDepth \in Nat \ {0} /\ TradeDepth \in Nat \ {0}
    /\ SnapshotDepth \in Nat \ {0} /\ RingCapacity \in Nat \ {0}

VARIABLES setup,    \* the profile of this behaviour
          ex,       \* the exchange process: orders, packets to send, counters
          net,      \* datagrams on their way to the observer, by channel
          obs,      \* exchange_observer: its phase and its DisplayState
          missed,   \* events whose packet never reached the observer
          shm,      \* the shared-memory segments
          view      \* viz_live: the segment it maps and its OrderbookState

vars == <<setup, ex, net, obs, missed, shm, view>>

Mdp3 == INSTANCE Mdp3Codec
Impact == INSTANCE ImpactCodec
\* Words of 28 bits hold every number of a model; texts are one byte.
Fast == INSTANCE FastCodec WITH GroupBits <- 7, WordBits <- 28, RawBytes <- 1,
                                kSnapshotBookDepth <- SnapshotDepth,
                                kMaxFastEncodedSize <- 512

profile == Profiles[setup]
Products == 1 .. profile.products
Sides == {"Buy", "Sell"}
Lot == Mdp3!PRICE_SCALE      \* engine units per contract
Better(side, p, q) == IF side = "Buy" THEN p > q ELSE p < q

SessionState == <<"Closed", "PreOpen", "OpeningAuction", "Continuous", "PreClose",
                  "ClosingAuction", "Halt", "VolatilityAuction", "LockLimit">>

\* The n-th product: its number is its id and its symbol.
Product(n) ==
    [instrument_id |-> n, tick_size |-> 25 * n, lot_size |-> Lot, max_order_size |-> 5 * Lot,
     match_algo |-> n % 2, product_group |-> n % 4]

-----------------------------------------------------------------------------
(* The book and the events a call to the engine fires.                     *)

Level(orders, side, price) == SelectSeq(orders, LAMBDA o : o.side = side /\ o.price = price)

PricesOf(orders, side) == {o.price : o \in {x \in Range(orders) : x.side = side}}

BestPrice(orders, side) ==
    LET ps == PricesOf(orders, side)
    IN  IF ps = {} THEN 0 ELSE IF side = "Buy" THEN Max(ps) ELSE Min(ps)

Total(orders, side, price) ==
    FoldSeq(LAMBDA o, n : n + o.qty, 0, Level(orders, side, price))

\* for_each_level: the levels of a side, best first.
for_each_level(orders, side) ==
    LET ps == SetToSortSeq(PricesOf(orders, side), LAMBDA p, q : Better(side, p, q))
    IN  [i \in 1 .. Len(ps) |->
            [side |-> side, price |-> ps[i], qty |-> Total(orders, side, ps[i]),
             order_count |-> Len(Level(orders, side, ps[i]))]]

DepthUpdate(orders, side, price, action) ==
    [kind |-> "depth", side |-> side, price |-> price,
     total_qty |-> IF action = "Remove" THEN 0 ELSE Total(orders, side, price),
     order_count |-> IF action = "Remove" THEN 0 ELSE Len(Level(orders, side, price)),
     action |-> action]
Trade(price, quantity, aggressor_side) ==
    [kind |-> "trade", price |-> price, quantity |-> quantity, aggressor_side |-> aggressor_side]
MarketStatus(state) == [kind |-> "status", state |-> state]

\* fire_top_of_book: price and quantity 0 stand for an empty side.
fire_top_of_book(orders) ==
    LET bid == BestPrice(orders, "Buy")
        ask == BestPrice(orders, "Sell")
    IN  <<[kind |-> "tob", best_bid |-> bid, bid_qty |-> Total(orders, "Buy", bid),
           best_ask |-> ask, ask_qty |-> Total(orders, "Sell", ask)]>>

\* Only a change of a best price is worth an event, not a change of its quantity.
fire_top_of_book_if_changed(old, new) ==
    IF \E side \in Sides : BestPrice(old, side) # BestPrice(new, side)
    THEN fire_top_of_book(new) ELSE <<>>

\* A level that is gone is removed, one that survives is updated.
fire_depth_after_remove(orders, side, price) ==
    <<DepthUpdate(orders, side, price,
                  IF price \in PricesOf(orders, side) THEN "Update" ELSE "Remove")>>

-----------------------------------------------------------------------------
(* The publishers: the packets an event adds to the vector.  Every packet  *)
(* carries the first product's id, whichever product it is about.          *)

Mdp3FeedPublisher(e) ==
    CASE e.kind = "depth"  -> <<Mdp3!encode_depth_update(e, 1)>>
      [] e.kind = "tob"    -> <<Mdp3!encode_top_of_book(e, 1)>>
      [] e.kind = "trade"  -> <<Mdp3!encode_trade(e, 1)>>
      [] e.kind = "status" -> <<Mdp3!encode_market_status(e, 1)>>

NonEmpty(packet) == IF packet = <<>> THEN <<>> ELSE <<packet>>

ImpactFeedPublisher(e) ==
    CASE e.kind = "depth"  -> NonEmpty(Impact!encode_depth_update(e, 1, 1))
      [] e.kind = "tob"    -> <<>>
      [] e.kind = "trade"  -> NonEmpty(Impact!encode_trade(e, 1, 1))
      [] e.kind = "status" -> NonEmpty(Impact!encode_market_status(e, 1, 1))

to_fast_quote(e) ==
    [template |-> 1, bid_price |-> e.best_bid, bid_qty |-> e.bid_qty,
     ask_price |-> e.best_ask, ask_qty |-> e.ask_qty, timestamp |-> 1]
to_fast_trade(e) ==
    [template |-> 2, price |-> e.price, quantity |-> e.quantity,
     aggressor_side |-> IF e.aggressor_side = "Buy" THEN 0 ELSE 1, timestamp |-> 1]
to_fast_status(e) ==
    [template |-> 3, session_state |-> (CHOOSE i \in DOMAIN SessionState : SessionState[i] = e.state) - 1,
     timestamp |-> 1]

FastFeedPublisher(e) ==
    CASE e.kind = "depth"  -> <<>>
      [] e.kind = "tob"    -> NonEmpty(Fast!encode_quote(to_fast_quote(e)))
      [] e.kind = "trade"  -> NonEmpty(Fast!encode_trade(to_fast_trade(e)))
      [] e.kind = "status" -> NonEmpty(Fast!encode_status(to_fast_status(e)))

Encode(e) == CASE profile.venue = "cme" -> Mdp3FeedPublisher(e)
               [] profile.venue = "ice" -> ImpactFeedPublisher(e)
               [] profile.venue = "krx" -> FastFeedPublisher(e)

\* The packets of events that follow the first n.  An instance with no observer
\* leaves the multicast side out.
Packets(events, n) ==
    IF ~profile.observer THEN <<>>
    ELSE FlattenSeq([i \in 1 .. Len(events) |->
            LET loads == Encode(events[i])
            IN  [j \in 1 .. Len(loads) |-> [idx |-> n + i, load |-> loads[j]]]])

-----------------------------------------------------------------------------
(* The shared-memory ring.  SharedMemoryMdListener ignores publish's       *)
(* result, so an event that finds the ring full is gone.                   *)

publish(ring, events) ==
    LET all == ring \o events IN SubSeq(all, 1, Min({RingCapacity, Len(all)}))

\* composite_listener: the ring and the publisher get every event, in order.
\* Order events and level-3 actions, which the viewer only logs, are left out.
PushAll(events) ==
    IF profile.shm
    THEN shm' = [shm EXCEPT !.rings[shm.seg] = publish(@, events),
                            !.dropped = @ \/ Len(events) > RingCapacity - Len(shm.rings[shm.seg])]
    ELSE UNCHANGED shm

-----------------------------------------------------------------------------
(* Calls to the engine, made from tcp.poll: never between two packets of a *)
(* flush.                                                                  *)

Fire(n, orders, events) ==
    /\ ex' = [ex EXCEPT !.orders[n] = orders, !.pending = @ \o Packets(events, ex.events),
                        !.events = @ + Len(events), !.changes = @ + 1,
                        !.tape = @ \o SelectSeq(events, LAMBDA e : e.kind = "trade")]
    /\ PushAll(events)
    /\ UNCHANGED <<setup, net, obs, missed, view>>

CanCall == ex.up /\ ~ex.flushing /\ ex.changes < profile.changes

\* A limit order that does not cross rests.
Rest(n, side, price, qty) ==
    LET old == ex.orders[n]
        other == BestPrice(old, IF side = "Buy" THEN "Sell" ELSE "Buy")
        orders == Append(old, [side |-> side, price |-> price, qty |-> qty])
        action == IF price \in PricesOf(old, side) THEN "Update" ELSE "Add"
    IN  /\ CanCall
        /\ other = 0 \/ Better(side, other, price)
        /\ Fire(n, orders, <<DepthUpdate(orders, side, price, action)>> \o fire_top_of_book(orders))

\* The oldest order of the best level.
Oldest(orders, side) ==
    Min({i \in 1 .. Len(orders) : orders[i].side = side
                                  /\ orders[i].price = BestPrice(orders, side)})

\* An incoming order trades with the oldest order of the best level.  When that
\* order is done the level is announced as removed, whatever else rests there.
Hit(n, side, qty) ==
    /\ CanCall
    /\ PricesOf(ex.orders[n], side) # {}
    /\ LET old == ex.orders[n]
           i == Oldest(old, side)
           price == old[i].price
           orders == IF qty = old[i].qty THEN RemoveAt(old, i)
                                         ELSE [old EXCEPT ![i].qty = @ - qty]
           action == IF qty = old[i].qty THEN "Remove" ELSE "Update"
       IN  /\ qty <= old[i].qty
           /\ Fire(n, orders, <<Trade(price, qty, IF side = "Buy" THEN "Sell" ELSE "Buy"),
                                DepthUpdate(orders, side, price, action)>>
                              \o fire_top_of_book_if_changed(old, orders))

\* cancel_active_order
Cancel(n, i) ==
    /\ CanCall
    /\ i \in 1 .. Len(ex.orders[n])
    /\ LET old == ex.orders[n]
           orders == RemoveAt(old, i)
       IN  Fire(n, orders, fire_depth_after_remove(orders, old[i].side, old[i].price)
                           \o fire_top_of_book_if_changed(old, orders))

-----------------------------------------------------------------------------
(* The runner's loop: flush, secdefs, snapshots.                           *)

Joined == obs.phase \in {"listening", "resnap"}

\* Has the observer a number to hold the packet after the last one it was sent
\* against?  The first packet has number 0, and last_seq = 0 stands for none.
CanTell == IF net.md # <<>> THEN Last(net.md).seq # 0 ELSE obs.last_seq # 0

\* The fates of a datagram: queued at the observer, queued ahead of the one
\* before it, dropped by the network, or refused by a full socket.
Fates == {"sent"} \cup (IF net.faults < profile.faults THEN {"late", "lost", "blocked"} ELSE {})

\* Why the observer does not get a packet.
Why(fate) == CASE fate = "blocked" -> "blocked"
               [] fate # "blocked" /\ ~Joined -> "unjoined"
               [] OTHER -> IF CanTell THEN "lost" ELSE "unnumbered"

\* UdpMulticastPublisher::send, one packet of the flush loop.  A refused packet
\* takes no number and is not sent again: the runner clears the vector.
send ==
    /\ ex.up /\ ex.pending # <<>>
    /\ \E fate \in Fates :
        LET p == Head(ex.pending)
            datagram == [seq |-> ex.seq, idx |-> p.idx, load |-> p.load]
            n == Len(net.md)
        IN  /\ fate \in {"late", "lost"} => Joined
            /\ fate = "late" => net.md # <<>>
            /\ ex' = [ex EXCEPT !.pending = Tail(@), !.flushing = Len(ex.pending) > 1,
                                !.seq = IF fate = "blocked" THEN @ ELSE @ + 1]
            /\ net' = [net EXCEPT
                         !.md = CASE Joined /\ fate = "sent" -> Append(@, datagram)
                                  [] Joined /\ fate = "late" -> InsertAt(@, n, datagram)
                                  [] OTHER -> @,
                         !.faults = IF fate = "sent" THEN @ ELSE @ + 1,
                         !.disturbed = @ \/ fate \in {"late", "lost"}]
            /\ missed' = IF Joined /\ fate \in {"sent", "late"} THEN missed
                         ELSE missed \cup {[idx |-> p.idx, why |-> Why(fate)]}
    /\ UNCHANGED <<setup, obs, shm, view>>

Idle == ex.up /\ ~ex.flushing /\ ex.pending = <<>>

cme_publish_secdefs ==
    [n \in Products |-> Mdp3!encode_instrument_definition(Product(n), profile.products)]

ice_publish_secdefs == [n \in Products |-> Impact!encode_instrument_definition(Product(n), n)]

krx_publish_secdefs ==
    [n \in Products |->
        Fast!encode_instrument_def(
            [instrument_id |-> n, symbol |-> <<n>>, product_group |-> Product(n).product_group,
             tick_size |-> Product(n).tick_size, lot_size |-> Product(n).lot_size,
             max_order_size |-> Product(n).max_order_size,
             total_instruments |-> profile.products, timestamp |-> 1])]

Secdefs == CASE profile.venue = "cme" -> cme_publish_secdefs
             [] profile.venue = "ice" -> ice_publish_secdefs
             [] profile.venue = "krx" -> krx_publish_secdefs

\* ICE's definitions take numbers of the market data channel.
Definitions(seq) ==
    [n \in Products |-> [seq |-> seq + n - 1, idx |-> 0, load |-> ice_publish_secdefs[n]]]

\* publish_secdefs, every 30 s: CME and KRX have a channel of their own.
publish_secdefs ==
    /\ Idle /\ net.rounds < profile.rounds
    /\ \E lost \in SUBSET Products :
        LET heard == SelectSeq([n \in Products |-> n], LAMBDA n : n \notin lost)
            ice == profile.venue = "ice"
        IN  /\ net.faults + Cardinality(lost) <= profile.faults
            /\ lost # {} => obs.phase = "discovering"
            /\ net' = [net EXCEPT
                 !.defs = IF obs.phase = "discovering"
                          THEN @ \o [i \in DOMAIN heard |-> Secdefs[heard[i]]] ELSE @,
                 !.md = IF ice /\ Joined THEN @ \o Definitions(ex.seq) ELSE @,
                 !.rounds = @ + 1, !.faults = @ + Cardinality(lost)]
            /\ ex' = [ex EXCEPT !.seq = IF ice THEN @ + profile.products ELSE @]
    /\ UNCHANGED <<setup, obs, missed, shm, view>>

Recovering == obs.phase \in {"snapshot", "resnap"}

\* At most 256 levels, bids first.
cme_snapshot(n) ==
    LET levels == for_each_level(ex.orders[n], "Buy") \o for_each_level(ex.orders[n], "Sell")
    IN  Mdp3!encode_snapshot(n, SubSeq(levels, 1, Min({256, Len(levels)})))

\* The answer to "SNAP <symbol>"; nothing if the symbol is unknown.
ice_snapshot(n) ==
    IF n \notin Products THEN <<>>
    ELSE Impact!encode_snapshot_orders(n, for_each_level(ex.orders[n], "Buy"),
                                       for_each_level(ex.orders[n], "Sell"), 1)

\* The best levels of the regular session, under the snapshot channel's number.
krx_snapshot(n) ==
    LET side(s) == LET all == for_each_level(ex.orders[n], s)
                   IN  [i \in 1 .. Min({SnapshotDepth, Len(all)}) |->
                           [price |-> all[i].price, quantity |-> all[i].qty,
                            order_count |-> all[i].order_count]]
    IN  Fast!encode_full_snapshot(
            [instrument_id |-> n, seq_num |-> ex.snapSeq + n, bids |-> side("Buy"),
             asks |-> side("Sell"), timestamp |-> 1])

\* upto records which events the snapshot covers.
Snapshot(load) == [load |-> load, upto |-> ex.events]

\* CME and KRX publish a snapshot of every product every 5 s, after the flush.
publish_snapshots ==
    /\ profile.venue \in {"cme", "krx"}
    /\ Idle /\ Recovering /\ net.snap = <<>>
    /\ \E lost \in SUBSET Products :
        LET heard == SelectSeq([n \in Products |-> n], LAMBDA n : n \notin lost)
        IN  /\ net.faults + Cardinality(lost) <= profile.faults
            /\ net' = [net EXCEPT
                 !.snap = [i \in DOMAIN heard |->
                             Snapshot(IF profile.venue = "cme" THEN cme_snapshot(heard[i])
                                                               ELSE krx_snapshot(heard[i]))],
                 !.faults = @ + Cardinality(lost)]
    /\ ex' = [ex EXCEPT !.snapSeq = @ + profile.products]
    /\ UNCHANGED <<setup, obs, missed, shm, view>>

\* ICE answers a request over TCP, between the poll and the flush: events whose
\* packets are still pending are in the answer.
serve_snapshot ==
    /\ profile.venue = "ice"
    /\ ex.up /\ ~ex.flushing /\ Recovering /\ net.snap = <<>>
    /\ ice_snapshot(obs.id) # <<>>
    /\ net' = [net EXCEPT !.snap = <<Snapshot(ice_snapshot(obs.id))>>]
    /\ UNCHANGED <<setup, ex, obs, missed, shm, view>>

-----------------------------------------------------------------------------
(* The exchange process: startup, a clean stop, a crash.                   *)

\* Each state is announced for every product before the next.
Announce(states) ==
    FlattenSeq([i \in DOMAIN states |-> [n \in Products |-> MarketStatus(states[i])]])

\* start_trading_day and open_market, before anything is flushed; the auctions
\* between them, of empty books, announce nothing.
Opening == Announce(<<"PreOpen", "Continuous">>)
\* close_market; ICE has no closing auction to collect for.
Closing == Announce(IF profile.venue = "ice" THEN <<"Closed">> ELSE <<"PreClose", "Closed">>)

\* ICE has by then sent its definitions.
Booted(events) ==
    [up |-> TRUE, flushing |-> FALSE, orders |-> [n \in Products |-> <<>>],
     pending |-> Packets(Opening, events),
     seq |-> IF profile.venue = "ice" THEN profile.products ELSE 0,
     snapSeq |-> 0, events |-> events + Len(Opening)]

\* The new process opens the segment and constructs a ring in it: a consumer
\* that maps a segment a crash left behind sees its ring emptied.
ShmProducer(rings, seg) == [rings EXCEPT ![seg] = publish(<<>>, Opening)]

Restart ==
    /\ ~ex.up /\ ex.boots < profile.boots
    /\ ex' = Booted(ex.events) @@ [boots |-> ex.boots + 1, changes |-> ex.changes, tape |-> ex.tape]
    /\ net' = [net EXCEPT !.disturbed = TRUE,
                          !.md = IF profile.venue = "ice" /\ Joined THEN @ \o Definitions(0) ELSE @]
    /\ missed' = missed \cup {[idx |-> ex.events, why |-> "restart"]}
    /\ shm' = IF ~profile.shm THEN shm
              ELSE LET seg == IF shm.unlinked THEN shm.seg + 1 ELSE shm.seg
                       rings == IF shm.unlinked THEN Append(shm.rings, <<>>) ELSE shm.rings
                   IN  [rings |-> ShmProducer(rings, seg), seg |-> seg, unlinked |-> FALSE,
                        dropped |-> Len(Opening) > RingCapacity]
    /\ UNCHANGED <<setup, obs, view>>

\* SIGTERM: the market closes, the orders expire, and the loop that would flush
\* what that publishes has ended.  The ring has it; its name is unlinked.
Stop ==
    /\ ex.up /\ ~ex.flushing /\ ex.boots < profile.boots
    /\ LET Expired(n) ==
             FlattenSeq([i \in 1 .. Len(ex.orders[n]) |->
                 LET rest == SubSeq(ex.orders[n], i + 1, Len(ex.orders[n]))
                     old == SubSeq(ex.orders[n], i, Len(ex.orders[n]))
                 IN  fire_depth_after_remove(rest, old[1].side, old[1].price)
                     \o fire_top_of_book_if_changed(old, rest)])
           events == Closing \o FlattenSeq([n \in Products |-> Expired(n)])
       IN  /\ ex' = [ex EXCEPT !.up = FALSE, !.orders = [n \in Products |-> <<>>],
                               !.pending = @ \o Packets(events, ex.events),
                               !.events = @ + Len(events)]
           /\ shm' = IF ~profile.shm THEN shm
                     ELSE [shm EXCEPT !.rings[shm.seg] = publish(@, events), !.unlinked = TRUE]
    /\ UNCHANGED <<setup, net, obs, missed, view>>

\* The process dies: nothing is flushed and the segment keeps its name.
Crash ==
    /\ ex.up /\ ex.boots < profile.boots
    /\ ex' = [ex EXCEPT !.up = FALSE, !.flushing = FALSE, !.pending = <<>>,
                        !.orders = [n \in Products |-> <<>>]]
    /\ UNCHANGED <<setup, net, obs, missed, shm, view>>
=============================================================================
