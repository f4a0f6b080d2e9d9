--------------------------- MODULE MarketDataFeed ---------------------------
(***************************************************************************)
(* Market data from the engine to the tools that show it: the exchange's   *)
(* half (FeedExchange), exchange_observer (FeedObserver) and viz_live,     *)
(* which pops the ring in shared memory.                                   *)
(***************************************************************************)
EXTENDS FeedObserver

-----------------------------------------------------------------------------
(* viz_live: maps the segment that has the name, pops and applies.         *)

NoLevels == [side \in Sides |-> <<>>]

ShmConsumer ==
    /\ profile.shm /\ view.seg = 0 /\ ~shm.unlinked
    /\ view' = [view EXCEPT !.seg = shm.seg, !.boot = ex.boots]
    /\ UNCHANGED <<setup, ex, net, obs, missed, shm>>

\* Mutant: a removed level is kept.
ViewApplyKeeps(book, e) ==
    IF e.kind # "depth" \/ e.action = "Remove" THEN book
    ELSE [book EXCEPT ![e.side] = (e.price :> e.total_qty) @@ @]

\* apply(DepthUpdate): the level is set or erased; other events change no level.
ViewApply(book, e) ==
    CASE e.kind # "depth" -> book
      [] e.kind = "depth" /\ e.action = "Remove" ->
            [book EXCEPT ![e.side] = Restrict(@, DOMAIN @ \ {e.price})]
      [] OTHER -> [book EXCEPT ![e.side] = (e.price :> e.total_qty) @@ @]

Poll ==
    /\ view.seg # 0 /\ shm.rings[view.seg] # <<>>
    /\ view' = [view EXCEPT !.book = ViewApply(@, Head(shm.rings[view.seg]))]
    /\ shm' = [shm EXCEPT !.rings[view.seg] = Tail(@)]
    /\ UNCHANGED <<setup, ex, net, obs, missed>>

-----------------------------------------------------------------------------
Init ==
    /\ setup \in DOMAIN Profiles
    /\ ex = [Booted(0) EXCEPT !.pending = IF profile.opened THEN <<>> ELSE @,
                              !.seq = IF profile.opened THEN @ + Len(Opening) ELSE @]
            @@ [boots |-> 0, changes |-> 0, tape |-> <<>>]
    /\ net = [md |-> <<>>, snap |-> <<>>, defs |-> <<>>, rounds |-> 0,
              faults |-> 0, disturbed |-> FALSE]
       \* An early observer was started before the exchange: its first recovery
       \* timed out and it has joined the group.  In an opened instance the market
       \* is open and what that published has been sent.
    /\ obs = [phase |-> IF profile.early THEN "listening" ELSE "off",
              id |-> IF profile.early THEN profile.asked ELSE 0, found |-> {},
              bids |-> <<>>, asks |-> <<>>, trades |-> <<>>, open |-> 0, high |-> 0,
              low |-> 0, close |-> 0, volume |-> 0, gaps |-> 0, errors |-> 0,
              state |-> IF profile.early /\ profile.opened THEN "OPEN" ELSE "NONE",
              last_seq |-> IF profile.early /\ profile.opened THEN ex.seq - 1 ELSE 0,
              buffered |-> NoPacket, timeouts |-> 0]
    /\ missed = {}
    /\ shm = [rings |-> <<publish(<<>>, Opening)>>, seg |-> 1, unlinked |-> FALSE,
              dropped |-> Len(Opening) > RingCapacity]
    /\ view = [seg |-> 0, boot |-> 0, book |-> NoLevels]

Call ==
    \E n \in Products, side \in Sides :
        \/ \E price \in profile.prices[side], qty \in profile.qtys : Rest(n, side, price, qty)
        \/ \E qty \in profile.qtys : Hit(n, side, qty)
        \/ \E i \in 1 .. profile.changes : side = "Buy" /\ Cancel(n, i)

Exchange == Call \/ send \/ publish_secdefs \/ publish_snapshots \/ serve_snapshot
            \/ Stop \/ Crash \/ Restart
Observer == StartObserver \/ discover \/ discover_timeout \/ recover \/ recover_timeout
            \/ join_group \/ receive
Viewer == ShmConsumer \/ Poll

Next == (profile.observer /\ Observer) \/ Exchange \/ Viewer

Spec == Init /\ [][Next]_vars

-----------------------------------------------------------------------------
(* Properties.                                                             *)

\* The observer has handled the last packet the exchange sent.
CaughtUp ==
    /\ ex.up /\ ex.pending = <<>>
    /\ obs.phase = "listening" /\ net.md = <<>>
    /\ obs.last_seq = ex.seq - 1

\* What discovery may find of a product.
Configured(product) ==
    InstrumentInfo(
        product.instrument_id, product.tick_size, product.lot_size, product.max_order_size,
        IF profile.venue = "ice" /\ product.match_algo = 1 THEN "P" ELSE "F",
        IF profile.venue = "krx" THEN ProductGroups[product.product_group + 1] ELSE "")

\* Every datagram and frame on its way is a message of the venue's schema that
\* its decoder accepts whole, the observer counts no decode error, the sides and
\* states it shows are ones its screen has a name for, and what discovery finds is
\* what the exchange was configured with: tick, lot and maximum sizes survive the
\* conversion to the wire and back (the encoders, decoders, visitors and secdef
\* consumers of the three venues).
WireSound ==
    /\ obs.errors = 0
    /\ obs.state \in {"NONE", "PRE_OPEN", "OPEN", "PRE_CLOSE", "POST_CLOSE", "CLOSED"}
    /\ \A i \in DOMAIN obs.trades : obs.trades[i].side \in {1, 2}
    /\ \A info \in obs.found : /\ info.security_id \in Products
                               /\ info = Configured(Product(info.security_id))
    /\ LET loads == {d.load : d \in Range(net.md)} \cup {s.load : s \in Range(net.snap)}
                    \cup Range(net.defs)
       IN  \A load \in loads :
             CASE profile.venue = "cme" -> /\ Mdp3!Mdp3Message(load)
                                           /\ Mdp3!Bytes(load) <= IF load.template = 53
                                                                 THEN Mdp3!MAX_SNAPSHOT_ENCODED_SIZE
                                                                 ELSE Mdp3!MAX_MDP3_ENCODED_SIZE
               [] profile.venue = "ice" -> \A i \in DOMAIN load : Impact!ImpactMessage(load[i])
               [] profile.venue = "krx" -> LET d == Fast!decode_message(load)
                                           IN  d.end = Len(load) + 1 /\ Fast!FastMessage(d.msg)

\* Each level the observer shows has the quantity the exchange has now.  The level
\* without a price that the top of an empty side leaves on a CME screen has none.
LevelsCurrent ==
    \A side \in Sides :
        LET levels == IF side = "Buy" THEN obs.bids ELSE obs.asks
        IN  \A i \in 1 .. Len(levels) :
                levels[i].qty * Lot = Total(ex.orders[1], side,
                                            levels[i].price \div Mdp3!ENGINE_TO_PRICE9_FACTOR)

\* Recovery makes up for the losses that can be noticed: an observer with a
\* recovery that has handled the last packet, and had every snapshot it waited for,
\* has by a snapshot whatever the network lost after a packet with a number other
\* than 0.  After number 0, or before the first packet, last_seq != 0 fails and a
\* gap goes unseen ("unnumbered").  And a CME observer that misses nothing shows no
\* stale level, though the snapshot it took may be newer than packets it applies
\* after it (exchange_observer.cc replays and goes on), provided that there is one
\* product: all products are published under the id of the first.
RecoveryExact ==
    (CaughtUp /\ profile.venue # "krx" /\ profile.recovery # "none" /\ obs.timeouts = 0) =>
        /\ \A m \in missed : m.why # "lost"
        /\ (profile.venue = "cme" /\ profile.products = 1 /\ missed = {}) => LevelsCurrent

\* The observer takes an undisturbed feed for what it is: it reports a gap only
\* if a packet was lost or overtaken, or the exchange was restarted.
GapsAreReal == (profile.venue # "krx" /\ obs.gaps > 0) => net.disturbed

\* Each trade shown is a trade of the exchange, with its price, size and side,
\* and none is shown twice: a packet that is buffered for a recovery is applied
\* once (the continue after the replay).
TradesCountedOnce ==
    LET price9 == IF profile.venue = "cme" THEN Mdp3!ENGINE_TO_PRICE9_FACTOR ELSE 1
        unit == IF profile.venue = "krx" THEN 1 ELSE Lot
        Shown(e) == [price |-> e.price * price9, qty |-> e.quantity \div unit,
                     side |-> IF e.aggressor_side = "Buy" THEN 1 ELSE 2]
        Count(seq, t) == Len(SelectSeq(seq, LAMBDA x : x = t))
        tape == [i \in DOMAIN ex.tape |-> Shown(ex.tape[i])]
    IN  /\ \A t \in Range(obs.trades) : Count(obs.trades, t) <= Count(tape, t)
        /\ obs.volume <= FoldSeq(LAMBDA t, n : n + t.qty, 0, tape)
        /\ obs.trades # <<>> => obs.low <= obs.close /\ obs.close <= obs.high

\* A viewer that has drained a ring which never overflowed shows no stale level
\* of a process that was not restarted since it attached (shm_listener.h,
\* OrderbookState::apply).
ViewExact ==
    (profile.shm /\ ex.up /\ view.seg = shm.seg /\ view.boot = ex.boots
        /\ shm.rings[shm.seg] = <<>> /\ ~shm.dropped) =>
        \A side \in Sides : \A price \in DOMAIN view.book[side] :
            view.book[side][price] = Total(ex.orders[1], side, price)

\* The same as GapsAreReal for KRX, whose snapshots carry a number: with no
\* packet lost the observer sees no gap ("Gap detection: if we see a sequence
\* gap, trigger recovery.", exchange_observer.cc).
KrxGapsAreReal == (profile.venue = "krx" /\ obs.gaps > 0) => net.disturbed
=============================================================================
