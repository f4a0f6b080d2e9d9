---------------------------- MODULE FeedObserver ----------------------------
(***************************************************************************)
(* exchange_observer finds its instrument, takes a snapshot, joins the     *)
(* group, and takes a new snapshot when it sees a gap in the packet        *)
(* numbers.  Its DisplayState is the fields bids .. errors of obs; the     *)
(* screen, the journal and the log of transitions repeat what is in it.    *)
(***************************************************************************)
EXTENDS FeedExchange

-----------------------------------------------------------------------------
(* DisplayState.                                                           *)

\* update_book_side: replace, remove, or insert in order, dropping the worst
\* level when there are too many.
update_book_side(levels, side, e) ==
    LET at == {i \in 1 .. Len(levels) : levels[i].price = e.price}
        new == [price |-> e.price, qty |-> e.qty]
        before == Cardinality({i \in 1 .. Len(levels) :
                                  Better(side, levels[i].price, e.price)})
        inserted == InsertAt(levels, before + 1, new)
    IN  CASE e.delete /\ at = {} -> levels
          [] e.delete /\ at # {} -> RemoveAt(levels, Min(at))
          [] ~e.delete /\ at # {} -> [levels EXCEPT ![Min(at)] = new]
          [] OTHER -> SubSeq(inserted, 1, Min({BookDepth, Len(inserted)}))

ApplyEntry(o, e) ==
    IF e.is_bid THEN [o EXCEPT !.bids = update_book_side(@, "Buy", e)]
                ELSE [o EXCEPT !.asks = update_book_side(@, "Sell", e)]

ApplyEntries(o, entries) == FoldLeft(ApplyEntry, o, entries)

Entry(is_bid, price, qty, delete) ==
    [is_bid |-> is_bid, price |-> price, qty |-> qty, delete |-> delete]

\* record_trade: the last trades, oldest first, and open, high, low, close and
\* volume.  Aggressor 1 is a buyer, 2 a seller.
record_trade(o, price, qty, aggressor) ==
    LET all == Append(o.trades, [price |-> price, qty |-> qty, side |-> aggressor])
    IN  [o EXCEPT !.trades = SubSeq(all, Max({1, Len(all) - TradeDepth + 1}), Len(all)),
                  !.open = IF @ = 0 THEN price ELSE @,
                  !.high = Max({@, price}),
                  !.low = IF @ = 0 THEN price ELSE Min({@, price}),
                  !.close = price, !.volume = @ + qty]

-----------------------------------------------------------------------------
(* The visitors: what a decoded message does to the display.               *)

CmeRefreshBook(o, entries) ==
    ApplyEntries(o, LET mine == SelectSeq(entries, LAMBDA e : e.security_id = o.id)
                    IN  [i \in DOMAIN mine |->
                           Entry(mine[i].md_entry_type \in {"Bid", "ImpliedBid"},
                                 mine[i].md_entry_px, mine[i].md_entry_size,
                                 mine[i].md_update_action \in {"Delete", "DeleteThru", "DeleteFrom"})])

CmeTradeSummary(o, entries) ==
    FoldLeft(LAMBDA d, e : record_trade(d, e.md_entry_px, e.md_entry_size, e.aggressor_side),
             o, SelectSeq(entries, LAMBDA e : e.security_id = o.id))

CmeSecurityStatus(o, root) ==
    IF root.security_id # o.id THEN o
    ELSE [o EXCEPT !.state =
            CASE root.security_trading_status = "ReadyToTrade" -> "OPEN"
              [] root.security_trading_status = "TradingHalt" -> "HALT"
              [] root.security_trading_status = "Close" -> "CLOSED"
              [] root.security_trading_status = "PreOpen" -> "PRE_OPEN"
              [] root.security_trading_status = "PostClose" -> "POST_CLOSE"
              [] OTHER -> "UNKNOWN"]

\* Snapshots and definitions are ignored.
CmeVisitor(o, m) ==
    CASE m.template = 46 -> CmeRefreshBook(o, m.groups[1])
      [] m.template = 48 -> CmeTradeSummary(o, m.groups[1])
      [] m.template = 30 -> CmeSecurityStatus(o, m.root)
      [] OTHER -> o

IceDealTrade(o, m) ==
    record_trade(o, m.price, m.quantity, IF m.aggressor_side = 0 THEN 1 ELSE 2)

IceMarketStatus(o, m) ==
    [o EXCEPT !.state = CASE m.trading_status = "Continuous" -> "OPEN"
                          [] m.trading_status = "Halt" -> "HALT"
                          [] m.trading_status = "Closed" -> "CLOSED"
                          [] m.trading_status = "PreOpen" -> "PRE_OPEN"
                          [] m.trading_status = "Settlement" -> "SETTLEMENT"]

\* on_price_level does nothing: the feed never changes the book ICE shows.
IceVisitor(o, m) ==
    CASE m.type = "DealTrade" /\ m.instrument_id = o.id -> IceDealTrade(o, m)
      [] m.type = "MarketStatus" /\ m.instrument_id = o.id -> IceMarketStatus(o, m)
      [] OTHER -> o

\* A quote is shown as one more level per side; an empty side changes nothing.
KrxQuote(o, m) ==
    LET Quoted(is_bid, price, qty) ==
          IF price = 0 THEN <<>> ELSE <<Entry(is_bid, price, qty, FALSE)>>
    IN  ApplyEntries(o, Quoted(TRUE, m.bid_price, m.bid_qty) \o Quoted(FALSE, m.ask_price, m.ask_qty))

\* Mutant: the wire's side, 0 or 1, is shown as it is.
KrxTradeRaw(o, m) == record_trade(o, m.price, m.quantity, m.aggressor_side)

KrxTrade(o, m) ==
    record_trade(o, m.price, m.quantity, IF m.aggressor_side = 0 THEN 1 ELSE 2)

KrxStatus(o, m) ==
    [o EXCEPT !.state = <<"CLOSED", "PRE_OPEN", "OPENING_AUCTION", "OPEN", "PRE_CLOSE",
                          "CLOSING_AUCTION", "HALT", "VI_AUCTION", "LOCK_LIMIT">>[m.session_state + 1]]

\* No message names an instrument, and none is filtered out.
KrxVisitor(o, m) ==
    CASE m.template = 1 -> KrxQuote(o, m)
      [] m.template = 2 -> KrxTrade(o, m)
      [] m.template = 3 -> KrxStatus(o, m)
      [] OTHER -> o

Undecodable(o) == [o EXCEPT !.errors = @ + 1]

Mdp3Decoded(load) == Mdp3!decode_mdp3_message(load, Mdp3!Bytes(load))
ImpactDecoded(load) == Impact!decode_messages(load, Impact!BundleBytes(load))

\* A datagram of the market data channel is decoded and visited.
Visit(o, load) ==
    LET Cme(d) == CASE d.result = "kOk" -> CmeVisitor(o, d)
                    [] d.result = "kUnknownTemplateId" -> o
                    [] OTHER -> Undecodable(o)
        Krx(d) == IF d.end # 0 THEN KrxVisitor(o, d.msg) ELSE Undecodable(o)
        Ice(msgs) == IF msgs = <<>> THEN Undecodable(o) ELSE FoldLeft(IceVisitor, o, msgs)
    IN  CASE profile.venue = "cme" -> Cme(Mdp3Decoded(load))
          [] profile.venue = "krx" -> Krx(Fast!decode_message(load))
          [] profile.venue = "ice" -> Ice(ImpactDecoded(load))

-----------------------------------------------------------------------------
(* Recovery: a datagram or frame of the snapshot channel is applied if it  *)
(* is a snapshot of the instrument, and waited past if it is not.          *)

Cleared(o) == [o EXCEPT !.bids = <<>>, !.asks = <<>>]

CmeSnapshotEntries(entries) ==
    [i \in DOMAIN entries |->
        Entry(entries[i].md_entry_type = "Bid", entries[i].md_entry_px,
              entries[i].md_display_qty, FALSE)]

\* Mutant: takes a number for the last packet's, as KRX's does.
CmeApplySnapshotNumbered(o, entries) ==
    ApplyEntries([Cleared(o) EXCEPT !.last_seq = 1], CmeSnapshotEntries(entries))

\* Mutant: the levels shown before stay, as at ICE.
CmeApplySnapshotKeeps(o, entries) == ApplyEntries(o, CmeSnapshotEntries(entries))

\* CmeRecovery::apply_snapshot: clears the book and fills it again.
CmeApplySnapshot(o, entries) == ApplyEntries(Cleared(o), CmeSnapshotEntries(entries))

\* KrxRecovery::apply_snapshot: clears the book, and takes the snapshot
\* channel's number for the number of the last packet.
KrxApplySnapshot(o, snap) ==
    LET Shown(ls) == [i \in 1 .. Min({BookDepth, Len(ls)}) |->
                         [price |-> ls[i].price, qty |-> ls[i].quantity]]
    IN  [o EXCEPT !.bids = Shown(snap.bids), !.asks = Shown(snap.asks), !.last_seq = snap.seq_num]

\* IceRecovery's SnapshotVisitor: sets the levels of the answer, and keeps
\* every other level the book shows.
IceSnapshotVisitor(o, m) ==
    IF m.type = "SnapshotOrder" /\ m.instrument_id = o.id
    THEN ApplyEntry(o, Entry(m.side = 0, m.price, m.quantity, FALSE)) ELSE o

\* Each strategy's recover, on what it receives: is it the snapshot, and what
\* does the display become?
CmeRecovery(o, load) ==
    LET Take(d) == IF d.template = 53 /\ d.result = "kOk" /\ d.root.security_id = o.id
                   THEN [found |-> TRUE, display |-> CmeApplySnapshot(o, d.groups[1])]
                   ELSE [found |-> FALSE]
    IN  Take(Mdp3Decoded(load))

KrxRecovery(o, load) ==
    LET Take(d) == IF d.end # 0 /\ d.msg.template = 6 /\ d.msg.instrument_id = o.id
                   THEN [found |-> TRUE, display |-> KrxApplySnapshot(o, d.msg)]
                   ELSE [found |-> FALSE]
    IN  Take(Fast!decode_message(load))

IceRecovery(o, load) ==
    [found |-> TRUE, display |-> FoldLeft(IceSnapshotVisitor, o, ImpactDecoded(load))]

\* create_recovery_strategy: "snapshot" is KRX's or else CME's, "tcp" is ICE's.
create_recovery_strategy(o, load) ==
    CASE profile.recovery = "snapshot" /\ profile.venue = "krx" -> KrxRecovery(o, load)
      [] profile.recovery = "snapshot" /\ profile.venue # "krx" -> CmeRecovery(o, load)
      [] profile.recovery = "tcp" -> IceRecovery(o, load)

-----------------------------------------------------------------------------
(* Discovery: a definition becomes an InstrumentInfo.                      *)

InstrumentInfo(id, tick, lot, max, algorithm, group) ==
    [security_id |-> id, tick_size |-> tick, lot_size |-> lot, max_order_size |-> max,
     match_algorithm |-> algorithm, product_group |-> group]

\* discover of each consumer, on one datagram: the instruments found by then,
\* and the total the first definition announced (0 where there is none).
CmeSecdef(found, load) ==
    LET LotSize(lots) == IF lots = <<>> THEN Lot ELSE lots[1].min_lot_size * Lot
        Info(root, lots) ==
            InstrumentInfo(root.security_id,
                           root.min_price_increment \div Mdp3!ENGINE_TO_PRICE9_FACTOR,
                           LotSize(SelectSeq(lots, LAMBDA l : l.lot_type = 1)),
                           root.max_trade_vol * Lot, "F", "")
        Take(d) == IF d.template = 54 /\ d.result = "kOk"
                   THEN [found |-> found \cup {Info(d.root, d.groups[4])},
                         total |-> d.root.tot_num_reports]
                   ELSE [found |-> found, total |-> 0]
    IN  Take(Mdp3Decoded(load))

IceSecdef(found, load) ==
    LET defs == SelectSeq(ImpactDecoded(load), LAMBDA m : m.type = "InstrumentDefinition")
        known == {info.security_id : info \in found}
    IN  [found |-> found \cup {InstrumentInfo(m.instrument_id, m.tick_size, m.lot_size,
                                              m.max_order_size,
                                              IF m.match_algo = 0 THEN "F" ELSE "P", "")
                               : m \in {d \in Range(defs) : d.instrument_id \notin known}},
         total |-> 0]

ProductGroups == <<"Futures", "Options", "FX", "Bond">>

KrxSecdef(found, load) ==
    LET Group(n) == IF n < 4 THEN ProductGroups[n + 1] ELSE "Unknown"
        Info(def) == InstrumentInfo(def.instrument_id, def.tick_size, def.lot_size,
                                    def.max_order_size, "F", Group(def.product_group))
        Take(d) == IF d.end # 0 /\ d.msg.template = 5
                   THEN [found |-> found \cup {Info(d.msg)}, total |-> d.msg.total_instruments]
                   ELSE [found |-> found, total |-> 0]
    IN  Take(Fast!decode_message(load))

SecdefConsumer(found, load) ==
    CASE profile.venue = "cme" -> CmeSecdef(found, load)
      [] profile.venue = "ice" -> IceSecdef(found, load)
      [] profile.venue = "krx" -> KrxSecdef(found, load)

-----------------------------------------------------------------------------
(* The process: main and the receive loop.                                 *)

NoPacket == [seq |-> 0, idx |-> 0, load |-> <<>>]

\* parse_args: an instrument or discovery, and the venue's kind of recovery.
parse_args(cfg) ==
    /\ cfg.asked # 0 \/ cfg.discover
    /\ cfg.venue \in {"cme", "ice", "krx"}
    /\ cfg.recovery \in {"none", "snapshot", "tcp"}
    /\ cfg.venue \in {"cme", "krx"} => cfg.recovery # "tcp"
    /\ cfg.venue = "ice" => cfg.recovery # "snapshot"

AfterResolve == IF profile.recovery = "none" THEN "joining" ELSE "snapshot"

\* Without discovery the instrument is looked up in the venue's product table.
StartObserver ==
    /\ obs.phase = "off"
    /\ obs' = CASE ~parse_args(profile) -> [obs EXCEPT !.phase = "exited"]
                [] parse_args(profile) /\ profile.discover -> [obs EXCEPT !.phase = "discovering"]
                [] OTHER -> [obs EXCEPT !.phase = AfterResolve, !.id = profile.asked]
    /\ UNCHANGED <<setup, ex, net, missed, shm, view>>

\* What main does with the instruments discover returns.
Resolve(o) ==
    LET found == {info.security_id : info \in o.found}
    IN  CASE profile.asked \in found -> [o EXCEPT !.phase = AfterResolve, !.id = profile.asked]
          [] profile.asked = 0 /\ Cardinality(found) = 1 ->
                [o EXCEPT !.phase = AfterResolve, !.id = CHOOSE n \in found : TRUE]
          [] OTHER -> [o EXCEPT !.phase = "exited"]

\* discover: a definition arrives.  CME and KRX stop at the announced total.
discover ==
    /\ obs.phase = "discovering" /\ net.defs # <<>>
    /\ LET Enough(heard) == heard.total > 0 /\ Cardinality(heard.found) >= heard.total
           After(heard, o) == IF Enough(heard) THEN Resolve(o) ELSE o
           Heard(heard) == After(heard, [obs EXCEPT !.found = heard.found])
       IN  obs' = Heard(SecdefConsumer(obs.found, Head(net.defs)))
    /\ net' = [net EXCEPT !.defs = IF obs'.phase = "discovering" THEN Tail(@) ELSE <<>>]
    /\ UNCHANGED <<setup, ex, missed, shm, view>>

\* No definition for 35 s (5 s at ICE once one was found).
discover_timeout ==
    /\ obs.phase = "discovering" /\ net.defs = <<>>
    /\ obs.timeouts < profile.timeouts
    /\ obs' = [Resolve(obs) EXCEPT !.timeouts = @ + 1]
    /\ UNCHANGED <<setup, ex, net, missed, shm, view>>

\* Mutant: the packet is replayed and then decoded as if there had been no gap.
RecoveredTwice(o) ==
    IF o.phase = "snapshot" THEN [o EXCEPT !.phase = "joining"]
    ELSE [Visit(Visit(o, o.buffered.load), o.buffered.load) EXCEPT !.phase = "listening", !.buffered = NoPacket]

\* recover has returned: main joins the group, or replays the buffered packet,
\* and counts no decode error.
Recovered(o) ==
    IF o.phase = "snapshot" THEN [o EXCEPT !.phase = "joining"]
    ELSE [Visit(o, o.buffered.load) EXCEPT !.phase = "listening", !.buffered = NoPacket,
                                           !.errors = o.errors]

\* What a snapshot does not make up for: what is newer than the snapshot, and
\* what is newer than the packet about to be replayed over it.
Outstanding(snap) ==
    {m \in missed : m.idx > snap.upto \/ (obs.phase = "resnap" /\ m.idx > obs.buffered.idx)}

recover ==
    /\ Recovering /\ net.snap # <<>>
    /\ \E result \in {create_recovery_strategy(obs, Head(net.snap).load)} :
          IF result.found
          THEN /\ net' = [net EXCEPT !.snap = <<>>]
               /\ obs' = Recovered(result.display)
               /\ missed' = Outstanding(Head(net.snap))
          ELSE /\ net' = [net EXCEPT !.snap = Tail(@)]
               /\ UNCHANGED <<obs, missed>>
    /\ UNCHANGED <<setup, ex, shm, view>>

\* recover: no snapshot came in time, the server is not there.
recover_timeout ==
    /\ Recovering /\ net.snap = <<>>
    /\ obs.timeouts < profile.timeouts
    /\ obs' = [Recovered(obs) EXCEPT !.timeouts = @ + 1]
    /\ UNCHANGED <<setup, ex, net, missed, shm, view>>

join_group ==
    /\ obs.phase = "joining"
    /\ obs' = [obs EXCEPT !.phase = "listening"]
    /\ UNCHANGED <<setup, ex, net, missed, shm, view>>

\* The receive loop: a packet whose number is not the next one is a gap; with a
\* recovery configured it is buffered until a new snapshot is in.
receive ==
    /\ obs.phase = "listening" /\ net.md # <<>>
    /\ LET p == Head(net.md)
           gap == obs.last_seq # 0 /\ p.seq # obs.last_seq + 1
           seen == [obs EXCEPT !.last_seq = p.seq, !.gaps = IF gap THEN @ + 1 ELSE @]
       IN  obs' = IF gap /\ profile.recovery # "none"
                  THEN [seen EXCEPT !.phase = "resnap", !.buffered = p]
                  ELSE Visit(seen, p.load)
    /\ net' = [net EXCEPT !.md = Tail(@)]
    /\ UNCHANGED <<setup, ex, missed, shm, view>>
=============================================================================
