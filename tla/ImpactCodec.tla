---------------------------- MODULE ImpactCodec ----------------------------
(***************************************************************************)
(* The iMpact messages of ICE market data.  A datagram is a bundle: the    *)
(* sequence of its messages, each a record with its type.  An encoder      *)
(* returns the empty sequence where the code returns 0, because a message  *)
(* did not fit in the buffer.  Timestamps, order and deal ids, text and    *)
(* the counters within a message, which nobody reads, are left out.        *)
(***************************************************************************)
EXTENDS Integers, Sequences, SequencesExt

PRICE_SCALE == 10000
MAX_IMPACT_ENCODED_SIZE == 128
SnapshotBuffer == 16384     \* the buffer of the snapshot server
ImpactMessageHeaderSize == 3

-----------------------------------------------------------------------------
(* The schema.                                                             *)

Side == 0 .. 1
TradingStatus == {"PreOpen", "Continuous", "Halt", "Closed", "Settlement"}

BundleStart == [type : {"BundleStart"}, sequence_number : Nat, message_count : Nat]
BundleEnd == [type : {"BundleEnd"}, sequence_number : Nat]
DealTrade == [type : {"DealTrade"}, instrument_id : Nat, price : Int, quantity : Nat,
              aggressor_side : Side]
MarketStatus == [type : {"MarketStatus"}, instrument_id : Nat, trading_status : TradingStatus]
SnapshotOrder == [type : {"SnapshotOrder"}, instrument_id : Nat, side : Side, price : Int,
                  quantity : Nat]
PriceLevel == [type : {"PriceLevel"}, instrument_id : Nat, side : Side, price : Int,
               quantity : Nat, order_count : Nat]
InstrumentDefinition ==
    [type : {"InstrumentDefinition"}, instrument_id : Nat, tick_size : Nat, lot_size : Nat,
     max_order_size : Nat, match_algo : 0 .. 1]

ImpactMessage(m) ==
    \/ m \in BundleStart \/ m \in BundleEnd \/ m \in DealTrade \/ m \in MarketStatus
    \/ m \in SnapshotOrder \/ m \in PriceLevel \/ m \in InstrumentDefinition

\* wire_size of a message's type
wire_size(m) ==
    ImpactMessageHeaderSize
    + CASE m.type = "BundleStart" -> 14
        [] m.type = "BundleEnd" -> 4
        [] m.type = "DealTrade" -> 33
        [] m.type = "MarketStatus" -> 5
        [] m.type = "SnapshotOrder" -> 29
        [] m.type = "PriceLevel" -> 19
        [] m.type = "InstrumentDefinition" -> 89

BundleBytes(msgs) == FoldLeft(LAMBDA n, m : n + wire_size(m), 0, msgs)

-----------------------------------------------------------------------------
(* Conversions.                                                            *)

engine_price_to_wire(p) == p
engine_qty_to_wire(q) == q \div PRICE_SCALE
encode_side(s) == IF s = "Buy" THEN 0 ELSE 1

encode_trading_status(state) ==
    CASE state \in {"PreOpen", "OpeningAuction"} -> "PreOpen"
      [] state = "Continuous" -> "Continuous"
      [] state \in {"Halt", "VolatilityAuction", "LockLimit"} -> "Halt"
      [] state \in {"Closed", "PreClose", "ClosingAuction"} -> "Closed"

-----------------------------------------------------------------------------
(* The encoder.                                                            *)

write_bundle_start(seq_num, msg_count) ==
    [type |-> "BundleStart", sequence_number |-> seq_num, message_count |-> msg_count]
write_bundle_end(seq_num) == [type |-> "BundleEnd", sequence_number |-> seq_num]

\* encode, message after message: nothing is sent unless all fit.
Encoded(buf_len, msgs) == IF BundleBytes(msgs) <= buf_len THEN msgs ELSE <<>>

Bundled(buf_len, seq, msg) ==
    Encoded(buf_len, <<write_bundle_start(seq, 1), msg, write_bundle_end(seq)>>)

encode_depth_update(evt, instrument_id, seq) ==
    Bundled(MAX_IMPACT_ENCODED_SIZE, seq,
            [type |-> "PriceLevel", instrument_id |-> instrument_id,
             side |-> encode_side(evt.side), price |-> engine_price_to_wire(evt.price),
             quantity |-> engine_qty_to_wire(evt.total_qty), order_count |-> evt.order_count])

encode_trade(evt, instrument_id, seq) ==
    Bundled(MAX_IMPACT_ENCODED_SIZE, seq,
            [type |-> "DealTrade", instrument_id |-> instrument_id,
             price |-> engine_price_to_wire(evt.price),
             quantity |-> engine_qty_to_wire(evt.quantity),
             aggressor_side |-> encode_side(evt.aggressor_side)])

encode_market_status(evt, instrument_id, seq) ==
    Bundled(MAX_IMPACT_ENCODED_SIZE, seq,
            [type |-> "MarketStatus", instrument_id |-> instrument_id,
             trading_status |-> encode_trading_status(evt.state)])

encode_instrument_definition(product, seq) ==
    Bundled(MAX_IMPACT_ENCODED_SIZE, seq,
            [type |-> "InstrumentDefinition", instrument_id |-> product.instrument_id,
             tick_size |-> product.tick_size, lot_size |-> product.lot_size,
             max_order_size |-> product.max_order_size, match_algo |-> product.match_algo])

encode_snapshot_side(instrument_id, side, levels) ==
    [i \in DOMAIN levels |->
        [type |-> "SnapshotOrder", instrument_id |-> instrument_id, side |-> encode_side(side),
         price |-> engine_price_to_wire(levels[i].price),
         quantity |-> engine_qty_to_wire(levels[i].qty)]]

\* Number 0 in the last message marks the end of a snapshot.
encode_snapshot_orders(instrument_id, bids, asks, seq) ==
    Encoded(SnapshotBuffer,
            <<write_bundle_start(seq, Len(bids) + Len(asks))>>
            \o encode_snapshot_side(instrument_id, "Buy", bids)
            \o encode_snapshot_side(instrument_id, "Sell", asks)
            \o <<write_bundle_end(0)>>)

-----------------------------------------------------------------------------
(* The decoder: the messages that lie wholly within the first len bytes,   *)
(* in order.                                                               *)

decode_messages(msgs, len) ==
    LET Whole == {n \in 0 .. Len(msgs) : BundleBytes(SubSeq(msgs, 1, n)) <= len}
    IN  SubSeq(msgs, 1, CHOOSE n \in Whole : \A k \in Whole : k <= n)
=============================================================================
