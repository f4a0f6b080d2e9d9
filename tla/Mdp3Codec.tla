----------------------------- MODULE Mdp3Codec -----------------------------
(***************************************************************************)
(* The MDP3 messages of CME market data: what the encoder writes of an     *)
(* engine event, a product or a book, and what the decoder hands to its    *)
(* visitor.  A message is its template, its root block with the block's    *)
(* length, and its repeating groups, each with the length of its header    *)
(* and of an entry, the count in its header, and the entries written.      *)
(* Fields that have one value or that nobody reads are left out: times,    *)
(* rptSeq, order ids, currencies, text, the null limits of a definition.   *)
(***************************************************************************)
EXTENDS Integers, Sequences

PRICE_SCALE == 10000
ENGINE_TO_PRICE9_FACTOR == 100000

\* The null mantissa; no price of a model is that large.
INT64_NULL == 2147483647
INT32_NULL == 2147483646

MessageHeaderSize == 8
GroupHeaderSize == 3
GroupHeader8Size == 8
MAX_MDP3_ENCODED_SIZE == 512
MAX_SNAPSHOT_ENCODED_SIZE == 8192
MAX_MD_ENTRIES == 64
MAX_SNAPSHOT_ENTRIES == 256
MAX_EVENT_ENTRIES == 16
MAX_FEED_TYPE_ENTRIES == 8

-----------------------------------------------------------------------------
(* The schema.                                                             *)

MDUpdateAction == {"New", "Change", "Delete", "DeleteThru", "DeleteFrom", "Overlay"}
AggressorSide == 0 .. 2
MDEntryTypeBook == {"Bid", "Offer", "ImpliedBid", "ImpliedOffer", "BookReset"}
SecurityTradingStatus ==
    {"TradingHalt", "Close", "NewPriceIndication", "ReadyToTrade", "NotAvailableForTrading",
     "UnknownOrInvalid", "PreOpen", "PreCross", "Cross", "PostClose", "NoChange",
     "PrivateWorkup", "PublicWorkup"}

SecurityStatus30 == [security_id : Nat, security_trading_status : SecurityTradingStatus]
RefreshBookEntry ==
    [md_entry_px : Int, md_entry_size : Nat, security_id : Nat, number_of_orders : Nat,
     md_update_action : MDUpdateAction, md_entry_type : MDEntryTypeBook]
TradeSummaryEntry ==
    [md_entry_px : Int, md_entry_size : Nat, security_id : Nat, aggressor_side : AggressorSide]
SnapshotFullRefreshOrderBook53 == [security_id : Nat]
SnapshotOrderBookEntry ==
    [md_entry_px : Int, md_display_qty : Nat, md_entry_type : MDEntryTypeBook]
MDInstrumentDefinitionFuture54 ==
    [security_id : Nat, tot_num_reports : Nat, min_price_increment : Nat, max_trade_vol : Nat]
InstrDefEventEntry == [event_type : {"Activation", "LastEligibleTradeDate"}]
InstrDefFeedTypeEntry == [md_feed_type : STRING, market_depth : Nat]
InstrDefLotTypeEntry == [lot_type : Nat, min_lot_size : Nat]

Entries(m, i, Type) == \A k \in DOMAIN m.groups[i].entries : m.groups[i].entries[k] \in Type

\* What the feed's channels may carry.
Mdp3Message(m) ==
    CASE m.template = 30 -> m.root \in SecurityStatus30
      [] m.template = 46 -> Entries(m, 1, RefreshBookEntry)
      [] m.template = 48 -> Entries(m, 1, TradeSummaryEntry)
      [] m.template = 53 -> /\ m.root \in SnapshotFullRefreshOrderBook53
                            /\ Entries(m, 1, SnapshotOrderBookEntry)
      [] m.template = 54 -> /\ m.root \in MDInstrumentDefinitionFuture54
                            /\ Entries(m, 1, InstrDefEventEntry)
                            /\ Entries(m, 2, InstrDefFeedTypeEntry)
                            /\ Entries(m, 4, InstrDefLotTypeEntry)

-----------------------------------------------------------------------------
(* Conversions.                                                            *)

engine_price_to_price9(p) == p * ENGINE_TO_PRICE9_FACTOR
engine_price_to_pricenull9(p) == IF p = 0 THEN INT64_NULL ELSE p * ENGINE_TO_PRICE9_FACTOR
engine_qty_to_wire(q) == q \div PRICE_SCALE

encode_md_update_action(a) ==
    CASE a = "Add" -> "New" [] a = "Update" -> "Change" [] a = "Remove" -> "Delete"
encode_md_entry_type_book(side) == IF side = "Buy" THEN "Bid" ELSE "Offer"
encode_aggressor_side(side) == IF side = "Buy" THEN 1 ELSE 2

encode_security_trading_status(state) ==
    CASE state = "Closed"         -> "Close"
      [] state = "PreOpen"        -> "PreOpen"
      [] state = "OpeningAuction" -> "PreCross"
      [] state = "Continuous"     -> "ReadyToTrade"
      [] state = "PreClose"       -> "PostClose"
      [] state = "ClosingAuction" -> "Cross"
      [] state \in {"Halt", "LockLimit"} -> "TradingHalt"
      [] state = "VolatilityAuction" -> "PreCross"

-----------------------------------------------------------------------------
(* The encoder.  Every group is written with the size of its entries.      *)

Group(header, block, entries) ==
    [header |-> header, block |-> block, num |-> Len(entries), entries |-> entries]

make_header(template, block, root, groups) ==
    [template |-> template, block |-> block, root |-> root, groups |-> groups]

NoRoot == [match_event_indicator |-> 128]
NoOrderIDEntries(block) == Group(GroupHeader8Size, block, <<>>)

BookEntry(price, qty, id, orders, action, side) ==
    [md_entry_px |-> price, md_entry_size |-> engine_qty_to_wire(qty), security_id |-> id,
     number_of_orders |-> orders, md_update_action |-> action,
     md_entry_type |-> encode_md_entry_type_book(side)]

RefreshBook(entries) ==
    make_header(46, 11, NoRoot, <<Group(GroupHeaderSize, 32, entries), NoOrderIDEntries(24)>>)

encode_depth_update(evt, id) ==
    RefreshBook(<<BookEntry(engine_price_to_price9(evt.price), evt.total_qty, id,
                            evt.order_count, encode_md_update_action(evt.action), evt.side)>>)

\* An empty side has the null price.
encode_top_of_book(evt, id) ==
    RefreshBook(<<BookEntry(engine_price_to_pricenull9(evt.best_bid), evt.bid_qty, id,
                            INT32_NULL, "Change", "Buy"),
                  BookEntry(engine_price_to_pricenull9(evt.best_ask), evt.ask_qty, id,
                            INT32_NULL, "Change", "Sell")>>)

encode_trade(evt, id) ==
    make_header(48, 11, NoRoot,
        <<Group(GroupHeaderSize, 32,
                <<[md_entry_px |-> engine_price_to_price9(evt.price),
                   md_entry_size |-> engine_qty_to_wire(evt.quantity), security_id |-> id,
                   aggressor_side |-> encode_aggressor_side(evt.aggressor_side)]>>),
          NoOrderIDEntries(16)>>)

encode_market_status(evt, id) ==
    make_header(30, 30, [security_id |-> id,
                         security_trading_status |-> encode_security_trading_status(evt.state)],
                <<>>)

encode_instrument_definition(product, tot_num_reports) ==
    make_header(54, 224,
        [security_id |-> product.instrument_id, tot_num_reports |-> tot_num_reports,
         min_price_increment |-> engine_price_to_price9(product.tick_size),
         max_trade_vol |-> engine_qty_to_wire(product.max_order_size)],
        <<Group(GroupHeaderSize, 9, <<[event_type |-> "Activation"]>>),
          Group(GroupHeaderSize, 4, <<[md_feed_type |-> "GBX", market_depth |-> 10]>>),
          Group(GroupHeaderSize, 4, <<>>),
          Group(GroupHeaderSize, 5, <<[lot_type |-> 1,
                                       min_lot_size |-> product.lot_size \div PRICE_SCALE]>>)>>)

\* Every level is written, but the count, a byte, stops at 255.
encode_snapshot(security_id, levels) ==
    LET entries == [i \in DOMAIN levels |->
                      [md_entry_px |-> engine_price_to_price9(levels[i].price),
                       md_display_qty |-> engine_qty_to_wire(levels[i].qty),
                       md_entry_type |-> encode_md_entry_type_book(levels[i].side)]]
    IN  make_header(53, 28, [security_id |-> security_id],
            <<[Group(GroupHeaderSize, 29, entries) EXCEPT !.num = IF @ > 255 THEN 255 ELSE @]>>)

\* The length of a message, in bytes.
GroupBytes(g) == g.header + g.block * Len(g.entries)
Bytes(m) == MessageHeaderSize + m.block
            + (IF Len(m.groups) > 0 THEN GroupBytes(m.groups[1]) ELSE 0)
            + (IF Len(m.groups) > 1 THEN GroupBytes(m.groups[2]) ELSE 0)
            + (IF Len(m.groups) > 2 THEN GroupBytes(m.groups[3]) + GroupBytes(m.groups[4]) ELSE 0)

-----------------------------------------------------------------------------
(* The decoder, given the len bytes of m that were received.  groups lists *)
(* the entry size and the capacity of the groups the template has.         *)

\* A group at the front of the remaining bytes.
decode_group(g, size, max, remaining) ==
    CASE remaining < g.header -> "kBufferTooShort"
      [] g.num > max -> "kGroupOverflow"
      [] g.num > 0 /\ g.block < size -> "kBadBlockLength"
      [] remaining - g.header < g.num * g.block -> "kBufferTooShort"
      [] OTHER -> "kOk"

\* The bytes left in front of the i-th group.
Remaining(m, len, i) ==
    LET Read(k) == IF k < i THEN m.groups[k].header + m.groups[k].num * m.groups[k].block ELSE 0
    IN  len - m.block - Read(1) - Read(2) - Read(3)

\* The first result that is not kOk.
Outcome(results) ==
    LET Bad == {i \in DOMAIN results : results[i] # "kOk"}
    IN  IF Bad = {} THEN "kOk" ELSE results[CHOOSE i \in Bad : \A j \in Bad : i <= j]

decode_groups(m, len, size, sizes, maxima) ==
    CASE len < m.block -> "kBufferTooShort"
      [] m.block < size -> "kBadBlockLength"
      [] OTHER -> Outcome([i \in DOMAIN sizes |->
                    decode_group(m.groups[i], sizes[i], maxima[i], Remaining(m, len, i))])

decode_security_status_30(m, len) == decode_groups(m, len, 30, <<>>, <<>>)
decode_refresh_book_46(m, len) ==
    decode_groups(m, len, 11, <<32, 24>>, <<MAX_MD_ENTRIES, MAX_MD_ENTRIES>>)
decode_trade_summary_48(m, len) ==
    decode_groups(m, len, 11, <<32, 16>>, <<MAX_MD_ENTRIES, MAX_MD_ENTRIES>>)
decode_snapshot_53(m, len) == decode_groups(m, len, 28, <<29>>, <<MAX_SNAPSHOT_ENTRIES>>)
decode_instrument_def_54(m, len) ==
    decode_groups(m, len, 224, <<9, 4, 4, 5>>,
                  <<MAX_EVENT_ENTRIES, MAX_FEED_TYPE_ENTRIES, MAX_FEED_TYPE_ENTRIES,
                    MAX_FEED_TYPE_ENTRIES>>)

\* What the visitor is given when the result is kOk.
Visited(m, result) ==
    [result |-> result, template |-> m.template, root |-> m.root,
     groups |-> IF result # "kOk" THEN <<>>
                ELSE [i \in DOMAIN m.groups |->
                        SubSeq(m.groups[i].entries, 1, m.groups[i].num)]]

decode_mdp3_message(m, len) ==
    LET body == len - MessageHeaderSize
    IN  Visited(m, CASE len < MessageHeaderSize -> "kBufferTooShort"
                     [] m.template = 30 -> decode_security_status_30(m, body)
                     [] m.template = 46 -> decode_refresh_book_46(m, body)
                     [] m.template = 48 -> decode_trade_summary_48(m, body)
                     [] m.template = 53 -> decode_snapshot_53(m, body)
                     [] m.template = 54 -> decode_instrument_def_54(m, body)
                     [] OTHER -> "kUnknownTemplateId")
=============================================================================
