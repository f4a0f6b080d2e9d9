----------------------------- MODULE FastCodec -----------------------------
(***************************************************************************)
(* The FAST encoding of KRX market data, byte by byte.  An integer is      *)
(* written in groups of GroupBits bits, most significant first, one group  *)
(* to a byte; the byte that has the stop bit is the last one.  A byte is a *)
(* number below 2 * Base whose stop bit weighs Base.  The code has groups  *)
(* of 7 bits and words of 64; an instance may choose smaller ones.         *)
(*                                                                         *)
(* Where the code returns nullptr or 0 an operator returns None, or an end *)
(* position of 0.  Positions count bytes from 1.                           *)
(***************************************************************************)
EXTENDS Integers, SequencesExt, FiniteSetsExt

CONSTANTS GroupBits,          \* data bits of a byte: 7
          WordBits,           \* bits of an integer: 64
          RawBytes,           \* the fixed-length text fields of a definition: 8 + 32
          kSnapshotBookDepth, \* levels per side of a full snapshot: 5
          kMaxFastEncodedSize

Base == 2^GroupBits
Word == 2^WordBits
kMaxStopBitBytes == (WordBits + GroupBits - 1) \div GroupBits
kMaxPmapBytes == 2
None == <<>>

-----------------------------------------------------------------------------
(* Integers.                                                               *)

\* The n lowest groups of v, the last with the stop bit.
GroupsOf(v, n) ==
    [i \in 1 .. n |-> ((v \div Base^(n - i)) % Base) + (IF i = n THEN Base ELSE 0)]

encode_u64(v) ==
    GroupsOf(v, Min({n \in 1 .. kMaxStopBitBytes : v \div Base^n = 0}))

\* Mutant: stops as soon as the rest is all sign, whatever bit the group leads with.
encode_i64_unsigned(v) ==
    GroupsOf(v, Min({n \in 1 .. kMaxStopBitBytes :
                        v \div Base^n \in {0, -1} \/ n = kMaxStopBitBytes}))

\* Stops when the rest is all sign and the leading bit of the last group says so.
encode_i64(v) ==
    LET Rest(n) == v \div Base^n
        Negative(n) == (v \div Base^(n - 1)) % Base >= Base \div 2
        Done(n) == (Rest(n) = 0 /\ ~Negative(n)) \/ (Rest(n) = -1 /\ Negative(n))
    IN  GroupsOf(v, Min({n \in 1 .. kMaxStopBitBytes : Done(n) \/ n = kMaxStopBitBytes}))

First(S) == IF S = {} THEN 0 ELSE Min(S)

\* The last byte of the integer that starts at from, 0 if it is cut or too long.
StopBit(bytes, from) ==
    First({i \in from .. Min({Len(bytes), from + kMaxStopBitBytes - 1}) : bytes[i] >= Base})

Shifted(start, bytes, from, to) ==
    FoldLeft(LAMBDA v, b : v * Base + (b % Base), start, SubSeq(bytes, from, to))

\* An integer that ends at last, if it ends.
Ending(last, value) == IF last = 0 THEN [end |-> 0] ELSE [end |-> last + 1, value |-> value]

decode_u64(bytes, from) ==
    LET Up(last) == Ending(last, Shifted(0, bytes, from, last) % Word)
    IN  Up(StopBit(bytes, from))

Signed(word) == IF word >= Word \div 2 THEN word - Word ELSE word

\* The first group's leading bit is the sign: the word starts as all ones.
decode_i64(bytes, from) ==
    LET sign == IF bytes[from] % Base >= Base \div 2 THEN -1 ELSE 0
        Up(last) == Ending(last, Signed(Shifted(sign, bytes, from, last) % Word))
    IN  Up(StopBit(bytes, from))

\* Nullable integers: a value is shifted by one to leave 0 to null.
encode_nullable_u64(v) == IF v = None THEN <<Base>> ELSE encode_u64((v[1] + 1) % Word)
encode_nullable_i64(v) ==
    IF v = None THEN <<Base>> ELSE encode_i64(IF v[1] >= 0 THEN v[1] + 1 ELSE v[1])

decode_nullable_u64(bytes, from) ==
    LET d == decode_u64(bytes, from)
    IN  IF d.end = 0 THEN d
        ELSE [d EXCEPT !.value = IF @ = 0 THEN None ELSE <<@ - 1>>]

decode_nullable_i64(bytes, from) ==
    IF from <= Len(bytes) /\ bytes[from] = Base THEN [end |-> from + 1, value |-> None]
    ELSE LET d == decode_i64(bytes, from)
         IN  IF d.end = 0 THEN d ELSE [d EXCEPT !.value = IF @ >= 0 THEN <<@ - 1>> ELSE <<@>>]

-----------------------------------------------------------------------------
(* The presence map: the set of the positions whose bit is set.            *)

PmapByte(pmap, i) ==
    MapThenSumSet(LAMBDA k : IF (i - 1) * GroupBits + k \in pmap THEN 2^(GroupBits - 1 - k) ELSE 0,
                  0 .. GroupBits - 1)

encode_pmap(pmap) ==
    LET n == Max({1} \cup {i \in 1 .. kMaxPmapBytes : PmapByte(pmap, i) # 0})
    IN  [i \in 1 .. n |-> PmapByte(pmap, i) + (IF i = n THEN Base ELSE 0)]

decode_pmap(bytes) ==
    LET Bit(pos) == (bytes[(pos \div GroupBits) + 1] \div 2^(GroupBits - 1 - (pos % GroupBits))) % 2
        Up(last) == Ending(last, {pos \in 0 .. last * GroupBits - 1 : Bit(pos) = 1})
    IN  Up(First({i \in 1 .. Min({Len(bytes), kMaxPmapBytes}) : bytes[i] >= Base}))

-----------------------------------------------------------------------------
(* Messages.  TemplateId numbers them; a message is a record of its fields *)
(* and its template.                                                       *)

FastQuote == [template : {1}, bid_price : Int, bid_qty : Int, ask_price : Int, ask_qty : Int,
              timestamp : Int]
FastTrade == [template : {2}, price : Int, quantity : Int, aggressor_side : {0, 1},
              timestamp : Int]
FastStatus == [template : {3}, session_state : Nat, timestamp : Int]
FastSnapshot == [template : {4}, bid_price : Int, bid_qty : Int, ask_price : Int, ask_qty : Int,
                 bid_count : Nat, ask_count : Nat, timestamp : Int]
FastInstrumentDef ==
    [template : {5}, instrument_id : Nat, symbol : Seq(Nat), product_group : Nat,
     tick_size : Int, lot_size : Int, max_order_size : Int, total_instruments : Nat,
     timestamp : Int]
FastSnapshotLevel == [price : Int, quantity : Int, order_count : Nat]
FastFullSnapshot ==
    [template : {6}, instrument_id : Nat, seq_num : Nat, bids : Seq(FastSnapshotLevel),
     asks : Seq(FastSnapshotLevel), timestamp : Int]

FastMessage(m) ==
    \/ m \in FastQuote \/ m \in FastTrade \/ m \in FastStatus
    \/ m \in FastSnapshot \/ m \in FastInstrumentDef
    \/ m \in FastFullSnapshot /\ \A side \in {m.bids, m.asks} : Len(side) <= kSnapshotBookDepth

-----------------------------------------------------------------------------
(* The encoder: presence map, template, fields; None if it does not fit.   *)

I(v) == encode_i64(v)
U(v) == encode_u64(v)

Encoded(template, fields) ==
    LET Fitting(bytes) == IF Len(bytes) <= kMaxFastEncodedSize THEN bytes ELSE None
    IN  Fitting(encode_pmap({0}) \o U(template) \o FlattenSeq(fields))

encode_quote(m) ==
    Encoded(1, <<I(m.bid_price), I(m.bid_qty), I(m.ask_price), I(m.ask_qty), I(m.timestamp)>>)

encode_trade(m) ==
    Encoded(2, <<I(m.price), I(m.quantity), U(m.aggressor_side), I(m.timestamp)>>)

encode_status(m) == Encoded(3, <<U(m.session_state), I(m.timestamp)>>)

encode_snapshot(m) ==
    Encoded(4, <<I(m.bid_price), I(m.bid_qty), I(m.ask_price), I(m.ask_qty),
                 U(m.bid_count), U(m.ask_count), I(m.timestamp)>>)

\* encode_bytes writes the text as it is, with no stop bits.
encode_instrument_def(m) ==
    Encoded(5, <<U(m.instrument_id), m.symbol, U(m.product_group), I(m.tick_size),
                 I(m.lot_size), I(m.max_order_size), U(m.total_instruments), I(m.timestamp)>>)

EncodedLevel(l) == I(l.price) \o I(l.quantity) \o U(l.order_count)
EncodedLevels(ls) == FlattenSeq([i \in DOMAIN ls |-> EncodedLevel(ls[i])])

encode_full_snapshot(m) ==
    Encoded(6, <<U(m.instrument_id), U(m.seq_num), U(Len(m.bids)), U(Len(m.asks)),
                 EncodedLevels(m.bids), EncodedLevels(m.asks), I(m.timestamp)>>)

-----------------------------------------------------------------------------
(* The decoder.                                                            *)

\* decode_bytes
decode_bytes(bytes, from) ==
    IF Len(bytes) - from + 1 < RawBytes THEN [end |-> 0]
    ELSE [end |-> from + RawBytes, value |-> SubSeq(bytes, from, from + RawBytes - 1)]

\* Fields of the given kinds, one after the other: their values, and the end.
Fields(bytes, from, kinds) ==
    LET Read(kind, at) == CASE kind = "i" -> decode_i64(bytes, at)
                            [] kind = "u" -> decode_u64(bytes, at)
                            [] kind = "b" -> decode_bytes(bytes, at)
        Add(v, d) == IF d.end = 0 THEN d ELSE [end |-> d.end, v |-> Append(v, d.value)]
    IN  FoldLeft(LAMBDA acc, kind : IF acc.end = 0 THEN acc ELSE Add(acc.v, Read(kind, acc.end)),
                 [end |-> from, v |-> <<>>], kinds)

\* The message Make(values), unless a field was cut off.
Decoded(fields, Make(_)) ==
    IF fields.end = 0 THEN [end |-> 0] ELSE [end |-> fields.end, msg |-> Make(fields.v)]

decode_quote_fields(bytes, from) ==
    Decoded(Fields(bytes, from, <<"i", "i", "i", "i", "i">>), LAMBDA v :
        [template |-> 1, bid_price |-> v[1], bid_qty |-> v[2], ask_price |-> v[3],
         ask_qty |-> v[4], timestamp |-> v[5]])

decode_trade_fields(bytes, from) ==
    Decoded(Fields(bytes, from, <<"i", "i", "u", "i">>), LAMBDA v :
        [template |-> 2, price |-> v[1], quantity |-> v[2], aggressor_side |-> v[3],
         timestamp |-> v[4]])

decode_status_fields(bytes, from) ==
    Decoded(Fields(bytes, from, <<"u", "i">>), LAMBDA v :
        [template |-> 3, session_state |-> v[1], timestamp |-> v[2]])

decode_snapshot_fields(bytes, from) ==
    Decoded(Fields(bytes, from, <<"i", "i", "i", "i", "u", "u", "i">>), LAMBDA v :
        [template |-> 4, bid_price |-> v[1], bid_qty |-> v[2], ask_price |-> v[3],
         ask_qty |-> v[4], bid_count |-> v[5], ask_count |-> v[6], timestamp |-> v[7]])

decode_instrument_def_fields(bytes, from) ==
    Decoded(Fields(bytes, from, <<"u", "b", "u", "i", "i", "i", "u", "i">>), LAMBDA v :
        [template |-> 5, instrument_id |-> v[1], symbol |-> v[2], product_group |-> v[3],
         tick_size |-> v[4], lot_size |-> v[5], max_order_size |-> v[6],
         total_instruments |-> v[7], timestamp |-> v[8]])

\* At most kSnapshotBookDepth levels of a side are read, whatever the count says.
decode_full_snapshot_fields(bytes, from) ==
    LET Depth(count) == Min({count, kSnapshotBookDepth})
        Kinds(levels) == FlattenSeq([i \in 1 .. levels |-> <<"i", "i", "u">>]) \o <<"i">>
        LevelsFrom(v, first, k) ==
            [i \in 1 .. k |-> [price |-> v[3 * (first + i) - 2], quantity |-> v[3 * (first + i) - 1],
                               order_count |-> v[3 * (first + i)]]]
        Rest(head, bids, asks) ==
            Decoded(Fields(bytes, head.end, Kinds(bids + asks)), LAMBDA v :
                [template |-> 6, instrument_id |-> head.v[1], seq_num |-> head.v[2],
                 bids |-> LevelsFrom(v, 0, bids), asks |-> LevelsFrom(v, bids, asks),
                 timestamp |-> v[Len(v)]])
        After(head) == IF head.end = 0 THEN head
                       ELSE Rest(head, Depth(head.v[3]), Depth(head.v[4]))
    IN  After(Fields(bytes, from, <<"u", "u", "u", "u">>))

\* One message at the front: [end, msg], end 0 if there is none.
decode_message(bytes) ==
    LET AfterId(id) ==
            CASE id.end = 0 -> id
              [] id.end # 0 /\ id.value = 1 -> decode_quote_fields(bytes, id.end)
              [] id.end # 0 /\ id.value = 2 -> decode_trade_fields(bytes, id.end)
              [] id.end # 0 /\ id.value = 3 -> decode_status_fields(bytes, id.end)
              [] id.end # 0 /\ id.value = 4 -> decode_snapshot_fields(bytes, id.end)
              [] id.end # 0 /\ id.value = 5 -> decode_instrument_def_fields(bytes, id.end)
              [] id.end # 0 /\ id.value = 6 -> decode_full_snapshot_fields(bytes, id.end)
              [] OTHER -> [end |-> 0]
        AfterPmap(pmap) == IF pmap.end = 0 THEN pmap ELSE AfterId(decode_u64(bytes, pmap.end))
    IN  AfterPmap(decode_pmap(bytes))
=============================================================================
