--------------------------- MODULE ILink3Codec ---------------------------
(***************************************************************************)
(* The iLink3 messages of CME order entry: what the encoder writes of an   *)
(* engine value and what the decoder reads back.  A message is the record  *)
(* of the fields somebody reads, with the template id of its header;       *)
(* sequence numbers, times, execution ids and padding are left out.        *)
(***************************************************************************)
EXTENDS Integers

PRICE_SCALE == 10000
ENGINE_TO_PRICE9_FACTOR == 100000

\* The null values of the schema.  No value of a model is that large.
INT64_NULL == 2147483647
UINT32_NULL == 2147483646
UINT8_NULL == 255

-----------------------------------------------------------------------------
(* The schema.  Quantities are unsigned; SideReq, OrdType and TimeInForce are *)
(* the codes of their enumerations.                                           *)

SideReq == {1, 2}
OrdType == 1..4
TimeInForce == {0, 1, 3, 4, 6}
MassActionScope == {"Instrument", "All", "MarketSegment", "InstrumentGroup"}

NewOrderSingle514 ==
    [template : {514}, price : Int, order_qty : Nat, security_id : STRING, party : Nat,
     side : SideReq, cl_ord_id : Nat, stop_px : Int, display_qty : Nat, ord_type : OrdType,
     time_in_force : TimeInForce]
OrderCancelReplaceRequest515 ==
    [template : {515}, order_id : Nat, cl_ord_id : Nat, price : Int, order_qty : Nat,
     security_id : STRING, side : SideReq]
OrderCancelRequest516 ==
    [template : {516}, order_id : Nat, cl_ord_id : Nat, security_id : STRING, side : SideReq]
OrderMassActionRequest529 ==
    [template : {529}, security_id : STRING, mass_action_scope : MassActionScope]

ExecutionReportNew522 ==
    [template : {522}, order_id : Nat, cl_ord_id : Nat, price : Int, order_qty : Nat,
     side : SideReq]
ExecutionReportReject523 ==
    [template : {523}, order_id : Nat, cl_ord_id : Nat, price : Int, order_qty : Nat,
     side : SideReq \cup {UINT8_NULL}]
ExecutionReportTradeOutright525 ==
    [template : {525}, order_id : Nat, cl_ord_id : Nat, last_px : Int, last_qty : Nat,
     cum_qty : Nat, leaves_qty : Nat, side : SideReq, aggressor_indicator : BOOLEAN]
ExecutionReportCancel534 ==
    [template : {534}, order_id : Nat, cl_ord_id : Nat, order_qty : Nat, cum_qty : Nat,
     side : SideReq]
OrderCancelReject535 == [template : {535}, order_id : Nat, cl_ord_id : Nat]

Request(m) ==
    \/ m \in NewOrderSingle514 \/ m \in OrderCancelReplaceRequest515
    \/ m \in OrderCancelRequest516 \/ m \in OrderMassActionRequest529
Report(m) ==
    \/ m \in ExecutionReportNew522 \/ m \in ExecutionReportReject523
    \/ m \in ExecutionReportTradeOutright525 \/ m \in ExecutionReportCancel534
    \/ m \in OrderCancelReject535

-----------------------------------------------------------------------------
(* Conversions *)

engine_price_to_price9(p) == p * ENGINE_TO_PRICE9_FACTOR
engine_price_to_pricenull9(p) == IF p = 0 THEN INT64_NULL ELSE p * ENGINE_TO_PRICE9_FACTOR
engine_qty_to_wire(q) == q \div PRICE_SCALE
price9_to_engine(m) == IF m = INT64_NULL THEN 0 ELSE m \div ENGINE_TO_PRICE9_FACTOR
wire_qty_to_engine(q) == IF q = UINT32_NULL THEN 0 ELSE q * PRICE_SCALE

encode_side(s) == IF s = "Buy" THEN 1 ELSE 2
decode_side(w) == IF w = 2 THEN "Sell" ELSE "Buy"

encode_ord_type(t) ==
    CASE t = "Limit" -> 2 [] t = "Market" -> 1 [] t = "Stop" -> 3 [] t = "StopLimit" -> 4
decode_ord_type(w) ==
    CASE w = 1 -> "Market" [] w = 3 -> "Stop" [] w = 4 -> "StopLimit" [] OTHER -> "Limit"

encode_tif(t) ==
    CASE t = "DAY" -> 0 [] t = "GTC" -> 1 [] t = "IOC" -> 3 [] t = "FOK" -> 4 [] t = "GTD" -> 6
decode_tif(w) ==
    CASE w = 1 -> "GTC" [] w = 3 -> "IOC" [] w = 4 -> "FOK" [] w = 6 -> "GTD" [] OTHER -> "DAY"

-----------------------------------------------------------------------------
(* Requests, client to exchange; ctx is the EncodeContext of the sender *)

encode_new_order(req, ctx) ==
    [template |-> 514,
     price |-> IF req.type = "Market" THEN INT64_NULL ELSE engine_price_to_price9(req.price),
     order_qty |-> engine_qty_to_wire(req.quantity),
     security_id |-> ctx.security_id, party |-> ctx.party,
     side |-> encode_side(req.side), cl_ord_id |-> req.client_order_id,
     stop_px |-> engine_price_to_pricenull9(req.stop_price),
     display_qty |-> IF req.display_qty > 0 THEN engine_qty_to_wire(req.display_qty)
                     ELSE UINT32_NULL,
     ord_type |-> encode_ord_type(req.type), time_in_force |-> encode_tif(req.tif)]

encode_cancel_order(order_id, client_order_id, side, ctx) ==
    [template |-> 516, order_id |-> order_id, cl_ord_id |-> client_order_id,
     security_id |-> ctx.security_id, side |-> encode_side(side)]

encode_modify_order(req, exchange_order_id, side, ctx) ==
    [template |-> 515, order_id |-> exchange_order_id, cl_ord_id |-> req.client_order_id,
     price |-> engine_price_to_price9(req.new_price),
     order_qty |-> engine_qty_to_wire(req.new_quantity),
     security_id |-> ctx.security_id, side |-> encode_side(side)]

encode_mass_cancel(scope, ctx) ==
    [template |-> 529, security_id |-> ctx.security_id, mass_action_scope |-> scope]

-----------------------------------------------------------------------------
(* Execution reports, exchange to client *)

encode_exec_new(evt, order) ==
    [template |-> 522, order_id |-> evt.id, cl_ord_id |-> evt.cl,
     price |-> engine_price_to_price9(order.price),
     order_qty |-> engine_qty_to_wire(order.quantity), side |-> encode_side(order.side)]

\* Mutant: the remainder is not clipped.
encode_exec_fill_unclipped(evt, order, is_aggressor) ==
    LET cum == order.filled + evt.qty
    IN  [template |-> 525, order_id |-> order.id, cl_ord_id |-> order.cl,
         last_px |-> engine_price_to_price9(evt.price),
         last_qty |-> engine_qty_to_wire(evt.qty),
         cum_qty |-> engine_qty_to_wire(cum),
         leaves_qty |-> engine_qty_to_wire(order.quantity - cum),
         side |-> encode_side(order.side), aggressor_indicator |-> is_aggressor]

\* This fill is added to what the order data says is filled; a negative
\* remainder is clipped.
encode_exec_fill(evt, order, is_aggressor) ==
    LET cum == order.filled + evt.qty
        leaves == IF cum > order.quantity THEN 0 ELSE order.quantity - cum
    IN  [template |-> 525, order_id |-> order.id, cl_ord_id |-> order.cl,
         last_px |-> engine_price_to_price9(evt.price),
         last_qty |-> engine_qty_to_wire(evt.qty),
         cum_qty |-> engine_qty_to_wire(cum),
         leaves_qty |-> engine_qty_to_wire(leaves),
         side |-> encode_side(order.side), aggressor_indicator |-> is_aggressor]

encode_exec_cancel(evt, order) ==
    [template |-> 534, order_id |-> evt.id, cl_ord_id |-> order.cl,
     order_qty |-> engine_qty_to_wire(order.quantity),
     cum_qty |-> engine_qty_to_wire(order.filled), side |-> encode_side(order.side)]

encode_exec_reject(evt) ==
    [template |-> 523, order_id |-> INT64_NULL, cl_ord_id |-> evt.cl,
     price |-> INT64_NULL, order_qty |-> 0, side |-> UINT8_NULL]

encode_cancel_reject(evt) ==
    [template |-> 535, order_id |-> evt.id, cl_ord_id |-> evt.cl]

-----------------------------------------------------------------------------
(* What is read out of a message.  A message is visited by its template. *)

decode_ilink3_message(m) ==
    m.template \in {514, 515, 516, 529, 522, 523, 525, 534, 535}

decode_new_order_514(m) ==
    [client_order_id |-> m.cl_ord_id, account |-> m.party, side |-> decode_side(m.side),
     type |-> decode_ord_type(m.ord_type), tif |-> decode_tif(m.time_in_force),
     price |-> price9_to_engine(m.price), quantity |-> wire_qty_to_engine(m.order_qty),
     stop_price |-> price9_to_engine(m.stop_px),
     display_qty |-> wire_qty_to_engine(m.display_qty)]

decode_replace_request_515(m) ==
    [order_id |-> m.order_id, client_order_id |-> m.cl_ord_id,
     new_price |-> price9_to_engine(m.price), new_quantity |-> wire_qty_to_engine(m.order_qty)]

-----------------------------------------------------------------------------
(* CmeCodec: the codec of SimClient.  Every SimClient is party 1. *)

CmeCodec(security_id) == [security_id |-> security_id, party |-> 1]

\* The fields of an ExecReport that its message does not carry stay as constructed.
ExecReport ==
    [type |-> "Accepted", order_id |-> 0, cl_ord_id |-> 0, side |-> "Buy", price |-> 0,
     qty |-> 0, fill_price |-> 0, fill_qty |-> 0, leaves_qty |-> 0, cum_qty |-> 0]

decode_exec_new_522(m) ==
    [ExecReport EXCEPT !.type = "Accepted", !.order_id = m.order_id,
        !.cl_ord_id = m.cl_ord_id, !.side = decode_side(m.side),
        !.price = price9_to_engine(m.price), !.qty = wire_qty_to_engine(m.order_qty)]
decode_exec_trade_525(m) ==
    [ExecReport EXCEPT !.type = "Fill", !.order_id = m.order_id,
        !.cl_ord_id = m.cl_ord_id, !.side = decode_side(m.side),
        !.fill_price = price9_to_engine(m.last_px),
        !.fill_qty = wire_qty_to_engine(m.last_qty),
        !.leaves_qty = wire_qty_to_engine(m.leaves_qty),
        !.cum_qty = wire_qty_to_engine(m.cum_qty)]
decode_exec_cancel_534(m) ==
    [ExecReport EXCEPT !.type = "Cancelled", !.order_id = m.order_id, !.cl_ord_id = m.cl_ord_id]
decode_exec_reject_523(m) ==
    [ExecReport EXCEPT !.type = "Rejected", !.cl_ord_id = m.cl_ord_id]
decode_cancel_reject_535(m) ==
    [ExecReport EXCEPT !.type = "CancelRejected", !.order_id = m.order_id,
                       !.cl_ord_id = m.cl_ord_id]

decode_response(m) ==
    CASE m.template = 522 -> decode_exec_new_522(m)
      [] m.template = 525 -> decode_exec_trade_525(m)
      [] m.template = 534 -> decode_exec_cancel_534(m)
      [] m.template = 523 -> decode_exec_reject_523(m)
      [] m.template = 535 -> decode_cancel_reject_535(m)
=============================================================================
