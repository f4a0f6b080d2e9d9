---------------------------- MODULE FixCodec ----------------------------
(***************************************************************************)
(* The FIX 4.2 messages of ICE and KRX order entry.  A message is the      *)
(* record of its tags, under their FIX names, as text: a decimal is the    *)
(* record of what is printed of it.  A tag that was not appended is not in *)
(* the record.  The session tags (49, 56, 34, 52, 17) are left out.        *)
(***************************************************************************)
EXTENDS Integers

PRICE_SCALE == 10000

-----------------------------------------------------------------------------
(* Text *)

price_to_fix_str(p) ==
    LET abs == IF p < 0 THEN -p ELSE p
    IN  [minus |-> p < 0, whole |-> abs \div PRICE_SCALE, frac |-> abs % PRICE_SCALE]
qty_to_fix_str(q) == price_to_fix_str(q)
Zero == [minus |-> FALSE, whole |-> 0, frac |-> 0]

Decimal(s) == (IF s.minus THEN -1 ELSE 1) * (s.whole * PRICE_SCALE + s.frac)

\* SimClient casts the product without rounding: of the decimals of a model,
\* these are read one unit short, as their doubles lie below them.
ReadShort == {3, 6, 12, 24, 29, 48, 58, 93, 96, 113, 116, 163, 169, 186, 192}
get_double(s) == IF Decimal(s) \in ReadShort THEN Decimal(s) - 1 ELSE Decimal(s)

\* The number an account name starts with.
strtoll(name) == CASE name = "1" -> 1 [] name = "2" -> 2 [] OTHER -> 0

encode_side(s) == IF s = "Buy" THEN "1" ELSE "2"

\* The accessors of FixMessage: a tag that is absent reads as nothing.
Get(msg, tag, nothing) == IF tag \in DOMAIN msg THEN msg[tag] ELSE nothing

-----------------------------------------------------------------------------
(* IceCodec: the codec of SimClient, for ICE and KRX *)

encode_new_order(cl_ord_id, side, price, qty, symbol, sender) ==
    [MsgType |-> "D", ClOrdID |-> cl_ord_id, Account |-> sender, Symbol |-> symbol,
     Side |-> encode_side(side), Price |-> price_to_fix_str(price),
     OrderQty |-> qty_to_fix_str(qty), OrdType |-> "2", TimeInForce |-> "0"]

encode_cancel(cl_ord_id, order_id, side, symbol) ==
    [MsgType |-> "F", OrigClOrdID |-> cl_ord_id, ClOrdID |-> cl_ord_id, OrderID |-> order_id,
     Symbol |-> symbol, Side |-> encode_side(side)]

encode_replace(cl_ord_id, order_id, side, new_price, new_qty, symbol) ==
    [MsgType |-> "G", OrigClOrdID |-> cl_ord_id, ClOrdID |-> cl_ord_id, OrderID |-> order_id,
     Symbol |-> symbol, Side |-> encode_side(side), Price |-> price_to_fix_str(new_price),
     OrderQty |-> qty_to_fix_str(new_qty), OrdType |-> "2"]

-----------------------------------------------------------------------------
(* Execution reports *)

encode_exec_new(evt, order) ==
    [MsgType |-> "8", ExecType |-> "0", OrderID |-> evt.id, ClOrdID |-> evt.cl,
     Side |-> encode_side(order.side), Price |-> price_to_fix_str(order.price),
     OrderQty |-> qty_to_fix_str(order.quantity),
     LeavesQty |-> qty_to_fix_str(order.quantity), CumQty |-> Zero]

\* The code asserts that leaves is not negative; a build without assertions
\* prints it.
encode_exec_fill(evt, order) ==
    LET cum == order.filled + evt.qty
        leaves == order.quantity - cum
    IN  [MsgType |-> "8", ExecType |-> IF leaves = 0 THEN "2" ELSE "1",
         OrderID |-> order.id, ClOrdID |-> order.cl, Side |-> encode_side(order.side),
         Price |-> price_to_fix_str(order.price), OrderQty |-> qty_to_fix_str(order.quantity),
         LastPx |-> price_to_fix_str(evt.price), LastQty |-> qty_to_fix_str(evt.qty),
         LeavesQty |-> qty_to_fix_str(leaves), CumQty |-> qty_to_fix_str(cum)]

encode_exec_cancel(evt, order) ==
    [MsgType |-> "8", ExecType |-> "4", OrderID |-> evt.id, ClOrdID |-> order.cl,
     Side |-> encode_side(order.side), Price |-> price_to_fix_str(order.price),
     OrderQty |-> qty_to_fix_str(order.quantity), LeavesQty |-> Zero,
     CumQty |-> qty_to_fix_str(order.filled)]

encode_exec_reject(evt) ==
    [MsgType |-> "8", ExecType |-> "8", ClOrdID |-> evt.cl, Price |-> Zero, OrderQty |-> Zero]

encode_exec_replace(evt, order) ==
    [MsgType |-> "8", ExecType |-> "5", OrderID |-> evt.id, ClOrdID |-> evt.cl,
     Side |-> encode_side(order.side), Price |-> price_to_fix_str(evt.price),
     OrderQty |-> qty_to_fix_str(evt.qty),
     LeavesQty |-> qty_to_fix_str(evt.qty - order.filled),
     CumQty |-> qty_to_fix_str(order.filled)]

ExecReport(type, msg) ==
    [type |-> type, order_id |-> Get(msg, "OrderID", 0), cl_ord_id |-> msg.ClOrdID,
     side |-> IF Get(msg, "Side", "") = "2" THEN "Sell" ELSE "Buy",
     price |-> get_double(msg.Price), qty |-> 0,
     fill_price |-> 0, fill_qty |-> 0, leaves_qty |-> 0, cum_qty |-> 0]

decode_response(msg) ==
    CASE msg.ExecType = "0" ->
            [ExecReport("Accepted", msg) EXCEPT !.qty = get_double(msg.OrderQty)]
      [] msg.ExecType \in {"1", "2"} ->
            [ExecReport("Fill", msg) EXCEPT !.fill_price = get_double(msg.LastPx),
                !.fill_qty = get_double(msg.LastQty), !.leaves_qty = get_double(msg.LeavesQty),
                !.cum_qty = get_double(msg.CumQty)]
      [] msg.ExecType = "4" -> ExecReport("Cancelled", msg)
      [] msg.ExecType = "5" ->
            [ExecReport("Replaced", msg) EXCEPT !.qty = get_double(msg.OrderQty)]
      [] msg.ExecType = "8" -> ExecReport("Rejected", msg)

-----------------------------------------------------------------------------
(* What the gateways read: the typed messages (from_fix) and the conversions. *)
(* A character outside a table is refused.                                    *)

Refused == "refused"
Tag(m, tag) == Get(m, tag, "")

FixNewOrderSingle(m) ==
    [cl_ord_id |-> Get(m, "ClOrdID", 0), account |-> Tag(m, "Account"), side |-> Tag(m, "Side"),
     ord_type |-> Tag(m, "OrdType"), time_in_force |-> Tag(m, "TimeInForce")]
FixCancelRequest(m) == [orig_cl_ord_id |-> Get(m, "OrigClOrdID", 0)]
FixCancelReplaceRequest(m) ==
    [cl_ord_id |-> Get(m, "ClOrdID", 0), orig_cl_ord_id |-> Get(m, "OrigClOrdID", 0)]

\* strtod, then the product by PRICE_SCALE rounded to the nearest.
fix_price_to_engine(s) == Decimal(s)
fix_qty_to_engine(s) == Decimal(s)
fix_to_side(c) == CASE c = "1" -> "Buy" [] c = "2" -> "Sell" [] OTHER -> Refused
fix_to_order_type(c) ==
    CASE c = "1" -> "Market" [] c = "2" -> "Limit" [] c = "3" -> "Stop" [] c = "4" -> "StopLimit"
      [] OTHER -> Refused
fix_to_tif(c) ==
    CASE c = "0" -> "DAY" [] c = "1" -> "GTC" [] c = "3" -> "IOC" [] c = "4" -> "FOK"
      [] c = "6" -> "GTD" [] OTHER -> Refused

ice_new_order_request(m) ==
    LET nos == FixNewOrderSingle(m)
    IN  [client_order_id |-> nos.cl_ord_id, account |-> strtoll(nos.account),
         side |-> fix_to_side(nos.side), type |-> fix_to_order_type(nos.ord_type),
         tif |-> fix_to_tif(nos.time_in_force),
         price |-> fix_price_to_engine(Get(m, "Price", Zero)),
         quantity |-> fix_qty_to_engine(Get(m, "OrderQty", Zero)),
         display_qty |-> fix_qty_to_engine(Get(m, "MaxFloor", Zero))]
ice_replace_request(m) ==
    LET crr == FixCancelReplaceRequest(m)
    IN  [order_id |-> crr.orig_cl_ord_id, client_order_id |-> crr.cl_ord_id,
         new_price |-> fix_price_to_engine(Get(m, "Price", Zero)),
         new_quantity |-> fix_qty_to_engine(Get(m, "OrderQty", Zero))]

\* KRX has its own copy of all of this, with the tags of its board.
KrxNewOrderSingle(m) ==
    [cl_ord_id |-> Get(m, "ClOrdID", 0), account |-> Tag(m, "Account"), side |-> Tag(m, "Side"),
     ord_type |-> Tag(m, "OrdType"), time_in_force |-> Tag(m, "TimeInForce"),
     program_trading |-> Tag(m, "ProgramTradingFlag"), board_id |-> Tag(m, "BoardId")]
KrxCancelRequest(m) == [orig_cl_ord_id |-> Get(m, "OrigClOrdID", 0)]
KrxCancelReplaceRequest(m) ==
    [cl_ord_id |-> Get(m, "ClOrdID", 0), orig_cl_ord_id |-> Get(m, "OrigClOrdID", 0)]

krx_fix_price_to_engine(s) == Decimal(s)
krx_fix_qty_to_engine(s) == Decimal(s)
krx_fix_to_side(c) == CASE c = "1" -> "Buy" [] c = "2" -> "Sell" [] OTHER -> Refused
krx_fix_to_order_type(c) ==
    CASE c = "1" -> "Market" [] c = "2" -> "Limit" [] c = "3" -> "Stop" [] c = "4" -> "StopLimit"
      [] OTHER -> Refused
krx_fix_to_tif(c) ==
    CASE c = "0" -> "DAY" [] c = "1" -> "GTC" [] c = "3" -> "IOC" [] c = "4" -> "FOK"
      [] c = "6" -> "GTD" [] OTHER -> Refused

krx_new_order_request(m) ==
    LET nos == KrxNewOrderSingle(m)
    IN  [client_order_id |-> nos.cl_ord_id, account |-> strtoll(nos.account),
         side |-> krx_fix_to_side(nos.side), type |-> krx_fix_to_order_type(nos.ord_type),
         tif |-> krx_fix_to_tif(nos.time_in_force),
         price |-> krx_fix_price_to_engine(Get(m, "Price", Zero)),
         quantity |-> krx_fix_qty_to_engine(Get(m, "OrderQty", Zero)),
         display_qty |-> krx_fix_qty_to_engine(Get(m, "MaxFloor", Zero))]
krx_replace_request(m) ==
    LET crr == KrxCancelReplaceRequest(m)
    IN  [order_id |-> crr.orig_cl_ord_id, client_order_id |-> crr.cl_ord_id,
         new_price |-> krx_fix_price_to_engine(Get(m, "Price", Zero)),
         new_quantity |-> krx_fix_qty_to_engine(Get(m, "OrderQty", Zero))]

\* A request somebody can act on.
Complete(req) ==
    /\ req.client_order_id # 0
    /\ req.side # Refused /\ req.type # Refused /\ req.tif # Refused
=============================================================================
