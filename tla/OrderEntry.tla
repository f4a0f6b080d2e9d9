---------------------------- MODULE OrderEntry ----------------------------
(***************************************************************************)
(* Order entry end to end, as cme_sim_runner, ice_sim_runner and           *)
(* krx_sim_runner run it: clients (exchange_trader over SimClient, and the *)
(* command line sender) put messages on their TCP connections; the event   *)
(* loop of the runner takes them one by one through the gateway into the   *)
(* engine of an instrument; the engine's callbacks become the reports of a *)
(* publisher, which the loop then sends to every connected client.         *)
(*                                                                         *)
(* The connections are reliable queues of encoded messages here: the       *)
(* codecs are ILink3Codec and FixCodec, and TcpFraming has the bytes.      *)
(* The engines are seen as books of limit orders: MatchingEngine has them  *)
(* in full.                                                                *)
(***************************************************************************)
EXTENDS Integers, FiniteSetsExt, SequencesExt

CONSTANTS
    Profiles            \* name -> what the clients are and do: see MCOrderEntry

VARIABLES
    setup,              \* the name of the profile of the run
    client,             \* client -> its own state
    up, down,           \* client -> messages on its connection, each way
    connected,          \* connected_fds of the runner
    engine,             \* instrument -> book and next order id
    pub,                \* the report publisher
    executed            \* client -> net quantity its orders really traded

vars == <<setup, client, up, down, connected, engine, pub, executed>>

profile == Profiles[setup]
Clients == DOMAIN profile.kind          \* "trader" or "sender", by client
Instruments == profile.instruments
venue == profile.venue                  \* "CME", "ICE" or "KRX"

ILink3 == INSTANCE ILink3Codec          \* order entry of CME
Fix == INSTANCE FixCodec                \* order entry of ICE and KRX

Smaller(a, b) == IF a < b THEN a ELSE b
Larger(a, b) == IF a > b THEN a ELSE b
Opposite(side) == IF side = "Buy" THEN "Sell" ELSE "Buy"

-----------------------------------------------------------------------------
(* The engine of an instrument *)

OnSide(eng, side) == {i \in DOMAIN eng.orders : eng.orders[i].side = side}
Better(side, p, q) == IF side = "Buy" THEN p > q ELSE p < q
BestOn(eng, side) ==
    LET First(i) == \A j \in OnSide(eng, side) \ {i} :
                        \/ Better(side, eng.orders[i].price, eng.orders[j].price)
                        \/ eng.orders[i].price = eng.orders[j].price /\ i < j
    IN  IF OnSide(eng, side) = {} THEN 0 ELSE CHOOSE i \in OnSide(eng, side) : First(i)
LevelTotal(eng, i) ==
    MapThenSumSet(LAMBDA j : eng.orders[j].left,
                  {j \in OnSide(eng, eng.orders[i].side) :
                      eng.orders[j].price = eng.orders[i].price})
IndexOf(eng, id) == SelectInSeq(eng.orders, LAMBDA o : o.id = id)

\* The market is open and every order is a limit order for the day.  CME compares the
\* accounts as they are, ICE and KRX ignore account 0.
IsSelfMatch(a, b) == a.account = b.account /\ (venue # "CME" => a.account # 0)

\* match_order: the callbacks, in order, of an order o walking the other side.
\* A fill is an OrderFilled when the level just allocated completes the
\* aggressor, whatever is left of the resting order.
RECURSIVE Match(_, _, _)
Match(eng, o, events) ==
    LET i == BestOn(eng, Opposite(o.side))
        r == eng.orders[i]
        qty == Smaller(o.left, r.left)
        rest == IF r.left = qty THEN RemoveAt(eng.orders, i)
                ELSE [eng.orders EXCEPT ![i].left = @ - qty]
        fill == [ev |-> IF o.left <= LevelTotal(eng, i) THEN "filled" ELSE "partial",
                 aggressor |-> o.id, resting |-> r.id, qty |-> qty, price |-> r.price,
                 buyer |-> IF o.side = "Buy" THEN o.owner ELSE r.owner,
                 seller |-> IF o.side = "Buy" THEN r.owner ELSE o.owner]
    IN  IF o.left = 0 THEN [eng |-> eng, events |-> events]
        ELSE IF i = 0 \/ Better(o.side, r.price, o.price)
        THEN [eng |-> [eng EXCEPT !.orders = Append(@, o)], events |-> events]
        ELSE IF IsSelfMatch(o, r)
        THEN [eng |-> eng, events |-> Append(events, [ev |-> "cancelled", id |-> o.id])]
        ELSE Match([eng EXCEPT !.orders = rest], [o EXCEPT !.left = @ - qty],
                   Append(events, fill))

new_order(eng, c, req) ==
    LET o == [id |-> eng.next, owner |-> c, cl |-> req.client_order_id,
              account |-> req.account, side |-> req.side, price |-> req.price,
              qty |-> req.quantity, left |-> req.quantity]
    IN  IF req.price <= 0
        THEN [eng |-> eng, events |-> <<[ev |-> "rejected", cl |-> o.cl]>>]
        ELSE Match([eng EXCEPT !.next = @ + 1], o,
                   <<[ev |-> "accepted", id |-> o.id, cl |-> o.cl]>>)

cancel_order(eng, id) ==
    LET i == IndexOf(eng, id)
    IN  IF i = 0 THEN [eng |-> eng, events |-> <<[ev |-> "cancel_rejected", id |-> id, cl |-> 0]>>]
        ELSE [eng |-> [eng EXCEPT !.orders = RemoveAt(@, i)],
              events |-> <<[ev |-> "cancelled", id |-> id]>>]

\* A client replaces with the size the order has, so the order always re-enters.
modify_order(eng, req) ==
    LET i == IndexOf(eng, req.order_id)
        o == [eng.orders[i] EXCEPT !.price = req.new_price, !.qty = req.new_quantity,
                                   !.left = req.new_quantity - (eng.orders[i].qty - @)]
    IN  IF i = 0
        THEN [eng |-> eng, events |-> <<[ev |-> "modify_rejected", id |-> req.order_id,
                                         cl |-> req.client_order_id]>>]
        ELSE Match([eng EXCEPT !.orders = RemoveAt(@, i)], o,
                   <<[ev |-> "modified", id |-> o.id, cl |-> req.client_order_id,
                      price |-> o.price, qty |-> o.qty]>>)

mass_cancel_all(eng) ==
    [eng |-> [eng EXCEPT !.orders = <<>>],
     events |-> [i \in DOMAIN eng.orders |-> [ev |-> "cancelled", id |-> eng.orders[i].id]]]

-----------------------------------------------------------------------------
(* The report publishers.  pending: order data by client order id; orders:  *)
(* order data by key.  The key packs the security id of the encode context, *)
(* which is the one of the first product whatever the instrument is (CME),  *)
(* or is the order id alone (FIX): the instrument never tells keys apart.   *)

Blank == [key |-> 0, id |-> 0, cl |-> 0, price |-> 0, quantity |-> 0, filled |-> 0,
          side |-> "Buy"]
Find(s, key) == IF \E x \in s : x.key = key THEN CHOOSE x \in s : x.key = key ELSE Blank
Knows(s, key) == \E x \in s : x.key = key
Drop(s, key) == {x \in s : x.key # key}
Put(s, x) == Drop(s, x.key) \cup {x}
Awaited(p, e) == [Find(p.pending, e.cl) EXCEPT !.key = e.id, !.id = e.id, !.cl = e.cl]

\* store_report
Report(p, r) == [p EXCEPT !.reports = Append(@, r)]

Registered(p, req) ==
    [p EXCEPT !.pending =
        Put(@, [Blank EXCEPT !.key = req.client_order_id, !.cl = req.client_order_id,
                             !.price = req.price, !.quantity = req.quantity,
                             !.side = req.side])]

-----------------------------------------------------------------------------
(* ILink3ReportPublisher *)

cme_register_order(p, req) == Registered(p, req)

cme_on_order_accepted(p, e) ==
    LET o == Awaited(p, e)
    IN  Report([p EXCEPT !.pending = Drop(@, e.cl), !.orders = Put(@, o)],
               ILink3!encode_exec_new(e, o))

cme_on_order_rejected(p, e) ==
    Report([p EXCEPT !.pending = Drop(@, e.cl)], ILink3!encode_exec_reject(e))

\* A fill is reported to the resting side whether or not its data is known, to
\* the aggressor only if it is.
FillResting(p, e) ==
    LET r == Find(p.orders, e.resting)
        counted == [r EXCEPT !.filled = @ + e.qty]
    IN  IF e.ev = "filled"
        THEN Report([p EXCEPT !.orders = Drop(@, e.resting)],
                    ILink3!encode_exec_fill(e, r, FALSE))
        ELSE IF Knows(p.orders, e.resting)
        THEN Report([p EXCEPT !.orders = Put(@, counted)],
                    ILink3!encode_exec_fill(e, counted, FALSE))
        ELSE Report(p, ILink3!encode_exec_fill(e, Blank, FALSE))

\* Mutant: the aggressor is not told.
FillAggressorSilent(p, e) == p

FillAggressor(p, e) ==
    LET a == [Find(p.orders, e.aggressor) EXCEPT !.filled = @ + e.qty]
        kept == IF e.ev = "filled" /\ a.filled >= a.quantity THEN Drop(p.orders, a.key)
                ELSE Put(p.orders, a)
    IN  IF Knows(p.orders, e.aggressor)
        THEN Report([p EXCEPT !.orders = kept], ILink3!encode_exec_fill(e, a, TRUE)) ELSE p

cme_on_order_filled(p, e) == FillAggressor(FillResting(p, e), e)
cme_on_order_partially_filled(p, e) == FillAggressor(FillResting(p, e), e)

cme_on_order_cancelled(p, e) ==
    Report([p EXCEPT !.orders = Drop(@, e.id)],
           ILink3!encode_exec_cancel(e, Find(p.orders, e.id)))

cme_on_order_cancel_rejected(p, e) == Report(p, ILink3!encode_cancel_reject(e))

cme_on_order_modified(p, e) ==
    LET o == [Find(p.orders, e.id) EXCEPT !.price = e.price, !.quantity = e.qty, !.cl = e.cl]
        known == Knows(p.orders, e.id)
    IN  Report([p EXCEPT !.orders = IF known THEN Put(@, o) ELSE @],
               ILink3!encode_exec_new(e, IF known THEN o ELSE Blank))

cme_on_order_modify_rejected(p, e) == Report(p, ILink3!encode_cancel_reject(e))

CmePublish(p, e) ==
    CASE e.ev = "accepted" -> cme_on_order_accepted(p, e)
      [] e.ev = "rejected" -> cme_on_order_rejected(p, e)
      [] e.ev = "filled" -> cme_on_order_filled(p, e)
      [] e.ev = "partial" -> cme_on_order_partially_filled(p, e)
      [] e.ev = "cancelled" -> cme_on_order_cancelled(p, e)
      [] e.ev = "cancel_rejected" -> cme_on_order_cancel_rejected(p, e)
      [] e.ev = "modified" -> cme_on_order_modified(p, e)
      [] e.ev = "modify_rejected" -> cme_on_order_modify_rejected(p, e)

-----------------------------------------------------------------------------
(* IceFixExecPublisher and KrxFixExecPublisher: only OrderFilled is reported, *)
(* and only to the resting side; rejected cancels and replaces are not.       *)

\* Mutant: orders are not registered.
ice_register_order_never(p, req) == p

ice_register_order(p, req) == Registered(p, req)

IcePublish(p, e) ==
    CASE e.ev = "accepted" /\ Knows(p.pending, e.cl) ->
            LET o == Awaited(p, e)
            IN  Report([p EXCEPT !.pending = Drop(@, e.cl), !.orders = Put(@, o)],
                       Fix!encode_exec_new(e, o))
      [] e.ev = "rejected" ->
            Report([p EXCEPT !.pending = Drop(@, e.cl)], Fix!encode_exec_reject(e))
      [] e.ev = "filled" /\ Knows(p.orders, e.resting) ->
            LET r == Find(p.orders, e.resting)
            IN  Report([p EXCEPT !.orders = Put(@, [r EXCEPT !.filled = @ + e.qty])],
                       Fix!encode_exec_fill(e, r))
      [] e.ev = "cancelled" /\ Knows(p.orders, e.id) ->
            Report([p EXCEPT !.orders = Drop(@, e.id)],
                   Fix!encode_exec_cancel(e, Find(p.orders, e.id)))
      [] e.ev = "modified" /\ Knows(p.orders, e.id) ->
            LET o == Find(p.orders, e.id)
            IN  Report([p EXCEPT !.orders =
                            Put(@, [o EXCEPT !.price = e.price, !.quantity = e.qty])],
                       Fix!encode_exec_replace(e, o))
      [] OTHER -> p

krx_register_order(p, req) == Registered(p, req)

KrxPublish(p, e) ==
    LET o == Find(p.orders, IF e.ev = "filled" THEN e.resting ELSE e.id)
        tracked == e.ev \in {"filled", "cancelled", "modified"} /\ Knows(p.orders, o.key)
        Kept(orders) ==
            CASE e.ev = "filled" -> Put(orders, [o EXCEPT !.filled = @ + e.qty])
              [] e.ev = "cancelled" -> Drop(orders, o.key)
              [] e.ev = "modified" -> Put(orders, [o EXCEPT !.price = e.price, !.quantity = e.qty])
        report ==
            CASE e.ev = "filled" -> Fix!encode_exec_fill(e, o)
              [] e.ev = "cancelled" -> Fix!encode_exec_cancel(e, o)
              [] e.ev = "modified" -> Fix!encode_exec_replace(e, o)
    IN  CASE e.ev = "accepted" /\ Knows(p.pending, e.cl) ->
                Report([p EXCEPT !.pending = Drop(@, e.cl), !.orders = Put(@, Awaited(p, e))],
                       Fix!encode_exec_new(e, Awaited(p, e)))
          [] e.ev = "rejected" ->
                Report([p EXCEPT !.pending = Drop(@, e.cl)], Fix!encode_exec_reject(e))
          [] tracked -> Report([p EXCEPT !.orders = Kept(@)], report)
          [] OTHER -> p

-----------------------------------------------------------------------------
(* The gateways.  A message acts on the engine of one instrument: [engines,   *)
(* events] is what becomes of the engines and the callbacks they make.        *)

At(inst, r) == [engines |-> [engine EXCEPT ![inst] = r.eng], events |-> r.events]
Ignored == [engines |-> engine, events |-> <<>>]

dispatch_new_order_514(c, m) ==
    IF m.security_id \notin Instruments THEN Ignored
    ELSE At(m.security_id, new_order(engine[m.security_id], c, ILink3!decode_new_order_514(m)))

\* Mutant: the gateway reads the client's id as the engine's.
dispatch_cancel_516_by_cl(m) ==
    IF m.security_id \notin Instruments THEN Ignored
    ELSE At(m.security_id, cancel_order(engine[m.security_id], m.cl_ord_id))

dispatch_cancel_516(m) ==
    IF m.security_id \notin Instruments THEN Ignored
    ELSE At(m.security_id, cancel_order(engine[m.security_id], m.order_id))

dispatch_replace_515(m) ==
    IF m.security_id \notin Instruments THEN Ignored
    ELSE At(m.security_id,
            modify_order(engine[m.security_id], ILink3!decode_replace_request_515(m)))

dispatch_mass_action_529(m) ==
    CASE m.mass_action_scope # "Instrument" ->
            [engines |-> [i \in Instruments |-> mass_cancel_all(engine[i]).eng],
             events |-> FoldLeft(LAMBDA evs, i : evs \o mass_cancel_all(engine[i]).events,
                                 <<>>, SetToSeq(Instruments))]
      [] m.mass_action_scope = "Instrument" /\ m.security_id \in Instruments ->
            At(m.security_id, mass_cancel_all(engine[m.security_id]))
      [] OTHER -> Ignored

ILink3Process(c, m) ==
    CASE ~ILink3!decode_ilink3_message(m) -> Ignored
      [] m.template = 514 -> dispatch_new_order_514(c, m)
      [] m.template = 516 -> dispatch_cancel_516(m)
      [] m.template = 515 -> dispatch_replace_515(m)
      [] m.template = 529 -> dispatch_mass_action_529(m)

\* The FIX gateways read OrigClOrdID as the engine's order id.  What they refuse
\* never reaches the engine, and nobody is told.
Unmoved(eng) == [eng |-> eng, events |-> <<>>]

ice_handle_new_order(eng, c, m) ==
    IF Fix!Complete(Fix!ice_new_order_request(m))
    THEN new_order(eng, c, Fix!ice_new_order_request(m)) ELSE Unmoved(eng)
ice_handle_cancel(eng, m) ==
    LET cr == Fix!FixCancelRequest(m)
    IN  IF cr.orig_cl_ord_id = 0 THEN Unmoved(eng) ELSE cancel_order(eng, cr.orig_cl_ord_id)
ice_handle_replace(eng, m) ==
    LET req == Fix!ice_replace_request(m)
    IN  IF req.order_id = 0 THEN Unmoved(eng) ELSE modify_order(eng, req)
IceGateway(eng, c, m) ==
    CASE m.MsgType = "D" -> ice_handle_new_order(eng, c, m)
      [] m.MsgType = "F" -> ice_handle_cancel(eng, m)
      [] m.MsgType = "G" -> ice_handle_replace(eng, m)
      [] OTHER -> Unmoved(eng)

\* KrxFixGateway also keeps the program trading flag and the board of the last
\* new order, which nobody reads.
krx_handle_new_order(eng, c, m) ==
    IF Fix!Complete(Fix!krx_new_order_request(m))
    THEN new_order(eng, c, Fix!krx_new_order_request(m)) ELSE Unmoved(eng)
krx_handle_cancel(eng, m) ==
    LET cr == Fix!KrxCancelRequest(m)
    IN  IF cr.orig_cl_ord_id = 0 THEN Unmoved(eng) ELSE cancel_order(eng, cr.orig_cl_ord_id)
krx_handle_replace(eng, m) ==
    LET req == Fix!krx_replace_request(m)
    IN  IF req.order_id = 0 THEN Unmoved(eng) ELSE modify_order(eng, req)
KrxGateway(eng, c, m) ==
    CASE m.MsgType = "D" -> krx_handle_new_order(eng, c, m)
      [] m.MsgType = "F" -> krx_handle_cancel(eng, m)
      [] m.MsgType = "G" -> krx_handle_replace(eng, m)
      [] OTHER -> Unmoved(eng)

-----------------------------------------------------------------------------
(* The runners: on_message, the flush of the reports, the connections *)

Traded(events, c) ==
    FoldLeft(LAMBDA sum, e :
                IF e.ev \notin {"filled", "partial"} THEN sum
                ELSE sum + (IF e.buyer = c THEN e.qty ELSE 0)
                         - (IF e.seller = c THEN e.qty ELSE 0), 0, events)

\* A message of c is taken; registered is the publisher its events find.
Taken(c, result, published) ==
    /\ engine' = result.engines
    /\ pub' = published
    /\ executed' = [d \in Clients |-> executed[d] + Traded(result.events, d)]
    /\ up' = [up EXCEPT ![c] = Tail(@)]
    /\ UNCHANGED <<setup, client, down, connected>>

\* A new order is registered before its instrument is looked up.
cme_on_message(c) ==
    /\ venue = "CME" /\ up[c] # <<>>
    /\ LET m == Head(up[c])
           registered == IF m.template = 514
                         THEN cme_register_order(pub, ILink3!decode_new_order_514(m)) ELSE pub
           result == ILink3Process(c, m)
       IN  Taken(c, result, FoldLeft(CmePublish, registered, result.events))

\* A symbol nobody trades is dropped before anything else.
ice_on_message(c) ==
    /\ venue = "ICE" /\ up[c] # <<>>
    /\ LET m == Head(up[c])
           registered == IF m.MsgType = "D"
                         THEN ice_register_order(pub, Fix!ice_new_order_request(m)) ELSE pub
           result == At(m.Symbol, IceGateway(engine[m.Symbol], c, m))
       IN  IF m.Symbol \notin Instruments THEN Taken(c, Ignored, pub)
           ELSE Taken(c, result, FoldLeft(IcePublish, registered, result.events))

krx_on_message(c) ==
    /\ venue = "KRX" /\ up[c] # <<>>
    /\ LET m == Head(up[c])
           registered == IF m.MsgType = "D"
                         THEN krx_register_order(pub, Fix!krx_new_order_request(m)) ELSE pub
           result == At(m.Symbol, KrxGateway(engine[m.Symbol], c, m))
       IN  IF m.Symbol \notin Instruments THEN Taken(c, Ignored, pub)
           ELSE Taken(c, result, FoldLeft(KrxPublish, registered, result.events))

\* Every report goes to every connected client.
FlushReports ==
    /\ pub.reports # <<>>
    /\ down' = [c \in Clients |-> IF c \in connected THEN down[c] \o pub.reports ELSE down[c]]
    /\ pub' = [pub EXCEPT !.reports = <<>>]
    /\ UNCHANGED <<setup, client, up, connected, engine, executed>>

cme_flush_reports == venue = "CME" /\ FlushReports
ice_flush_reports == venue = "ICE" /\ FlushReports
krx_flush_reports == venue = "KRX" /\ FlushReports

\* The server takes what the client sent before it closed, then forgets it: its
\* orders stay in the books.
on_disconnect(c) ==
    /\ client[c].mode = "gone" /\ c \in connected /\ up[c] = <<>>
    /\ connected' = connected \ {c}
    /\ UNCHANGED <<setup, client, up, down, engine, pub, executed>>

-----------------------------------------------------------------------------
(* exchange_trader: SimClient and the two strategies *)

tick == profile.tick
snap_to_tick(price) ==
    LET remainder == price % tick
    IN  IF remainder >= tick \div 2 THEN price + (tick - remainder) ELSE price - remainder

OrderNamed(s, cl) == CHOOSE o \in s : o.cl = cl
Named(s, cl) == \E o \in s : o.cl = cl
Without(s, cl) == {o \in s : o.cl # cl}

NewAction(side, price) == [type |-> "New", side |-> side, price |-> price, cl |-> 0, orig |-> 0]
CancelAction(cl) == [NewAction("Buy", 0) EXCEPT !.type = "Cancel", !.cl = cl]
ModifyAction(orig, price) == [NewAction("Buy", price) EXCEPT !.type = "Modify", !.orig = orig]

\* Client order ids are given out as the actions are made, sent or not.
Fresh(actions, k) == Len(SelectSeq(SubSeq(actions, 1, k), LAMBDA a : a.type # "Cancel"))
Numbered(actions, next) ==
    [k \in DOMAIN actions |->
        IF actions[k].type = "Cancel" THEN actions[k]
        ELSE [actions[k] EXCEPT !.cl = next + Fresh(actions, k) - 1]]

SeqsOf(S, n) == [1..n -> S]
AbsVal(n) == IF n < 0 THEN -n ELSE n

\* random_walk_strategy: up to target orders a side around the reference price,
\* then each order that has grown old is cancelled or moved.
Reference(k) ==
    IF k.last > 0 THEN snap_to_tick((9 * k.ref + k.last) \div 10) ELSE k.ref
WalkPrices(ref, side) ==
    LET drawn == {snap_to_tick(p) : p \in (ref - profile.spread)..(ref + profile.spread)}
        Side(p) == CASE side = "Buy" /\ p > ref -> snap_to_tick(ref - tick)
                     [] side = "Sell" /\ p < ref -> snap_to_tick(ref + tick)
                     [] OTHER -> p
    IN  {p \in {Side(q) : q \in drawn} : p > 0}
WalkNew(k, ref, side) ==
    LET current == Cardinality({o \in k.orders : o.side = side})
        projected == k.position + (IF side = "Buy" THEN k.lot ELSE -k.lot)
        ToPlace(target) == IF AbsVal(projected) > profile.max_position THEN 0
                           ELSE Larger(0, target - current)
    IN  {[i \in DOMAIN prices |-> NewAction(side, prices[i])] :
            prices \in UNION {SeqsOf(WalkPrices(ref, side), ToPlace(t)) : t \in profile.targets}}
WalkOld(k, ref) ==
    LET moves == {snap_to_tick(p) : p \in (ref - profile.spread)..(ref + profile.spread)}
        Fates(cl) == {CancelAction(cl)} \cup
                       {ModifyAction(cl, p) : p \in {q \in moves : profile.moves /\ q > 0}}
        All(cls) == {acts \in SeqsOf(UNION {Fates(cl) : cl \in Range(cls)}, Len(cls)) :
                        \A i \in DOMAIN cls : acts[i] \in Fates(cls[i])}
    IN  UNION {UNION {All(cls) : cls \in SetToSeqs(old)} :
                old \in {S \in SUBSET {o.cl : o \in k.orders} : Cardinality(S) <= profile.olds}}
random_walk_strategy(k) ==
    {buys \o sells \o old : buys \in WalkNew(k, Reference(k), "Buy"),
                            sells \in WalkNew(k, Reference(k), "Sell"),
                            old \in WalkOld(k, Reference(k))}

\* market_maker_strategy: one bid and one ask about the reference, requoted
\* when missing, mispriced or after any fill.
Toward0(a, b) == IF a < 0 THEN -((-a) \div b) ELSE a \div b
QuotePrice(k, side) ==
    LET lean == Toward0(k.position * tick, 10 * k.lot)
        half == profile.spread \div 2
        bid == snap_to_tick(k.ref - half - lean)
        ask == snap_to_tick(k.ref + half - lean)
        sane == bid < ask
    IN  IF side = "Buy"
        THEN Larger(IF sane THEN bid ELSE snap_to_tick(k.ref - tick), tick)
        ELSE IF sane THEN ask ELSE snap_to_tick(k.ref + tick)
Quote(k, side) ==
    LET mine == {o \in k.orders : o.side = side}
        current == CHOOSE o \in mine : \A p \in mine : ~Better(side, p.price, o.price)
        target == QuotePrice(k, side)
        need == mine = {} \/ k.fresh \/ current.price # target
        after == k.position + (IF side = "Buy" THEN k.lot ELSE -k.lot)
        room == IF side = "Buy" THEN after <= profile.max_position
                ELSE after >= -profile.max_position
    IN  IF ~need THEN <<>>
        ELSE (IF mine = {} THEN <<>> ELSE <<CancelAction(current.cl)>>)
             \o (IF room THEN <<NewAction(side, target)>> ELSE <<>>)
market_maker_strategy(k) == {Quote(k, "Buy") \o Quote(k, "Sell")}

Plans(c) == IF profile.strategy[c] = "rw" THEN random_walk_strategy(client[c])
            ELSE market_maker_strategy(client[c])

Tick(c) ==
    /\ client[c].mode = "running" /\ client[c].plan = <<>> /\ client[c].sent < profile.rate
    /\ \E actions \in Plans(c) :
        LET k == client[c]
            n == Fresh(actions, Len(actions))
        IN  /\ k.next + n <= profile.maxCl + 1              \* bounds
            /\ \A d \in Clients : Len(up[d]) + Len(pub.reports) + Len(down[d]) < profile.window
            /\ client' = [client EXCEPT ![c].plan = Numbered(actions, k.next),
                                        ![c].next = @ + n,
                                        ![c].ref = IF profile.strategy[c] = "rw"
                                                   THEN Reference(k) ELSE @,
                                        ![c].fresh = FALSE]
    /\ UNCHANGED <<setup, up, down, connected, engine, pub, executed>>

IdOf(k, cl) == IF Named(k.ids, cl) THEN OrderNamed(k.ids, cl).id ELSE 0
Open(cl, side, price, kind) == [cl |-> cl, side |-> side, price |-> price, kind |-> kind]

\* What the codec of a trader makes of its requests: CmeCodec, or IceCodec for
\* ICE and KRX.  Orders are limit orders for the day, of the lot of the product.
Limit(cl, side, price, qty) ==
    [client_order_id |-> cl, side |-> side, type |-> "Limit", tif |-> "DAY", price |-> price,
     quantity |-> qty, stop_price |-> 0, display_qty |-> 0]
EncodeNew(c, cl, side, price) ==
    IF venue = "CME"
    THEN ILink3!encode_new_order(Limit(cl, side, price, profile.lot[c]),
                                 ILink3!CmeCodec(profile.inst[c]))
    ELSE Fix!encode_new_order(cl, side, price, profile.lot[c], profile.inst[c],
                              profile.account[c])
EncodeCancel(c, cl, id, side) ==
    IF venue = "CME"
    THEN ILink3!encode_cancel_order(id, cl, side, ILink3!CmeCodec(profile.inst[c]))
    ELSE Fix!encode_cancel(cl, id, side, profile.inst[c])
EncodeReplace(c, cl, id, side, price) ==
    IF venue = "CME"
    THEN ILink3!encode_modify_order([client_order_id |-> cl, new_price |-> price,
                                     new_quantity |-> profile.lot[c]],
                                    id, side, ILink3!CmeCodec(profile.inst[c]))
    ELSE Fix!encode_replace(cl, id, side, price, profile.lot[c], profile.inst[c])
DecodeResponse(m) == IF venue = "CME" THEN ILink3!decode_response(m) ELSE Fix!decode_response(m)

send_new_order(c, a) ==
    /\ up' = [up EXCEPT ![c] = Append(@, EncodeNew(c, a.cl, a.side, a.price))]
    /\ client' = [client EXCEPT ![c].plan = Tail(@), ![c].sent = @ + 1,
                     ![c].pending = Without(@, a.cl) \cup {Open(a.cl, a.side, a.price, "New")}]

CancelOf(c, cl) ==
    LET k == client[c]
        o == OrderNamed(IF Named(k.orders, cl) THEN k.orders ELSE k.pending, cl)
    IN  EncodeCancel(c, cl, IdOf(k, cl), o.side)

send_cancel(c, a) ==
    IF Named(client[c].orders, a.cl) \/ Named(client[c].pending, a.cl)
    THEN /\ up' = [up EXCEPT ![c] = Append(@, CancelOf(c, a.cl))]
         /\ client' = [client EXCEPT ![c].plan = Tail(@), ![c].sent = @ + 1]
    ELSE client' = [client EXCEPT ![c].plan = Tail(@)] /\ UNCHANGED up

\* The order that is replaced stays in orders; its replacement is pending.
send_replace(c, a) ==
    LET k == client[c]
        side == OrderNamed(k.orders, a.orig).side
    IN  IF Named(k.orders, a.orig)
        THEN /\ up' = [up EXCEPT ![c] =
                        Append(@, EncodeReplace(c, a.cl, IdOf(k, a.orig), side, a.price))]
             /\ client' = [client EXCEPT ![c].plan = Tail(@), ![c].sent = @ + 1,
                             ![c].pending = Without(@, a.cl) \cup
                                            {Open(a.cl, side, a.price, "Modify")}]
        ELSE client' = [client EXCEPT ![c].plan = Tail(@)] /\ UNCHANGED up

\* One action of the tick, unless the rate of this second is used up.
Act(c) ==
    /\ client[c].mode = "running" /\ client[c].plan # <<>>
    /\ LET a == Head(client[c].plan)
       IN  CASE client[c].sent >= profile.rate ->
                    client' = [client EXCEPT ![c].plan = <<>>] /\ UNCHANGED up
             [] client[c].sent < profile.rate /\ a.type = "New" -> send_new_order(c, a)
             [] client[c].sent < profile.rate /\ a.type = "Cancel" -> send_cancel(c, a)
             [] client[c].sent < profile.rate /\ a.type = "Modify" -> send_replace(c, a)
    /\ UNCHANGED <<setup, down, connected, engine, pub, executed>>

NextSecond(c) ==
    /\ client[c].mode = "running" /\ client[c].plan = <<>> /\ client[c].sent > 0
    /\ client' = [client EXCEPT ![c].sent = 0]
    /\ UNCHANGED <<setup, up, down, connected, engine, pub, executed>>

handle_exec_report(k, r) ==
    CASE r.type = "Accepted" ->
            LET moved == {o \in k.pending : o.cl = r.cl_ord_id}
            IN  [k EXCEPT !.pending = @ \ moved,
                          !.orders = IF moved = {} THEN @ ELSE Without(@, r.cl_ord_id) \cup moved,
                          !.ids = Without(@, r.cl_ord_id) \cup
                                  {[cl |-> r.cl_ord_id, id |-> r.order_id]}]
      [] r.type = "Fill" ->
            LET mine == Named(k.orders, r.cl_ord_id)
                signed == IF OrderNamed(k.orders, r.cl_ord_id).side = "Buy" THEN r.fill_qty
                          ELSE -r.fill_qty
            IN  [k EXCEPT !.position = IF mine THEN @ + signed ELSE @,
                          !.orders = IF r.leaves_qty = 0 THEN Without(@, r.cl_ord_id) ELSE @,
                          !.last = r.fill_price,
                          !.fresh = TRUE]
      [] r.type = "Cancelled" -> [k EXCEPT !.orders = Without(@, r.cl_ord_id)]
      [] r.type = "Rejected" -> [k EXCEPT !.pending = Without(@, r.cl_ord_id)]
      [] OTHER -> k                                 \* CancelRejected, Replaced

poll_responses(c) ==
    /\ client[c].mode \in {"running", "stopping"} /\ client[c].plan = <<>> /\ down[c] # <<>>
    /\ client' = [client EXCEPT ![c] = handle_exec_report(@, DecodeResponse(Head(down[c])))]
    /\ down' = [down EXCEPT ![c] = Tail(@)]
    /\ UNCHANGED <<setup, up, connected, engine, pub, executed>>

\* SIGINT: the tick in progress is finished, then the open orders are cancelled.
cancel_all_open(c) ==
    /\ profile.stops /\ client[c].mode = "running" /\ client[c].plan = <<>>
    /\ LET ids == SetToSeq({o.cl : o \in client[c].orders})
       IN  up' = [up EXCEPT ![c] = @ \o [i \in DOMAIN ids |-> CancelOf(c, ids[i])]]
    /\ client' = [client EXCEPT ![c].mode = "stopping"]
    /\ UNCHANGED <<setup, down, connected, engine, pub, executed>>

\* The answers are awaited until no order is open, two seconds at most.
Leave(c) ==
    /\ client[c].mode = "stopping"
    /\ client' = [client EXCEPT ![c].mode = "gone"]
    /\ down' = [down EXCEPT ![c] = <<>>]
    /\ UNCHANGED <<setup, up, connected, engine, pub, executed>>

-----------------------------------------------------------------------------
(* ilink3_send_order: one command, sent count times, each followed by a wait *)
(* for answers.  Nothing in the repository sends a mass action: MassCancel is *)
(* another client of the gateway.                                             *)

make_encode_context(c) == [security_id |-> profile.inst[c], party |-> profile.account[c]]

SenderMessage(c, args, cl) ==
    LET ctx == make_encode_context(c)
    IN  CASE args.command = "NewOrder" ->
                ILink3!encode_new_order(Limit(cl, args.side, args.price, profile.lot[c]), ctx)
          [] args.command = "Cancel" ->
                ILink3!encode_cancel_order(args.order_id, cl, args.side, ctx)
          [] args.command = "Replace" ->
                ILink3!encode_modify_order([client_order_id |-> cl, new_price |-> args.price,
                                            new_quantity |-> profile.lot[c]],
                                           args.order_id, args.side, ctx)
          [] args.command = "MassCancel" -> ILink3!encode_mass_cancel(args.scope, ctx)

SendOne(c) ==
    /\ client[c].mode = "ready" /\ client[c].count > 0
    /\ up' = [up EXCEPT ![c] = Append(@, SenderMessage(c, client[c].args, client[c].next))]
    /\ client' = [client EXCEPT ![c].mode = "waiting", ![c].count = @ - 1, ![c].next = @ + 1]
    /\ UNCHANGED <<setup, down, connected, engine, pub, executed>>

\* Whatever report comes next is taken for the answer.
HearOne(c) ==
    /\ client[c].mode = "waiting" /\ down[c] # <<>>
    /\ client' = [client EXCEPT ![c].mode =
                    IF Head(down[c]).template = 522 THEN "waiting" ELSE "ready"]
    /\ down' = [down EXCEPT ![c] = Tail(@)]
    /\ UNCHANGED <<setup, up, connected, engine, pub, executed>>

ReceiveTimeout(c) ==
    /\ client[c].mode = "waiting"
    /\ client' = [client EXCEPT ![c].mode = "ready"]
    /\ UNCHANGED <<setup, up, down, connected, engine, pub, executed>>

Done(c) ==
    /\ client[c].mode = "ready" /\ client[c].count = 0
    /\ client' = [client EXCEPT ![c].mode = "gone"]
    /\ down' = [down EXCEPT ![c] = <<>>]
    /\ UNCHANGED <<setup, up, connected, engine, pub, executed>>

-----------------------------------------------------------------------------
Traders == {c \in Clients : profile.kind[c] = "trader"}
Senders == {c \in Clients : profile.kind[c] = "sender"}

\* args: the command line of each sender.
Starting(c, args) ==
    IF c \in Senders
    THEN [mode |-> "ready", count |-> profile.count, next |-> profile.firstCl[c],
          args |-> args[c]]
    ELSE [mode |-> "running", plan |-> <<>>, sent |-> 0, pending |-> {}, orders |-> {},
          ids |-> {}, position |-> 0, next |-> profile.firstCl[c], ref |-> profile.ref,
          last |-> 0, fresh |-> FALSE, lot |-> profile.lot[c]]

Init ==
    /\ setup \in DOMAIN Profiles
    /\ \E args \in profile.args : client = [c \in Clients |-> Starting(c, args)]
    /\ up = [c \in Clients |-> <<>>]
    /\ down = [c \in Clients |-> <<>>]
    /\ connected = Clients
    /\ engine = [i \in Instruments |-> [orders |-> <<>>, next |-> 1]]
    /\ pub = [pending |-> {}, orders |-> {}, reports |-> <<>>]
    /\ executed = [c \in Clients |-> 0]

TraderStep(c) == Tick(c) \/ Act(c) \/ NextSecond(c) \/ poll_responses(c)
                 \/ cancel_all_open(c) \/ Leave(c)
SenderStep(c) == SendOne(c) \/ HearOne(c) \/ ReceiveTimeout(c) \/ Done(c)
CmeStep == (\E c \in Clients : cme_on_message(c)) \/ cme_flush_reports
IceStep == (\E c \in Clients : ice_on_message(c)) \/ ice_flush_reports
KrxStep == (\E c \in Clients : krx_on_message(c)) \/ krx_flush_reports
RunnerStep == CmeStep \/ IceStep \/ KrxStep \/ \E c \in Clients : on_disconnect(c)

Next == RunnerStep \/ (\E c \in Traders : TraderStep(c)) \/ (\E c \in Senders : SenderStep(c))

\* The loop of the runner polls and flushes again and again, as the loop of a
\* trader finishes its tick and polls.  Nothing is assumed of the senders.  Each
\* conjunct is the weak fairness of an action: its guard stands for ENABLED, and
\* its effect on the queue it serves, which no other action has, for the action:
\* on_message, Act, poll_responses and FlushReports.
AllClients == UNION {DOMAIN Profiles[p].kind : p \in DOMAIN Profiles}
Acting(c) == c \in Traders /\ client[c].mode = "running" /\ client[c].plan # <<>>
Hearing(c) == /\ c \in Traders /\ client[c].mode \in {"running", "stopping"}
              /\ client[c].plan = <<>> /\ down[c] # <<>>
Fairness ==
    /\ \A c \in AllClients :
        /\ \/ []<>(c \notin Clients \/ up[c] = <<>>)
           \/ []<><<c \in Clients /\ Len(up'[c]) < Len(up[c])>>_vars
        /\ []<>(~Acting(c)) \/ []<><<Acting(c) /\ Len(client'[c].plan) < Len(client[c].plan)>>_vars
        /\ []<>(~Hearing(c)) \/ []<><<Hearing(c) /\ Len(down'[c]) < Len(down[c])>>_vars
    /\ []<>(pub.reports = <<>>) \/ []<><<pub'.reports = <<>> /\ pub.reports # <<>> >>_vars

Spec == Init /\ [][Next]_vars
FairSpec == Spec /\ Fairness

-----------------------------------------------------------------------------
(* Properties *)

\* The types: a CME connection carries requests of the schema one way and reports
\* the other, every quantity of which fits its unsigned field, and order data
\* lives under the id it was accepted with.
TypeOK ==
    /\ DOMAIN client = Clients /\ connected \subseteq Clients
    /\ \A p \in pub.pending : p.key = p.cl /\ p.id = 0
    /\ \A p \in pub.orders : p.key = p.id /\ p.id # 0
    /\ venue = "CME" =>
        /\ \A c \in Clients : \A i \in DOMAIN up[c] : ILink3!Request(up[c][i])
        /\ \A c \in Clients : \A i \in DOMAIN down[c] : ILink3!Report(down[c][i])
        /\ \A i \in DOMAIN pub.reports : ILink3!Report(pub.reports[i])

\* What one trader can rely on: iLink3, orders of one lot in the only
\* instrument, no replace, and client order ids nobody else uses.
Reliable ==
    /\ venue = "CME" /\ ~profile.moves /\ Cardinality(Traders) = 1
    /\ \A c \in Clients : Instruments = {profile.inst[c]} /\ profile.lot[c] = ILink3!PRICE_SCALE
    /\ \A c, d \in Clients :
        c # d => AbsVal(profile.firstCl[c] - profile.firstCl[d]) > profile.maxCl

\* Nothing is on its way between the trader, the engine and the publisher.
Quiet(c) ==
    /\ \A d \in Clients : up[d] = <<>>
    /\ pub.reports = <<>> /\ down[c] = <<>>
    /\ client[c].mode \in {"running", "stopping"} /\ client[c].plan = <<>>

\* When nothing is on its way a trader is right about itself: the position it
\* believes it has is what its orders traded, as every fill of either side was
\* reported once, to its owner; the orders it believes are open are those that
\* rest in the book under its name, and none waits for an answer.
ClientsAgree ==
    \A c \in Traders : Reliable /\ Quiet(c) =>
        /\ client[c].position = executed[c]
        /\ client[c].pending = {}
        /\ {o.cl : o \in client[c].orders} =
            UNION {{engine[i].orders[k].cl : k \in {j \in DOMAIN engine[i].orders :
                                                    engine[i].orders[j].owner = c}} :
                   i \in Instruments}

\* The cancel of a trader never takes somebody else's order out of a book.
CancelsHitOwn ==
    [][\A c \in Traders :
        Reliable /\ up[c] # <<>> /\ up'[c] = Tail(up[c]) /\ Head(up[c]).template = 516 =>
            \A i \in Instruments : \A k \in DOMAIN engine[i].orders :
                engine[i].orders[k] \in Range(engine'[i].orders)
                \/ engine[i].orders[k].owner = c]_vars

\* Every new order of a running trader for an instrument the exchange has is
\* answered: accepted or rejected.
Unanswered(c, cl) ==
    /\ c \in Traders /\ profile.inst[c] \in Instruments /\ client[c].mode = "running"
    /\ \E o \in client[c].pending : o.cl = cl /\ o.kind = "New"
NewOrdersAnswered ==
    \A c \in AllClients, cl \in 1..Max({Profiles[p].maxCl : p \in DOMAIN Profiles}) :
        Unanswered(c, cl) ~> ~Unanswered(c, cl)

\* The assertion of the FIX encoder: no report says that more was filled than
\* the order was for.
NoOverfill ==
    venue # "CME" =>
        \A k \in DOMAIN pub.reports : pub.reports[k].ExecType \in {"1", "2"} =>
            Fix!Decimal(pub.reports[k].LeavesQty) >= 0
=============================================================================
