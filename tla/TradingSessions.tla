-------------------------- MODULE TradingSessions --------------------------
(***************************************************************************)
(* The trading day of the three simulators over their pools of engines:    *)
(* ExchangeSimulator (exchange-sim/exchange_simulator.h) and CmeSimulator, *)
(* IceSimulator, KrxSimulator.  A pool keeps a session state of its own    *)
(* beside the state of each of its engines, which also changes by itself:  *)
(* the circuit breaker of ICE, the daily limits and the volatility         *)
(* interruption of KRX.                                                    *)
(*                                                                         *)
(* An engine is seen at the grain of its sessions: limit orders of one     *)
(* lot, of accounts that never meet themselves, so that a call makes at    *)
(* most one trade.  MatchingEngine and EngineAuction have the rest.        *)
(***************************************************************************)
EXTENDS ExchangeHooks, FiniteSets, SequencesExt

CONSTANTS
    Profiles            \* the simulators looked at, what their users do and send, the
                        \* reference prices KRX is given, one each day, and the bounds
                        \* on the orders sent and on the trading days

VARIABLES
    profile,            \* the profile of the run
    pool,               \* pool -> current_state_ of its ExchangeSimulator
    engine,             \* engine -> state of the engine and its hooks
    afterHours,         \* after_hours_active_ of KrxSimulator
    next,               \* index of the driver's next call in its daily cycle
    day,                \* trading days completed
    acks,               \* orders sent: the instrument, and the id it was given (0: refused)
    event               \* the last call

vars == <<profile, pool, engine, afterHours, next, day, acks, event>>

venue == profile.venue
calls == profile.calls

\* Two instruments of one pool (CME), one in each pool (ICE), or the engines
\* of one instrument in the regular and the after-hours pool (KRX).
Engines == {1, 2}
Pools == {1, 2}
PoolOf(e) == IF venue = "CME" THEN 1 ELSE e
\* What the users of a simulator may do beside entering orders; "stats" feeds
\* the trades to the OhlcvStats, which the simulator only stores.
Users == {"cancel", "modify", "sidecar", "breaker", "late resume", "stats"}

ASSUME ProfilesAssumption ==
    \A p \in Profiles : p.venue \in {"CME", "ICE", "KRX"} /\ p.calls \subseteq Users

Regular == 1
AfterHours == 2

Sides == {"Buy", "Sell"}

-----------------------------------------------------------------------------
(* One engine *)

\* An engine starts in Continuous, whatever its pool says: add_instrument only
\* brings it to a state other than Closed.
AddInstrument ==
    [state |-> "Continuous", orders |-> << >>, nextId |-> 1, last |-> 0, viRef |-> 0,
     reference |-> 0, tier |-> 0, low |-> 0, high |-> 0, sidecar |-> FALSE,
     breaker |-> FALSE, close |-> 0]

OnSide(eng, side) == {i \in DOMAIN eng.orders : eng.orders[i].side = side}
Better(side, p, q) == IF side = "Buy" THEN p > q ELSE p < q
Crosses(side, price, other) == IF side = "Buy" THEN price >= other ELSE price <= other
Opposite(side) == IF side = "Buy" THEN "Sell" ELSE "Buy"

\* The order first in price, then in time, of a side; 0 for an empty one.
BestOn(eng, side) ==
    LET First(i) == \A j \in OnSide(eng, side) \ {i} :
                        \/ Better(side, eng.orders[i].price, eng.orders[j].price)
                        \/ eng.orders[i].price = eng.orders[j].price /\ i < j
    IN  IF OnSide(eng, side) = {} THEN 0 ELSE CHOOSE i \in OnSide(eng, side) : First(i)

Crossed(eng) == \E i \in OnSide(eng, "Buy"), j \in OnSide(eng, "Sell") :
                    eng.orders[i].price >= eng.orders[j].price

\* set_session_state of the engine
Transition(eng, new) ==
    IF eng.state = new THEN eng
    ELSE [eng EXCEPT !.state = new,
                     !.viRef = IF new = "Continuous" /\ eng.last > 0 THEN eng.last ELSE @]

\* apply_limit_tier
ApplyLimitTier(eng, tier) ==
    IF eng.reference <= 0 THEN eng
    ELSE LET limits == KrxLimitTiers(eng.reference)[tier]
         IN  [eng EXCEPT !.tier = tier, !.low = limits[1], !.high = limits[2]]

\* set_reference_price: the first one only sets the limits.
SetReferencePrice(eng, price) ==
    LET priced == [eng EXCEPT !.reference = price]
    IN  IF price > 0 /\ eng.tier = 0 THEN ApplyLimitTier(priced, 1) ELSE priced

\* on_daily_limit_hit: KRX widens the limits and goes on, up to the last tier.
OnDailyLimitHit(eng) ==
    IF eng.reference <= 0 \/ eng.tier >= 3 THEN eng
    ELSE Transition(ApplyLimitTier(eng, eng.tier + 1), "Continuous")

HitsLimit(eng) == \/ eng.high > 0 /\ eng.last >= eng.high
                  \/ eng.low > 0 /\ eng.last <= eng.low

ViConfig(eng) == [dynamicPct |-> 3, staticPct |-> 10, priorClose |-> eng.reference]

\* After a fill: check_daily_limit_hit, then check_volatility_interruption.
CheckFill(eng) ==
    IF eng.state = "LockLimit" THEN eng
    ELSE IF HitsLimit(eng)
    THEN LET locked == [eng EXCEPT !.state = "LockLimit"]
         IN  IF venue = "KRX" THEN OnDailyLimitHit(locked) ELSE locked
    ELSE IF /\ eng.state = "Continuous" /\ eng.viRef # 0
            /\ ShouldTriggerVolatilityAuction(venue, eng.last, eng.viRef, ViConfig(eng))
    THEN [eng EXCEPT !.state = "VolatilityAuction"]
    ELSE eng

\* OhlcvStats::on_trade, of which an auction's reference is the close.
OnTrade(close, price) == IF "stats" \in calls THEN price ELSE close

\* match_order for one lot, then the rest joins its queue.
Match(eng, order) ==
    LET i == BestOn(eng, Opposite(order.side))
    IN  IF i # 0 /\ Crosses(order.side, order.price, eng.orders[i].price)
        THEN CheckFill([eng EXCEPT !.orders = RemoveAt(@, i), !.last = eng.orders[i].price,
                                   !.close = OnTrade(@, eng.orders[i].price)])
        ELSE [eng EXCEPT !.orders = Append(@, order)]

\* The phases that insert a limit order without matching it.
Collecting(state) == state \in {"PreOpen", "PreClose", "VolatilityAuction", "LockLimit"}

WithinLimits(eng, price) == /\ eng.high > 0 => price <= eng.high
                            /\ eng.low > 0 => price >= eng.low

\* The width of the bands: a percentage of the last trade, or on ICE an amount.
BandWidth == IF venue = "ICE" THEN 10 ELSE 5

WithinBands(eng, price) == LET bands == CalculateDynamicBands(venue, eng.last, BandWidth)
                           IN  /\ bands[1] > 0 => price >= bands[1]
                               /\ bands[2] > 0 => price <= bands[2]

\* new_order's checks, in the order that matters here, and its two ways in.
Admits(eng, req) == /\ ~ (eng.sidecar /\ req.programme)
                    /\ WithinBands(eng, req.price)
                    /\ WithinLimits(eng, req.price)
                    /\ IsOrderAllowedInPhase(venue, req, eng.state)

EnterOrder(eng, order) ==
    LET admitted == [eng EXCEPT !.nextId = @ + 1]
    IN  IF Collecting(eng.state) THEN [admitted EXCEPT !.orders = Append(@, order)]
        ELSE Match(admitted, order)

IndexOf(eng, id) == SelectInSeq(eng.orders, LAMBDA o : o.id = id)

\* modify_order, cancel-replace: the book is left and the order matches at its
\* new price whatever the phase and the limits are.
Amend(eng, i, price) ==
    Match([eng EXCEPT !.orders = RemoveAt(@, i)], [eng.orders[i] EXCEPT !.price = price])

\* execute_auction: calculate_auction_price over the levels of the book, then as
\* many of the best bids and asks as the price matches.
Volume(eng, side, price) ==
    Cardinality({i \in OnSide(eng, side) :
                    Crosses(side, eng.orders[i].price, price)})
Distance(a, b) == IF a > b THEN a - b ELSE b - a
AuctionMatched(eng, price) ==
    IF Volume(eng, "Buy", price) < Volume(eng, "Sell", price) THEN Volume(eng, "Buy", price)
    ELSE Volume(eng, "Sell", price)
Rank(eng, price) ==
    <<AuctionMatched(eng, price),
      - Distance(Volume(eng, "Buy", price), Volume(eng, "Sell", price)),
      - Distance(price, eng.close), price>>
LexLess(a, b) == \E i \in DOMAIN a : a[i] < b[i] /\ \A j \in 1..(i - 1) : a[j] = b[j]
AuctionPrice(eng) ==
    LET levels == {eng.orders[i].price : i \in DOMAIN eng.orders}
    IN  CHOOSE p \in levels : \A q \in levels \ {p} : LexLess(Rank(eng, q), Rank(eng, p))

\* The n orders of a side that an auction fills first.
FirstOrders(eng, side, n) ==
    {i \in OnSide(eng, side) :
        Cardinality({j \in OnSide(eng, side) :
            \/ Better(side, eng.orders[j].price, eng.orders[i].price)
            \/ eng.orders[j].price = eng.orders[i].price /\ j < i}) < n}

ExecuteAuction(eng) ==
    IF ~ Crossed(eng) THEN eng
    ELSE LET price == AuctionPrice(eng)
             n == AuctionMatched(eng, price)
             filled == FirstOrders(eng, "Buy", n) \cup FirstOrders(eng, "Sell", n)
         IN  [eng EXCEPT !.orders = SelectSeq(@, LAMBDA o : o \notin {eng.orders[i] : i \in filled}),
                         !.last = price, !.viRef = price, !.close = OnTrade(@, price)]

\* trigger_expiry of the DAY orders
TriggerExpiry(eng) == [eng EXCEPT !.orders = SelectSeq(@, LAMBDA o : o.tif # "DAY")]

\* OhlcvStats::reset, when a session is about to start or is over
ResetStats(eng, state) ==
    IF state \in {"PreOpen", "Closed"} THEN [eng EXCEPT !.close = 0] ELSE eng

-----------------------------------------------------------------------------
(* The simulators *)

Init ==
    /\ profile \in Profiles
    /\ pool = [p \in Pools |-> "Closed"]
    /\ engine = [e \in Engines |-> AddInstrument]
    /\ afterHours = FALSE
    /\ next = 1 /\ day = 0 /\ acks = << >>
    /\ event = "none"

\* ExchangeSimulator::set_session_state, execute_all_auctions and
\* trigger_expiry, on the pools ps, as functions of all the engines.
SetSessionState(engines, ps, state) ==
    [e \in Engines |-> IF PoolOf(e) \in ps
                       THEN ResetStats(Transition(engines[e], state), state)
                       ELSE engines[e]]
ExecuteAllAuctions(engines, ps) ==
    [e \in Engines |-> IF PoolOf(e) \in ps THEN ExecuteAuction(engines[e]) ELSE engines[e]]
ExpireDayOrders(engines, ps) ==
    [e \in Engines |-> IF PoolOf(e) \in ps THEN TriggerExpiry(engines[e]) ELSE engines[e]]

PoolsEnter(ps, state) == pool' = [p \in Pools |-> IF p \in ps THEN state ELSE pool[p]]

\* CmeSimulator: one pool
cme_start_trading_day ==
    /\ engine' = SetSessionState(engine, {1}, "PreOpen")
    /\ PoolsEnter({1}, "PreOpen")
    /\ UNCHANGED afterHours

\* Mutant of cme_open_market: the session starts, and the auction is left out.
cme_open_market_no_auction ==
    /\ engine' = SetSessionState(engine, {1}, "Continuous")
    /\ PoolsEnter({1}, "Continuous")
    /\ UNCHANGED afterHours

cme_open_market ==
    /\ engine' = SetSessionState(ExecuteAllAuctions(engine, {1}), {1}, "Continuous")
    /\ PoolsEnter({1}, "Continuous")
    /\ UNCHANGED afterHours

cme_close_market ==
    /\ engine' = SetSessionState(ExecuteAllAuctions(SetSessionState(engine, {1}, "PreClose"),
                                                    {1}), {1}, "Closed")
    /\ PoolsEnter({1}, "Closed")
    /\ UNCHANGED afterHours

cme_end_of_day ==
    /\ engine' = ExpireDayOrders(engine, {1})
    /\ UNCHANGED <<pool, afterHours>>

\* IceSimulator: its FIFO pool, then its GTBPR pool.  It settles at the VWAP and
\* holds no closing auction.
ice_start_trading_day ==
    /\ engine' = SetSessionState(engine, Pools, "PreOpen")
    /\ PoolsEnter(Pools, "PreOpen")
    /\ UNCHANGED afterHours

ice_open_market ==
    /\ engine' = SetSessionState(ExecuteAllAuctions(engine, Pools), Pools, "Continuous")
    /\ PoolsEnter(Pools, "Continuous")
    /\ UNCHANGED afterHours

\* Mutant of ice_close_market: only the engines of the FIFO pool close.
ice_close_market_one_pool ==
    /\ engine' = SetSessionState(engine, {1}, "Closed")
    /\ PoolsEnter(Pools, "Closed")
    /\ UNCHANGED afterHours

ice_close_market ==
    /\ engine' = SetSessionState(engine, Pools, "Closed")
    /\ PoolsEnter(Pools, "Closed")
    /\ UNCHANGED afterHours

ice_end_of_day ==
    /\ engine' = ExpireDayOrders(engine, Pools)
    /\ UNCHANGED <<pool, afterHours>>

\* KrxSimulator
set_prices ==
    /\ \E price \in profile.references :
           engine' = [e \in Engines |-> SetReferencePrice(engine[e], price)]
    /\ UNCHANGED <<pool, afterHours>>

start_regular_session ==
    /\ afterHours' = FALSE
    /\ engine' = SetSessionState(engine, {Regular}, "PreOpen")
    /\ PoolsEnter({Regular}, "PreOpen")

open_regular_market ==
    /\ engine' = SetSessionState(ExecuteAllAuctions(engine, {Regular}), {Regular}, "Continuous")
    /\ PoolsEnter({Regular}, "Continuous")
    /\ UNCHANGED afterHours

pre_close_regular ==
    /\ engine' = SetSessionState(engine, {Regular}, "PreClose")
    /\ PoolsEnter({Regular}, "PreClose")
    /\ UNCHANGED afterHours

close_regular_session ==
    /\ engine' = SetSessionState(ExecuteAllAuctions(engine, {Regular}), {Regular}, "Closed")
    /\ PoolsEnter({Regular}, "Closed")
    /\ UNCHANGED afterHours

start_after_hours ==
    /\ afterHours' = TRUE
    /\ engine' = SetSessionState(engine, {AfterHours}, "Continuous")
    /\ PoolsEnter({AfterHours}, "Continuous")

close_after_hours ==
    /\ engine' = SetSessionState(engine, {AfterHours}, "Closed")
    /\ PoolsEnter({AfterHours}, "Closed")
    /\ afterHours' = FALSE

\* Mutant of krx_end_of_day: the orders of the regular session only.
krx_end_of_day_regular ==
    /\ engine' = ExpireDayOrders(engine, {Regular})
    /\ UNCHANGED <<pool, afterHours>>

krx_end_of_day ==
    /\ engine' = ExpireDayOrders(engine, {Regular, AfterHours})
    /\ UNCHANGED <<pool, afterHours>>

\* The daily cycles the simulators document, and the call the driver makes next.
CmeCycle == <<"start_trading_day", "open_market", "close_market", "end_of_day">>
IceCycle == CmeCycle
KrxCycle == <<"set_prices", "start_regular", "open_regular", "pre_close_regular",
              "close_regular", "start_after_hours", "close_after_hours", "end_of_day">>
DailyCycle == CASE venue = "CME" -> CmeCycle [] venue = "ICE" -> IceCycle [] OTHER -> KrxCycle

Drive(simulator, call, Effect) ==
    /\ venue = simulator
    /\ DailyCycle[next] = call
    /\ day < profile.days
    /\ Effect
    /\ next' = IF next = Len(DailyCycle) THEN 1 ELSE next + 1
    /\ day' = IF next = Len(DailyCycle) THEN day + 1 ELSE day
    /\ event' = call
    /\ UNCHANGED <<profile, acks>>

Driver ==
    \/ Drive("CME", "start_trading_day", cme_start_trading_day)
    \/ Drive("CME", "open_market", cme_open_market)
    \/ Drive("CME", "close_market", cme_close_market)
    \/ Drive("CME", "end_of_day", cme_end_of_day)
    \/ Drive("ICE", "start_trading_day", ice_start_trading_day)
    \/ Drive("ICE", "open_market", ice_open_market)
    \/ Drive("ICE", "close_market", ice_close_market)
    \/ Drive("ICE", "end_of_day", ice_end_of_day)
    \/ Drive("KRX", "set_prices", set_prices)
    \/ Drive("KRX", "start_regular", start_regular_session)
    \/ Drive("KRX", "open_regular", open_regular_market)
    \/ Drive("KRX", "pre_close_regular", pre_close_regular)
    \/ Drive("KRX", "close_regular", close_regular_session)
    \/ Drive("KRX", "start_after_hours", start_after_hours)
    \/ Drive("KRX", "close_after_hours", close_after_hours)
    \/ Drive("KRX", "end_of_day", krx_end_of_day)

-----------------------------------------------------------------------------
(* Their users *)

\* The engine an instrument's calls reach: KRX has one instrument here, and
\* sends its calls to the pool that is active.
Routed(instrument) == IF venue = "KRX" THEN (IF afterHours THEN AfterHours ELSE Regular)
                      ELSE instrument
Instruments == IF venue = "KRX" THEN {1} ELSE Engines

\* The runners start the first day before they serve anyone: until then the
\* engines would trade, in pools that say Closed.
Serving == day > 0 \/ next > (IF venue = "KRX" THEN 2 ELSE 1)

NewOrder(instrument, side, price, tif, programme) ==
    LET e == Routed(instrument)
        req == [type |-> "Limit", tif |-> tif, price |-> price, programme |-> programme]
        order == [tag |-> Len(acks) + 1, id |-> engine[e].nextId, side |-> side,
                  price |-> price, tif |-> tif]
    IN  /\ Serving
        /\ Len(acks) < profile.orders
        /\ programme => "sidecar" \in calls
        /\ IF Admits(engine[e], req)
           THEN /\ engine' = [engine EXCEPT ![e] = EnterOrder(@, order)]
                /\ acks' = Append(acks, [instrument |-> instrument, id |-> order.id])
           ELSE /\ acks' = Append(acks, [instrument |-> instrument, id |-> 0])
                /\ UNCHANGED engine
        /\ event' = "new"
        /\ UNCHANGED <<profile, pool, afterHours, next, day>>

\* Cancel and modify name an order by the id the engine gave it, and are routed
\* again; both are refused when the engine is closed, or does not know the id.
Reached(e, id) == IF engine[e].state = "Closed" THEN 0 ELSE IndexOf(engine[e], id)

CancelOrder(tag) ==
    LET e == Routed(acks[tag].instrument)
        i == Reached(e, acks[tag].id)
    IN  /\ "cancel" \in calls /\ acks[tag].id # 0
        /\ i # 0
        /\ engine' = [engine EXCEPT ![e].orders = RemoveAt(@, i)]
        /\ event' = "cancel"
        /\ UNCHANGED <<profile, pool, afterHours, next, day, acks>>

ModifyOrder(tag, price) ==
    LET e == Routed(acks[tag].instrument)
        i == Reached(e, acks[tag].id)
    IN  /\ "modify" \in calls /\ acks[tag].id # 0
        /\ i # 0
        /\ engine' = [engine EXCEPT ![e] = Amend(@, i, price)]
        /\ event' = "modify"
        /\ UNCHANGED <<profile, pool, afterHours, next, day, acks>>

\* activate_sidecar and deactivate_sidecar, of the regular session only
Sidecar(on) ==
    /\ venue = "KRX" /\ "sidecar" \in calls /\ engine[Regular].sidecar # on
    /\ engine' = [engine EXCEPT ![Regular].sidecar = on]
    /\ event' = "sidecar"
    /\ UNCHANGED <<profile, pool, afterHours, next, day, acks>>

\* trigger_circuit_breaker and resume_from_circuit_breaker.  Who resumes late
\* does so after the market has closed, or when it is not open yet.
TriggerCircuitBreaker(e) ==
    /\ venue = "ICE" /\ "breaker" \in calls
    /\ engine[e].state = "Continuous" /\ pool[PoolOf(e)] = "Continuous"
    /\ engine' = [engine EXCEPT ![e] = Transition([@ EXCEPT !.breaker = TRUE], "Halt")]
    /\ event' = "breaker"
    /\ UNCHANGED <<profile, pool, afterHours, next, day, acks>>

ResumeFromCircuitBreaker(e) ==
    /\ engine[e].breaker
    /\ "late resume" \in calls \/ pool[PoolOf(e)] = "Continuous"
    /\ engine' = [engine EXCEPT ![e] = Transition([@ EXCEPT !.breaker = FALSE], "Continuous")]
    /\ event' = "resume"
    /\ UNCHANGED <<profile, pool, afterHours, next, day, acks>>

Client ==
    \/ \E i \in Instruments, s \in Sides, p \in profile.prices, t \in profile.tifs, b \in BOOLEAN :
           NewOrder(i, s, p, t, b)
    \/ \E tag \in DOMAIN acks : CancelOrder(tag)
    \/ \E tag \in DOMAIN acks, p \in profile.prices : ModifyOrder(tag, p)
    \/ \E on \in BOOLEAN : Sidecar(on)
    \/ \E e \in Engines : TriggerCircuitBreaker(e)
    \/ \E e \in Engines : ResumeFromCircuitBreaker(e)

Next == Driver \/ Client

Spec == Init /\ [][Next]_vars

-----------------------------------------------------------------------------
(* Properties *)

\* An engine once brought to a session by its pool is in the state its pool
\* reports, or, while the pool trades, in one the engine's own protections
\* entered: no pool is forgotten when the simulator opens or closes, and no
\* interruption outlives its session.  Users who resume a circuit breaker late,
\* or modify orders in a collection phase, break this (see the README).
EngineFollowsPool ==
    calls \cap {"late resume", "modify"} = {} =>
    \A e \in Engines :
        LET s == engine[e].state IN
        \/ s = pool[PoolOf(e)]
        \/ day = 0 /\ pool[PoolOf(e)] = "Closed" /\ s = "Continuous"
        \/ pool[PoolOf(e)] = "Continuous" /\ s \in {"Halt", "VolatilityAuction", "LockLimit"}

\* While an engine matches continuously its book is not crossed: what was
\* collected before the opening, or in an interruption, has been uncrossed by an
\* auction.  The after-hours pool of KRX is left out: nothing uncrosses what an
\* interruption collected there.
ContinuousUncrossed ==
    calls \cap {"late resume", "modify"} = {} =>
    \A e \in Engines :
        engine[e].state \in {"Continuous", "Halt"} /\ ~ (venue = "KRX" /\ e = AfterHours)
            => ~ Crossed(engine[e])

\* No DAY order lives into the next trading day, in any pool of any simulator.
DayOrdersExpire ==
    day > 0 /\ event = "end_of_day" =>
        \A e \in Engines : \A i \in DOMAIN engine[e].orders : engine[e].orders[i].tif # "DAY"
=============================================================================
