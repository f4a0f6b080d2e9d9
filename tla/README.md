# Verification of exchange-simulation

TLA+ models of the exchange simulator in `src/`, TLC configurations that check
them on small instances, and TLAPS proofs for every value of the constants.
Paths below are relative to `src/`.

## 1. The system and its parts

The simulator is a C++ exchange: a header-only matching engine that the CME, ICE
and KRX simulators specialise through CRTP hooks, protocol gateways in front of
it, feed publishers behind it, and tools (observer, client, viewer) around it.

```
 clients --TCP frames--> gateway --> engine(s) --> report publisher --TCP--> all clients
 (OrderEntry, TcpFraming)            |   ^  ^
                                     |   |  +-- spread books over the legs (SpreadBook)
                                     |   +----- trading day, auctions      (TradingSessions)
                                     +--> feed publisher --UDP--> observer (MarketDataFeed)
                                     +--> ring in shared memory --> viewer (SpscRingBuffer)
```

| Part | State | Operations | Interacts with |
|---|---|---|---|
| Matching engine (`exchange-core/matching_engine.h`) | order index, order and level pools, last trade, session state, VI reference, daily limits | `new_order`, `cancel_order`, `modify_order`, mass cancels, `trigger_expiry`, `restore_order`, `bust_trade`, `set_session_state`, `unlock_limit`, `execute_auction`, `apply_implied_fills` | everything |
| Order book, stop book (`orderbook.cc`, `stop_book.cc`) | sorted levels with FIFO order lists | insert, remove, next triggered stop | engine |
| Position tracker, trade registry | net position per account; executed trades | fill, reverse fill; record, bust | engine |
| Matching policies (`match_algo.h`, `ice/gtbpr_match.h`) | none | FIFO, pro-rata, LMM, split, GTBPR | engine |
| Rate tracker | window start and count per account | `check_and_increment` | engine |
| Exchange hooks (`cme/ice/krx_exchange.h`) | limit tier, circuit breaker, sidecar, VWAP | self-match, phase, bands, VI, limit tiers | engine |
| Simulators (`exchange-sim/`, `cme/ice/krx_simulator.h`) | session state of a pool, engines by instrument, OHLCV | trading day, auctions, settlement | engines, spread book |
| Spread book (`exchange-sim/spread_book/`) | spread orders, leg quotes | direct, implied-in and implied-out matching | engines of the legs |
| Gateways and report publishers | order context by id | decode requests, encode reports | engine, TCP |
| Feed publishers, runners | pending packets, packet and snapshot numbers | publish, flush, definitions, snapshots | engine, UDP, shared memory |
| TCP transport (`tools/tcp_server.*`, `tcp_client.h`) | receive buffer with two cursors | read, cut frames, send | gateways, clients |
| SPSC ring, shared memory (`spsc_ring_buffer.h`, `tools/shm_transport.*`) | slots, two atomic counters | `try_push`, `try_pop`, `size` | simulator process, viewer process |
| Client (`tools/sim_client.h`, `exchange_trader.cc`) | pending and open orders, position | send, apply reports | TCP |
| Observer (`tools/exchange_observer.cc`, `*_recovery.h`, `*_secdef.h`) | displayed book, last packet number | discover, recover, apply packets | UDP |

What is hard about it: the matching policy moves quantity on a whole level
before the engine reports any of it, and self-match prevention may then take
part of it back; stops trigger stops; limits and volatility interruptions stop a
match half way; implied matches fill the legs of a spread one engine at a time;
pools and engines keep session states beside each other; reports are broadcast
to clients that number their orders alike; frames and packets arrive in pieces,
late or not at all; a restarted process meets consumers of the old one.
`PROJECT.json` lists each hazard at its line with the properties that watch it.

## 2. Modules

| Module | Models | How |
|---|---|---|
| `OrderBook` | the two books | a book is a function from side and price to the queue of order ids; a level exists while its queue is not empty |
| `ExchangeHooks` | the overrides of CME, ICE and KRX | pure operators that take the name of the exchange |
| `MatchingEngine` | the engine with the FIFO policy | one call is a sequence of small steps under `pc` |
| `EngineAuction` | auction price, uncrossing, the CME trading day | extends the engine with the auction's loops |
| `EngineHistory` | nothing of its own | remembers of each live order whether it was matched to the end and whether its price was checked, which the engine forgets and properties need |
| `DepthMirror` | `OrderbookState` fed by the engine | the engine's step and the listener's reaction in one action |
| `MatchPolicies` | all matching policies | functions from a level and a quantity to the fills; a level is matched again and again |
| `RateTracker` | the message throttle | the window of each account beside the history of what was let through |
| `ImpliedPrices`, `SpreadBook` | strategies, implied prices, spread books over engines | one action per match, phase or leg batch; the legs' engines reduced to books |
| `TradingSessions` | `ExchangeSimulator` and the three trading days | one action per simulator call; engines at the grain of whole calls |
| `ILink3Codec`, `FixCodec` | order-entry messages | records of the fields somebody reads, with conversions, widths and nulls |
| `OrderEntry` | clients, gateways, publishers and runner loop of three venues | queues of encoded messages; one action per message handled |
| `TcpFraming` | server and client sockets | bytes; one action per read, cut, compact, send |
| `Mdp3Codec`, `ImpactCodec`, `FastCodec` | market-data messages | groups with lengths and counts; bundles; bytes with stop bits |
| `FeedExchange`, `FeedObserver`, `MarketDataFeed` | the feed: publisher and runner; observer; both with a shared-memory viewer | one action per flush, packet, recovery, restart |
| `FixText`, `WireCodecs` | FIX framing byte by byte; encode, damage, decode | one message per behaviour |
| `SpscRingBuffer` | the ring, one memory access per step | acquire loads may return any value since the last one seen; counters wrap at `Width` |
| `BoundedFifo` | what the ring promises | the abstract specification of its refinement |
| `MCEngine`, `MC*` | instances for TLC | profiles, accounts, prices |
| `OrderBookProofs`, `BookLinkProofs` | lemmas on queues, levels and links | TLAPS, section 4 |
| `EngineInvariant`, `EngineBookSteps`, `EngineUnlinkSteps`, `MatchingEngineProofs` | theorems about the engine | TLAPS, section 4 |
| `SpscRingBufferProofs` | theorems about the ring | TLAPS, section 4 |

### The engine

A call runs to completion, so while `pc # "idle"` only its own steps are enabled.
`new_order` is `NewOrder` (validation, acceptance) followed by `InsertStop`,
`Collect`, or the match: `BeginMatch` (FOK check), `TakeLevel`, `FifoStep`s (the
policy), then `FillPartial`/`FillReveal`/`FillRemove` per fill or
`DetectSelfMatch`, `UndoFill`s and one `Smp...` step, then the limit and
volatility checks, `PostFilled` or `PostRemainder`, and `TriggerStop` for the
cascade. `event` and `depth` hold what the last step told the listeners, so
that properties can speak of what a listener sees and when. A request the engine
refuses changes nothing and is left out.

Mapping of state: `ord` is the `Order` objects by id, `index` the non-null
entries of `order_index_`, `freeOrders`/`freeLevels` the object pools,
`levelTotal` each level's `total_quantity`, `walk`/`fills` the locals of
`match_order`, `sweep` what a mass cancel has still to visit. An order's `level`
is the price of the level it is linked in.

What the code fixes at compile time or in `EngineConfig` is a *profile*: the
exchange whose hooks apply, pool sizes, tick, lot, limits, SMP action, modify
policy, and the calls and requests its clients make. `Profiles` is a constant,
`profile` is chosen in `Init` and never changes, so one run covers several
configurations of the engine.

A stop order linked in, or removed through, the wrong book is followed as far as
the list operations are well defined. Where they would overwrite the head of the
wrong list the model enters `pc = "corrupt"` and says nothing further.

Definitions marked "Mutant of X" are plausible slips in X, kept beside it to show
that the properties are sensitive to the code.

Left out of the engine: prices and quantities are small integers (overflow of
64-bit values is not in question), timestamps (GTD expiry is a choice of any
subset of GTD orders), client order ids, level-3 and top-of-book messages, the
256-entry fill buffer. The rate throttle, the sidecar and `apply_implied_fills`
are in modules of their own.

### Spreads

`outright` is the book of each leg's engine, `spread` the orders of each spread
book, `pc` the call in progress. `new_spread_order` matches directly
(`match_direct`), rests or cancels the remainder (`finish_new_order`) and then
runs `try_implied_in`, both sides. `on_outright_bbo_change`, which the caller of
the simulator invokes when it sees fit, runs implied-out for every spread with a
leg in the instrument, in any order. A leg batch is applied leg by leg,
and a refused leg leaves the earlier ones filled, as in the code. A profile is a
set of spreads with the orders sent. In `distinct` two spreads share both engines,
one with ratio 1:2, and one outright order is an iceberg, so that a best quote
shows less than its order has. The others are spreads of KRX: `override` is
KS-MKS with its ticks divided by 100, `calendar` and `butterfly` are KS-CAL and
KS-BF, all of whose legs are one instrument. The ids of outright orders live for
one step only, so between the steps orders are numbered by their place.

### Sessions

`pool` is the `current_state_` of each `ExchangeSimulator`, `engine` the engines
behind it with their own state, orders, limits, breaker and statistics. Each call
of a simulator (`open_market`, `close_market`, `end_of_day`, ...) is one action
that changes the pool and all its engines in the order of the code; orders,
cancels, modifies and the volatility and circuit-breaker calls come in between.
A profile says which of these its users make.

### Order entry

`up` and `down` are the two directions of each connection, `client` what a
`SimClient` or the command line sender knows, `pub` the publisher's order data
and unsent reports, `engine` the books. The runner handles one request, then
sends all reports to every connected client. `executed` records what really was
traded for each client.

### Framing

`wire` is what TCP has not delivered, `kernel` what the server can `recv`,
`state` its `ClientState` with `recv_buf`, `read_pos` and `write_pos`; `back` and
`got` are the way to the client. `edge` is the pending epoll event: it is raised
by arriving bytes only, so a handler that stopped early would never be called
again.

### Market data

`ex` is the exchange process (books, unsent packets, counters), `net` the three
channels with what is on its way, `obs` the observer's `DisplayState` and phase,
`shm` and `view` the segments and the viewer. `missed` holds the events whose
packet never reached the observer, and why: `lost` after a packet with a number
the observer compares with, `unnumbered` where it has none (before the first
packet, or after number 0), `unjoined`, `blocked`, `restart`. A datagram is lost, overtaken, or dropped at a
full socket; a recovery or a discovery times out; the exchange stops, crashes
and starts again. The books are limit orders; what the engine publishes for a
call is the sequence of events `MatchingEngine` fires for it.

### Codecs

A conversion is what it computes: narrowing, scaling by 10000, null values, the
byte that counts a group's entries, stop bits and sign bits, FIX lengths and
checksums. Fields that nobody reads (times, text, ids of executions) are left
out. `FastCodec` is parametrised by the bits of a group and of a word: the feed
uses groups of 7 bits, `WireCodecs` groups of 2 in words of 7, so that every
integer is tried.

## 3. Runs

`CHECK_DEADLOCK FALSE` is set where the system may stop: the clients' ids are
used up, the day is over, the one message has been decoded. The spread book and
the ring have no such state and are checked for deadlock.

| Run | Question | Instance |
|---|---|---|
| `matching` | consistency of books, index and pools, totals, price-time priority, no self-trade, pending fills valid, orders end filled or cancelled, every call ends | seven profiles: `continuous` (CME, 4 orders, cancel and modify), `cancelOldest`, `cancelBoth`, `decrement` (ICE, accounts 1, 2 and none, so that a self-match is the first, a middle or the last fill of a level), `stops` (cascades; 3 order and 3 level slots, so both pools run out), `operations` (KRX with one daily limit and a volatility check; mass cancel, expiry, restore, bust, session changes), `icebergs` (resting and incoming icebergs, amend-down, bust) |
| `lifecycle` | totals, positions, what may cross the book or wait in it, and a listener's book under all other calls; trades within the limits in force | `lifecycle` (icebergs, bust, expiry, mass cancel, amend), `recovery` (restore under new and used ids, bust), `careless` (stops and icebergs modified, stops restored), `limits` (KRX tiers, volatility interruption, lock limit; prices at each tier's limit), `locked` (one tier; IOC and FOK orders in a locked market, modify and restore to prices outside the limits), `mirrored` (several orders at one price), `cancelBoth` (self-matches at a level with other orders) |
| `auction` | the price is the best by every criterion, its whole volume trades at the heads of the best levels, the open is uncrossed | 4 orders at 3 prices, with and without icebergs and a reference price |
| `ring` | race freedom, refinement of a bounded queue | capacity 2, counters modulo 8, so they wrap many times |
| `spread` | legs filled whenever a spread order is, at prices that add up; implied loops neither stop early nor run for ever; only a modify leaves a crossed book | four profiles (two instruments with two spreads; an overridden tick; a calendar and a butterfly of one instrument), 2 or 3 spread orders, 2 level slots |
| `sessions` | engines follow their pool, continuous books are uncrossed, day orders expire in every pool | the three venues with different users; two days and 3 orders, or one day and up to 6; bands of 5% (ICE: 10) around the last trade |
| `order_entry` | a trader's position and open orders are right when nothing is on its way; cancels hit the trader's own orders; every new order is answered; wire quantities fit their fields | market maker, random walk and command line sender on CME; two walkers on ICE and KRX |
| `framing` | exactly the frames sent, in order; all of them, also after an early close | messages of 1, 3 and (too long) 4 bytes, a buffer of 4, a socket of 6 |
| `feed` | well-formed packets; losses that can be noticed repaired by snapshots; gaps are real; trades once; a drained viewer exact | 13 profiles: one or two losses, late start, restart, two products, discovery, no recovery, each venue, viewer |
| `algorithms` | policies keep what they promise; the rate window; codecs on whole, cut and changed messages | all levels of up to 3 orders of 4 lots; 5 messages over 5 instants; snapshots of 0 to 256 levels; all 7-bit integers, plain and nullable; FIX bodies of 3 fields with any byte changed or the text cut anywhere |

Bounds. Four orders are enough for two orders at one level, a third behind them
and an aggressor that crosses two levels, the smallest case in which an undo, a
requeue or a cascade meets a second order of the same level. Two spreads over
two shared legs are the smallest case in which one implied match changes the
quotes of another book. Two losses, with a recovery in between, are the smallest
case in which a snapshot is older than one packet and newer than another. In
`framing` the buffer is smaller than a frame, so it grows, compacts and wraps
its cursors.

Fairness. In the engine, weak fairness of the steps of a running call: the
thread that entered the engine keeps running; nothing is assumed of the callers.
In `OrderEntry`, every queue that is not empty is read from eventually: the
runner polls its sockets in a loop, a trader's loop reads its socket and sends
what it planned. In `TcpFraming`, TCP delivers what was sent and the server's
loop serves a raised event. Both are stated by what happens (a queue gets
shorter) rather than with `WF`, which means the same for these actions and is
quicker to check.

Conditions. Some properties carry one because the code needs it.
`CarefulClients` modify only limit orders, and to more than is filled;
`CallReturnsAfterCancel` excludes SMP actions that change nothing,
`EndsAsPromised` says that a FOK order has not traded for an exchange without
self-match prevention whose phases collect nothing, and lets icebergs end in the
two ways of section 5; `QuantitiesAddUp` leaves out the filled quantity of
icebergs; `BookInOrder` and `ShownIsExact` are about careful clients.
`BookInOrder` names the orders that may cross the book or wait in it against
their kind: those that were collected, restored, or whose match a limit or a
volatility check broke off. `ShownIsExact` excepts a level that a bust or
CancelBoth has changed since its last update, `TradesWithinLimits` a resting
order whose price came from a modify or a restore, `ImpliedPriceHonoured` the
rounding to an overridden tick (less than one tick, and nothing where the tick
divides what the legs contribute) and outdated quotes of legs that are one
instrument; `AuctionClears` says that the book opens uncrossed without icebergs;
`ClientsAgree` and `CancelsHitOwn` are about `Reliable` profiles (one trader,
orders of one lot, no replace); `RecoveryExact` about recoveries that were
answered and losses that can be noticed, its second half about a CME observer of
the only product; `ViewExact` about a ring that never overflowed; the client half of
`FramesExact` ends when a frame is cut. Section 5 says what happens otherwise.

### Runs that show a disagreement

| Run | Statement contradicted |
|---|---|
| `fix_overfill` | the encoder's assertion that no order is over-filled (`ice/fix/fix_encoder.h:198`): one publisher serves all instruments and keeps orders by id alone (`ice/fix/ice_fix_exec_publisher.h:61`), so order 1 of one instrument replaces order 1 of another and the fills of both add up |
| `krx_endless_recovery` | a gap is a gap (`tools/exchange_observer.cc:963`): the number of a KRX snapshot, from a counter of its own, is taken for that of the incremental channel |

## 4. Proofs

### The ring

`SpscRingBufferProofs`, for every `Capacity`, `Width` and set of items with
`Width % Capacity = 0` and `Width >= 2 * Capacity` (`RingAssumption`; the code
asserts a power of two below 2^64, which implies both):

- `RingInvariant`: `Spec => []RingInv`. The four positions `seenRead`,
  `read_pos`, `seenWrite`, `write_pos` lie in this order on the ring, within one
  capacity, and a thread that has passed its check keeps its room. Race freedom
  alone is not inductive: it needs to know that a stale counter errs on the safe
  side. The modular distances are handled by lemmas on `Distance`, proved once.
- `RaceFreedom`: `Spec => []NoSharedSlot`, from `RingInvariant`: two equal slots
  would put the counters a multiple of the capacity apart, strictly between 0 and
  the capacity.

### The engine

For every finite set of positive prices (`PricesAssumption`), every set of
accounts, number of ids and set of profiles whose requests are well typed
(`EngineAssumption`); in particular for any pool size, hook and SMP action:

- `Invariance`: `Spec => []EngineInv`, the inductive invariant;
- `TypeCorrect`, `Consistency`, `FillsStayValid`: it implies `TypeOK`,
  `BooksConsistent` and `FillsPointToResting`;
- `NoSelfTrades`: `Spec => []NoSelfTrade`, by an induction of its own on the
  record of trades.

`BooksConsistent` alone is not inductive. A step acts on orders it was handed by
an earlier one: the order in hand, the fills computed ahead, the rest of the
walk, the victim of a self-match, the ids a mass cancel has yet to visit. If one
of those were stale the step would give back a slot twice. `EngineInv` adds

| Conjunct | Says |
|---|---|
| `Structure` | ids in use lie below `next_order_id_`; the links agree; the pools add up; every live order that may be linked by its price has one |
| `CurrentLive` | which steps hold an order, and that it is alive and in no queue |
| `MatchPending` | walked orders and pending fills rest in the book, each once |
| `SweepLive` | the ids still to be cancelled are alive |

Layers: `OrderBookProofs` says what inserting, removing and requeueing do to one
queue, to all the others and to the number of levels. `BookLinkProofs` lifts that
to the agreement of orders, index and two books (`LinksOK`) and to the pending
fills (`PendingIn`), as facts about constants. `EngineInvariant` states
`EngineInv` and covers the steps that change control or quantities only,
`EngineBookSteps` those that link an order or give back one in no queue,
`EngineUnlinkSteps` those that take an order out of a queue, and
`MatchingEngineProofs` modify, triggered stops and icebergs, and then puts one
case per action together.

Only model-checked: what is a sum over a queue or over the trades
(`QuantitiesAddUp`, `PositionsMatchTrades`), since that needs induction over data
that the prover cannot do; liveness (`CallReturnsAfterCancel`,
`NewOrdersAnswered`, `FramesDelivered`); the priority and limit properties; the
refinement of `BoundedFifo`; the auction, and everything in the modules above
that are not the engine or the ring. `FixText` has a recursive parser, which the
prover does not take at all.

## 5. What the conditions leave out

These behaviours of the code were met while modelling. The models have them; the
properties are stated so that they hold beside them.

Engine:
- a FOK order that meets its own account after other fills ends partly filled
  (`matching_engine.h:1555`; the check at 1337 counts the account's own orders);
- `SmpAction::Decrement` changes nothing and the matching loop never ends (1716);
- stops set off by the trade that locks the limit are matched in LockLimit (1633);
- a modify of a stop order unlinks it through the main book (395);
- an iceberg modified to less still reveals tranches of its old total (410); one
  that is filled as it comes in ends with its first tranche, neither filled to
  its quantity nor cancelled (243, 1524);
- IOC and FOK orders rest in a locked market (266), and may trade in part later;
- a limit or volatility check breaks off a match and the rest of the order joins
  the book; on KRX the limits may have widened meanwhile (1489), and the book is
  then crossed in continuous trading until an order trades through it;
- a modify (344) and a restore (512) do not look at the daily limits, and the
  order may trade outside them;
- restore takes any free id (500); the trades of an order that had the id before
  can be busted onto the new one (583);
- tranches revealed in an auction can leave the book crossed at the open (862);
- a filled order is published as Remove of its level although others rest there,
  so a mirror of the book misses the level (1469); a bust publishes no depth (565),
  and CancelBoth none where the level keeps other orders (1699), so a mirror shows
  an old quantity until the level changes again.

Spreads: a leg refused after another was filled stays half executed
(`spread_book.h:606`); an order is dropped without an event when the levels run
out (395); a modify rests without matching (297). The implied-out price is rounded
toward zero (`implied_price_engine.h:261`): with the override of KS-MKS, 200 where
the legs move in steps of 500 (`krx_spreads.h:125`), a spread order is filled up to
100 short of its limit. After a refused leg the second pass goes on with the quotes
of the first (`spread_book.h:334`); where the legs are one instrument it can fill a
spread order against worse quotes than its limit allows, if a modify has left the
spread book crossed.

Sessions: a circuit breaker resumed late reopens a closed engine
(`ice_exchange.h:106`); a modify in a collection phase matches at once; what a
volatility interruption collects after hours on KRX is never uncrossed; a new
reference price keeps the limits of the day before (`krx_exchange.h:95`); the
reference of every auction is 0, because nothing feeds the statistics
(`exchange_simulator.h:129`).

Order entry: the orders of two instruments with the same id share one entry of the
FIX publishers (section 3); the publisher of CME forgets a resting order at its first
`OrderFilled` (`ilink3_report_publisher.h:71`); two traders that number from 1
book each other's fills (`cme_sim_runner.cc:210`); a trader keeps a replaced
order as open; a FIX cancel takes the client's id for the engine's.

Transports and feeds: a send at a full socket stops in the middle of a frame
(`tcp_server.cc:217`); a packet the socket refuses is dropped without a number
(`udp_multicast.h:26`); numbers start at 0 (`udp_multicast.h:41`), which the observer
takes for no number yet (`exchange_observer.cc:964`), so a loss right after the
first packet is not seen as a gap, though the comment above says that a gap
triggers recovery; every product is published under the id of the first, so an
observer of that id mixes them and one of another id sees none; the top of an
empty side reaches the CME screen as a level without a price and of quantity 0
(`mdp3_encoder.h:178`, `display_state.h:110`), as a bid the best one, and stays
there; a recovery that times out leaves a stale book; ICE
snapshots do not clear the display (`ice_recovery.h:96`); KRX quotes never remove
an old best level; a restarted exchange re-initialises the ring under an
attached viewer (`shm_transport.cc:54`).

## 6. Not modelled, and the plan

- Multi-leg coordinator and circular guard: only their own tests use them.
- Journal writer, parser and reconciler, recorded events, test runner, replayers,
  packet captures, event and latency logs: one pass over a file, no state that
  outlives a call and nobody to interleave with. The decoders and calls they use
  are modelled.
- Rendering (observer screen, dashboard, viewer, TUI), command lines, product and
  spread tables, benchmarks and journal generators: layout and data.
- Narrowings of the instances: priority and order endings are checked for
  continuous matching, not for the trades of auctions and implied fills, which
  `AuctionExecutes` and the spread properties cover; `order_entry` has ICE and KRX
  traders that number their orders alike; the feed reaches PreOpen,
  Continuous and Closed, and quantities of whole lots; a connection is closed
  in order, never reset with replies unread.
- Within modelled parts: duplicated datagrams, the FIX and iLink3 session
  messages, profit and loss of the client, level-3 actions, the limit on spread
  order ids, byte offsets of the SBE messages.

Proofs to come: the ring implements `BoundedFifo`; price-time priority of the
engine; `BooksConsistent` through the auction's steps; framing.
