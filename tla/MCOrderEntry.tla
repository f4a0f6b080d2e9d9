-------------------------- MODULE MCOrderEntry --------------------------
(* Instances of OrderEntry: who is connected and what they do.  Every       *)
(* exchange_trader numbers its orders from 1; --cl-ord-id sets apart those  *)
(* of ilink3_send_order.  The bounds of a profile: maxCl on the order ids   *)
(* of a trader, count on the messages of a sender, targets and olds on the  *)
(* draws of the random walk, window on what is on its way when a trader ticks. *)
EXTENDS OrderEntry

Lot == 10000                    \* one contract
Args(command, side, price, id) ==
    [command |-> command, side |-> side, price |-> price, order_id |-> id, scope |-> "None"]
Orders(sides, prices) ==
    [{"s"} -> {Args("NewOrder", side, price, 0) : side \in sides, price \in prices}]
MassActions ==
    [{"s"} -> {[Args("MassCancel", "Buy", 0, 0) EXCEPT !.scope = scope] :
                  scope \in {"Instrument", "All"}}]

\* A market maker and the command line sender on CME.
Maker ==
    [venue |-> "CME", instruments |-> {"es"},
     kind |-> [t |-> "trader", s |-> "sender"], strategy |-> [t |-> "mm", s |-> "none"],
     inst |-> [t |-> "es", s |-> "es"], account |-> [t |-> 1, s |-> 2],
     firstCl |-> [t |-> 1, s |-> 100], tick |-> 2, spread |-> 4, ref |-> 100,
     lot |-> [t |-> Lot, s |-> Lot],
     rate |-> 2, targets |-> {1}, moves |-> FALSE, maxCl |-> 3, max_position |-> Lot,
     count |-> 1, args |-> Orders({"Buy", "Sell"}, {98, 102}),
     stops |-> FALSE, window |-> 4, olds |-> 1]

\* The sender cancels by exchange order id, or replaces.
Busy == [Maker EXCEPT !.maxCl = 3, !.window = 2,
                      !.args = [{"s"} -> {Args("Cancel", "Buy", 0, id) : id \in {1, 2}}]]
Replacing == [Maker EXCEPT !.moves = TRUE, !.maxCl = 2, !.window = 2,
                           !.args = [{"s"} -> {Args("Replace", "Buy", 102, 1)}]]
Mass == [Maker EXCEPT !.maxCl = 2, !.args = MassActions]

\* The random walk, interrupted; and with orders that are moved.
Walker == [Maker EXCEPT !.strategy.t = "rw", !.spread = 0, !.maxCl = 2,
                        !.rate = 1, !.args = Orders({"Sell"}, {104}), !.stops = TRUE,
                        !.window = 1]
Mover == [Walker EXCEPT !.moves = TRUE, !.spread = 2, !.count = 0, !.maxCl = 3,
                        !.stops = FALSE]

\* Orders of two lots: of the trader, then of the sender.
Large == [Maker EXCEPT !.lot.t = 2 * Lot, !.max_position = 2 * Lot, !.maxCl = 2,
                       !.args = Orders({"Sell"}, {98, 102})]
Sweep == [Maker EXCEPT !.lot.s = 2 * Lot, !.maxCl = 2, !.args = Orders({"Sell"}, {0, 98})]

\* A trader whose instrument the exchange does not have.
Elsewhere == [Maker EXCEPT !.inst.t = "nq", !.maxCl = 2]

\* Two random walks on ICE or KRX, in one instrument or in two.
Ice ==
    [Walker EXCEPT !.venue = "ICE", !.kind = [t |-> "trader", u |-> "trader"],
                   !.strategy = [t |-> "rw", u |-> "rw"], !.inst = [t |-> "es", u |-> "es"],
                   !.account = [t |-> "FIRM_A", u |-> "FIRM_B"],
                   !.firstCl = [t |-> 1, u |-> 1], !.lot = [t |-> Lot, u |-> Lot],
                   !.args = {<<>>}, !.stops = FALSE]
Krx == [Ice EXCEPT !.venue = "KRX"]
IceLost == [Ice EXCEPT !.inst.u = "nq"]
Ice2 == [Ice EXCEPT !.instruments = {"es", "nq"}, !.inst.u = "nq", !.maxCl = 4]

EntryProfiles ==
    [maker |-> Maker, busy |-> Busy, replacing |-> Replacing, mass |-> Mass,
     walker |-> Walker, mover |-> Mover, large |-> Large, sweep |-> Sweep,
     elsewhere |-> Elsewhere, ice |-> Ice, krx |-> Krx, iceLost |-> IceLost]
FixProfiles == [ice2 |-> Ice2]

\* TLC evaluates what it puts for a constant at every use, and what that refers to
\* once.
MCProfiles == EntryProfiles
=============================================================================
