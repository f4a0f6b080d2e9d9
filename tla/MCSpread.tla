------------------------------ MODULE MCSpread ------------------------------
(***************************************************************************)
(* Spreads as the product tables of the exchanges define them: a calendar  *)
(* spread of one lot of each of two instruments and a ratio spread of one  *)
(* lot against two over the same books; the spread of the index future     *)
(* against the mini, whose tick is overridden to that of the mini; and     *)
(* KRX's calendar and butterfly, all of whose legs are one instrument.     *)
(***************************************************************************)
EXTENDS SpreadBook

TickedLeg(inst, ratio, tick) ==
    [inst |-> inst, ratio |-> ratio, mult |-> AbsVal(ratio), tick |-> tick, lot |-> 1]
Leg(inst, ratio) == TickedLeg(inst, ratio, 1)

Plain(inst, side, price, qty) ==
    [inst |-> inst, side |-> side, price |-> price, qty |-> qty, display |-> 0, hidden |-> 0]
Request(k, side, price, qty, tif) ==
    [spread |-> k, side |-> side, price |-> price, qty |-> qty, tif |-> tif]

Distinct ==
    [config |-> [cal |-> [legs |-> <<Leg("A", 1), Leg("B", -1)>>, tick |-> 0, lot |-> 0],
                 rat |-> [legs |-> <<Leg("A", 1), Leg("B", -2)>>, tick |-> 0, lot |-> 0]],
     maxOutrightOrders |-> [A |-> 1, B |-> 2],
     outrightRequests |->
         {Plain("A", "Buy", 2, 1), Plain("A", "Sell", 3, 2), Plain("B", "Sell", 3, 2),
          [Plain("B", "Buy", 2, 2) EXCEPT !.display = 2, !.hidden = 2]},
     maxSpreadOrders |-> 3,
     spreadRequests |->
         {Request("rat", "Buy", -1, 2, "GTC"), Request("rat", "Sell", -1, 2, "FOK"),
          Request("rat", "Sell", -4, 1, "DAY"), Request("cal", "Sell", -1, 1, "IOC"),
          Request("cal", "Sell", -1, 1, "DAY")},
     spreadChanges |-> {[price |-> -5, qty |-> 1]}]

\* KS-MKS with its ticks of 500 and 200 divided by 100.
Override ==
    [config |-> [mks |-> [legs |-> <<TickedLeg("K", 1, 5), TickedLeg("M", -5, 2)>>,
                          tick |-> 2, lot |-> 0]],
     maxOutrightOrders |-> [K |-> 2, M |-> 2],
     outrightRequests |->
         {Plain("K", "Buy", 15, 2), Plain("K", "Sell", 25, 1),
          Plain("M", "Sell", 4, 5), Plain("M", "Buy", 2, 5)},
     maxSpreadOrders |-> 3,
     spreadRequests |->
         {Request("mks", "Sell", -4, 2, "GTC"), Request("mks", "Buy", 14, 1, "DAY")},
     spreadChanges |-> {[price |-> -6, qty |-> 1]}]

\* KS-CAL, with a head order smaller than its level on the side its second leg takes.
Calendar ==
    [config |-> [cal |-> [legs |-> <<Leg("K", 1), Leg("K", -1)>>, tick |-> 0, lot |-> 0]],
     maxOutrightOrders |-> [K |-> 4],
     outrightRequests |->
         {Plain("K", "Buy", 2, 2), Plain("K", "Buy", 1, 2), Plain("K", "Sell", 3, 1)},
     maxSpreadOrders |-> 2,
     spreadRequests |->
         {Request("cal", "Sell", -1, 2, "GTC"), Request("cal", "Buy", -2, 1, "GTC")},
     spreadChanges |-> {[price |-> 1, qty |-> 1]}]

\* KS-BF, whose outer legs take the same order.
Butterfly ==
    [config |-> [bf |-> [legs |-> <<Leg("K", 1), Leg("K", -2), Leg("K", 1)>>, tick |-> 0, lot |-> 0]],
     maxOutrightOrders |-> [K |-> 3],
     outrightRequests |->
         {Plain("K", "Buy", 2, 1), Plain("K", "Buy", 2, 2), Plain("K", "Sell", 3, 2)},
     maxSpreadOrders |-> 2,
     spreadRequests |->
         {Request("bf", "Sell", -2, 1, "GTC"), Request("bf", "Buy", -3, 1, "GTC")},
     spreadChanges |-> {[price |-> 2, qty |-> 1]}]

SpreadProfiles == [distinct |-> Distinct, override |-> Override, calendar |-> Calendar,
                   butterfly |-> Butterfly]

\* TLC evaluates what it puts for a constant at every use, and what that refers to
\* once.
MCProfiles == SpreadProfiles
=============================================================================
