---------------------------- MODULE MCSessions ----------------------------
(***************************************************************************)
(* TradingSessions for TLC: the three simulators, with the users each of   *)
(* them may have.                                                          *)
(***************************************************************************)
EXTENDS TradingSessions

Users2(ven, cs) == [venue |-> ven, calls |-> cs, prices |-> {100, 104}, tifs |-> {"DAY", "GTC"},
                   references |-> {100}, orders |-> 3, days |-> 2]

SessionProfiles ==
    {Users2("CME", {"cancel", "stats"}),
     \* the bands around a trade at one price keep new orders off the other
     [Users2("CME", {"modify"}) EXCEPT !.prices = {100, 106}],
     Users2("ICE", {"breaker"}),
     [Users2("ICE", {"breaker", "late resume"}) EXCEPT !.orders = 2],
     Users2("KRX", {"cancel"}),
     Users2("KRX", {"modify", "sidecar"}),
     \* enough trades to widen the limits twice, and to lock the market; the limits of
     \* this reference are each within the bands of the one before
     [venue |-> "KRX", calls |-> {}, prices |-> {20, 21, 22}, tifs |-> {"GTC"},
      references |-> {19}, orders |-> 6, days |-> 1],
     \* interruptions, and what is collected in them
     [venue |-> "KRX", calls |-> {}, prices |-> {100, 104}, tifs |-> {"GTC"},
      references |-> {100}, orders |-> 5, days |-> 1]}

\* TLC evaluates what it puts for a constant at every use, and what that refers to
\* once.
MCProfiles == SessionProfiles
=============================================================================
