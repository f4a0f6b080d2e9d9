-------------------------- MODULE MCMarketDataFeed --------------------------
(* Instances of MarketDataFeed: one venue, observer and fault budget each. *)
EXTENDS MarketDataFeed

Profile(venue) ==
    [venue |-> venue, products |-> 1, asked |-> 1, observer |-> TRUE, early |-> FALSE,
     opened |-> TRUE, discover |-> FALSE, recovery |-> IF venue = "ice" THEN "tcp" ELSE "snapshot", shm |-> FALSE,
     changes |-> 2, faults |-> 0, timeouts |-> 0, rounds |-> 0, boots |-> 0,
     prices |-> [Buy |-> {101, 102}, Sell |-> {103}], qtys |-> {10000}]

FeedProfiles ==
    [gaps     |-> [Profile("cme") EXCEPT !.early = TRUE, !.faults = 1, !.changes = 3],
     losses   |-> [Profile("cme") EXCEPT !.early = TRUE, !.faults = 2, !.changes = 3,
                                         !.timeouts = 1, !.prices = [Buy |-> {101}, Sell |-> {}]],
     late     |-> [Profile("cme") EXCEPT !.faults = 1],
     opening  |-> [Profile("cme") EXCEPT !.faults = 1, !.early = TRUE, !.opened = FALSE,
                                         !.changes = 1],
     deep     |-> [Profile("cme") EXCEPT !.changes = 4, !.early = TRUE,
                                         !.prices = [Buy |-> {100, 101, 102}, Sell |-> {}]],
     two      |-> [Profile("cme") EXCEPT !.products = 2, !.discover = TRUE, !.asked = 2,
                                         !.faults = 1, !.rounds = 2, !.timeouts = 1,
                                         !.changes = 1],
     alone    |-> [Profile("krx") EXCEPT !.discover = TRUE, !.asked = 0, !.rounds = 1,
                                         !.timeouts = 1],
     ice      |-> [Profile("ice") EXCEPT !.discover = TRUE, !.faults = 1, !.rounds = 2,
                                         !.timeouts = 1],
     quotes   |-> [Profile("krx") EXCEPT !.early = TRUE, !.opened = FALSE, !.faults = 1],
     none     |-> [Profile("cme") EXCEPT !.recovery = "none", !.faults = 1],
     refused  |-> [Profile("ice") EXCEPT !.recovery = "snapshot", !.changes = 1],
     reboot   |-> [Profile("cme") EXCEPT !.early = TRUE, !.boots = 1],
     viewer   |-> [Profile("cme") EXCEPT !.observer = FALSE, !.shm = TRUE, !.boots = 1,
                                         !.changes = 3]]

\* KRX with nothing lost, nothing late and no restart.
KrxProfiles == [krx |-> Profile("krx")]

\* TLC evaluates what it puts for a constant at every use, and what that refers to
\* once.
MCProfiles == FeedProfiles
=============================================================================
