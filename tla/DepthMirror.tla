---------------------------- MODULE DepthMirror ----------------------------
(***************************************************************************)
(* The engine together with a consumer of its depth updates: the book an   *)
(* OrderbookState (tools/orderbook_state.cc) builds from them.  The        *)
(* listener is called synchronously, so the consumer moves in the same     *)
(* step as the engine.                                                     *)
(***************************************************************************)
EXTENDS EngineHistory

VARIABLES mirror,    \* bids_ and asks_: published quantity by price, 0 if absent
          untold     \* levels the engine changed without telling, <<side, price>>

mirrorVars == <<vars, historyVars, mirror, untold>>

\* Mutant of Apply: published quantities are added up.
AddUp(m, d) ==
    CASE d.action = "none" -> m
      [] d.action \in {"Add", "Update"} -> [m EXCEPT ![d.side][d.price] = @ + d.quantity]
      [] d.action = "Remove" -> [m EXCEPT ![d.side][d.price] = 0]

\* apply(DepthUpdate): a level is set to the published state or erased.
\* Applying the same update twice changes nothing.
Apply(m, d) ==
    CASE d.action = "none" -> m
      [] d.action \in {"Add", "Update"} -> [m EXCEPT ![d.side][d.price] = d.quantity]
      [] d.action = "Remove" -> [m EXCEPT ![d.side][d.price] = 0]

\* Two operations change a level in silence: a bust, which gives quantity back to
\* the orders that are alive, and CancelBoth, which takes the resting order from a
\* level that keeps others.  The level's next depth update makes up for it.
Place(id) == <<ord[id].side, ord[id].level>>
Silenced ==
    CASE event'.kind = "Busted" -> {Place(id) : id \in {event'.id, event'.resting} \cap index}
      [] pc' = "smpBoth" /\ depth'.action = "none" -> {Place(event'.id)}
      [] OTHER -> {}
Untold == (untold \cup Silenced) \ {<<depth'.side, depth'.price>>}

MirrorInit ==
    /\ Init /\ HistoryInit
    /\ mirror = [side \in Sides |-> [price \in Prices |-> 0]] /\ untold = {}
MirrorNext == Next /\ HistoryNext /\ mirror' = Apply(mirror, depth') /\ untold' = Untold
MirrorSpec == MirrorInit /\ [][MirrorNext]_mirrorVars

\* What the consumer shows is never out of date: between calls every level it
\* shows is a level of the engine's book with exactly that quantity, but for the
\* levels a bust or CancelBoth has changed since their last update.  A client that
\* modifies or restores stops breaks the book itself.
ShownIsExact ==
    (pc = "idle" /\ CarefulClients) =>
        \A side \in Sides, price \in Prices :
            (mirror[side][price] # 0 /\ <<side, price>> \notin untold) =>
                mirror[side][price] = levelTotal[side][price]

=============================================================================
