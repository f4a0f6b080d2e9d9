--------------------------- MODULE EngineHistory ---------------------------
(***************************************************************************)
(* The engine with a record of how the live orders got their place and     *)
(* their price.  The engine forgets both, and both decide what may be said *)
(* of the book: an order that came to rest without being matched may cross *)
(* it, and a price that no check has seen may be outside the limits.       *)
(***************************************************************************)
EXTENDS MatchingEngine

VARIABLES unmatched,  \* live orders whose last matching, if any, was not finished
          unchecked   \* live orders whose price was not held against the limits

historyVars == <<unmatched, unchecked>>

\* The level loop is left by break, with quantity to trade and levels to go.
Interrupted == pc = "limits" /\ pc' = "post"

\* An order is collected, restored or interrupted; the next match it goes
\* through, after a modify, is a new start.
Unmatched ==
    CASE pc \in {"collect", "restore"} \/ Interrupted -> unmatched \cup {cur}
      [] pc' = "start" -> unmatched \ {cur'}
      [] OTHER -> unmatched

\* modify_order and restore_order take a price without validate_order.
Unchecked ==
    CASE pc = "restore" -> unchecked \cup {cur}
      [] pc = "idle" /\ pc' = "start" /\ event'.kind = "Modified" -> unchecked \cup {cur'}
      [] OTHER -> unchecked

HistoryInit == unmatched = {} /\ unchecked = {}
HistoryNext == unmatched' = Unmatched \cap index' /\ unchecked' = Unchecked \cap index'

-----------------------------------------------------------------------------
\* Between calls, in every phase, a bid at or above an ask is due to an order that
\* was collected or restored, or whose matching a limit or a volatility check broke
\* off; orders that went through a whole match never cross (the loop of
\* match_order, the order of unlinking and inserting in modify_order).
CrossedOnlyByUnmatched ==
    pc = "idle" =>
        \A bid, ask \in index :
            (/\ ord[bid].side = "Buy" /\ InBook(book, bid)
             /\ ord[ask].side = "Sell" /\ InBook(book, ask)
             /\ ord[bid].level >= ord[ask].level)
                => {bid, ask} \cap unmatched # {}

\* What rests in the book is a limit order, and one that may not wait (IOC, FOK)
\* rests only because it was collected, as a locked market does, or restored.
WaitsOnlyUnmatched ==
    \A id \in index \ {cur} :
        InBook(book, id) => /\ ord[id].type = "Limit"
                            /\ ord[id].tif \in {"IOC", "FOK"} => id \in unmatched

\* The book between calls: crossed only by, and holding no order that may not
\* wait other than, orders that came to rest without being matched to the end (the
\* collection phases of new_order, the remainder rules, restore_order).  Clients
\* that modify or restore stops put them into the main book.
BookInOrder == CarefulClients => CrossedOnlyByUnmatched /\ WaitsOnlyUnmatched

\* Every trade price respects the daily limits in force when it happens, also
\* after the limits were widened in the middle of a call or the trade comes from
\* a stop, unless a modify or a restore, which do not look at the limits, gave the
\* resting order its price.
TradesWithinLimits ==
    [][(FillHappens /\ event'.resting \notin unchecked) =>
           /\ DailyHigh > 0 => event'.price <= DailyHigh
           /\ DailyLow > 0 => event'.price >= DailyLow]_<<vars, historyVars>>
=============================================================================
