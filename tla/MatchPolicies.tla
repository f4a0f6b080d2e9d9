--------------------------- MODULE MatchPolicies ---------------------------
(***************************************************************************)
(* The matching policies: how an aggressor's quantity is divided among the *)
(* resting orders of one price level.  A level is the sequence of its      *)
(* orders, oldest first, each [qty, mm, top]; a policy is a function from  *)
(* the level and the quantity to the fill of every order.  The result      *)
(* array of the code, in which an order may have several entries that the  *)
(* engine applies one after the other, is the function of their sums.      *)
(* Quantities are whole numbers of the code's units.                       *)
(***************************************************************************)
EXTENDS Integers, Sequences, FiniteSets, FiniteSetsExt, Functions

CONSTANTS
    Levels,        \* the levels to start from
    Quantities,    \* aggressor quantities
    MinThreshold,  \* template argument of ThresholdProRataMatch
    FifoPct,       \* template argument of SplitFifoProRataMatch
    TopPct,        \* template arguments of FifoTopLmmMatch ...
    MmPriorityPct, \* ... and of FifoLmmMatch
    Collar, Cap,   \* GtbprMatch::Config
    Weights        \* the time weight of the i-th oldest order, scaled to whole numbers

Policies == {"Fifo", "ProRata", "Threshold", "Allocation", "Split", "Lmm", "TopLmm", "Gtbpr"}

VARIABLES
    level,  \* the resting orders
    last    \* the last match: [policy, level, qty, fills]

policy_vars == <<level, last>>

Sum(f) == MapThenSumSet(LAMBDA i : f[i], DOMAIN f)
Least(a, b) == IF a < b THEN a ELSE b
Most(a, b) == IF a > b THEN a ELSE b
Plus(f, g) == [i \in DOMAIN f |-> f[i] + g[i]]
Minus(f, g) == [i \in DOMAIN f |-> f[i] - g[i]]
Only(S, f) == [i \in DOMAIN f |-> IF i \in S THEN f[i] ELSE 0]

Sizes(lv) == [i \in DOMAIN lv |-> lv[i].qty]

\* Hand out qty to the orders in the given order, each up to its room.
Pour(room, qty, Before(_, _)) ==
    [i \in DOMAIN room |->
        LET ahead == MapThenSumSet(LAMBDA j : room[j], {j \in DOMAIN room : Before(j, i)})
        IN Least(room[i], Most(0, qty - ahead))]

Older(j, i) == j < i
PourFifo(room, qty) == Pour(room, qty, Older)

\* The proportional share of each order, rounded down.
Shares(room, qty) == [i \in DOMAIN room |-> (room[i] * qty) \div Sum(room)]

FifoMatch(lv, qty) == PourFifo(Sizes(lv), qty)

\* One lot of the remainder to each order, oldest first, whatever its share was.
ProRataMatch(lv, qty) ==
    LET to_fill == Least(qty, Sum(Sizes(lv)))
        base == Shares(Sizes(lv), to_fill)
        remainder == to_fill - Sum(base)
    IN [i \in DOMAIN lv |-> base[i] + IF i <= remainder THEN 1 ELSE 0]

\* Shares below the threshold are zeroed; what they free goes out in FIFO order.
ThresholdProRataMatch(lv, qty) ==
    LET to_fill == Least(qty, Sum(Sizes(lv)))
        share == Shares(Sizes(lv), to_fill)
        base == Only({i \in DOMAIN lv : share[i] >= MinThreshold}, share)
    IN Plus(base, PourFifo(Minus(Sizes(lv), base), to_fill - Sum(base)))

\* The remainder goes lot by lot to the largest order that has room, ties to the older.
AllocationMatch(lv, qty) ==
    LET to_fill == Least(qty, Sum(Sizes(lv)))
        base == Shares(Sizes(lv), to_fill)
        larger(j, i) == \/ lv[j].qty > lv[i].qty
                        \/ lv[j].qty = lv[i].qty /\ j < i
    IN Plus(base, Pour(Minus(Sizes(lv), base), to_fill - Sum(base), larger))

\* A FIFO part, then a proportional part over what is left of the orders.
SplitFifoProRataMatch(lv, qty) ==
    LET to_fill == Least(qty, Sum(Sizes(lv)))
        fifo == PourFifo(Sizes(lv), (to_fill * FifoPct) \div 100)
        left == Minus(Sizes(lv), fifo)
        pr == to_fill - Sum(fifo)
        base == IF pr > 0 /\ Sum(left) > 0 THEN Shares(left, pr) ELSE Only({}, left)
    IN Plus(fifo, Plus(base, PourFifo(Minus(left, base), pr - Sum(base))))

MarketMakers(lv) == {i \in DOMAIN lv : lv[i].mm}

\* Mutant: the priority part is left to the oldest orders of any kind.
FifoLmmMatchAnyone(lv, qty) ==
    LET priority == PourFifo(Sizes(lv), (qty * MmPriorityPct) \div 100)
    IN Plus(priority, PourFifo(Minus(Sizes(lv), priority), qty - Sum(priority)))

\* Market makers first, up to their percentage, then everybody.
FifoLmmMatch(lv, qty) ==
    LET mm == Only(MarketMakers(lv), Sizes(lv))
        priority == PourFifo(mm, Least((qty * MmPriorityPct) \div 100, Sum(mm)))
    IN Plus(priority, PourFifo(Minus(Sizes(lv), priority), qty - Sum(priority)))

\* The oldest top order, then the market makers, both in percent of the whole
\* aggressor, then everybody.
FifoTopLmmMatch(lv, qty) ==
    LET tops == {i \in DOMAIN lv : lv[i].top}
        first == IF tops = {} THEN {} ELSE {Min(tops)}
        top == PourFifo(Only(first, Sizes(lv)), (qty * TopPct) \div 100)
        left == Minus(Sizes(lv), top)
        mm == PourFifo(Only(MarketMakers(lv), left), Least((qty * MmPriorityPct) \div 100, qty - Sum(top)))
        rest == Minus(left, mm)
    IN Plus(top, Plus(mm, PourFifo(rest, qty - Sum(top) - Sum(mm))))

\* One lot at a time to every order with room, pass after pass: after k whole
\* passes an order has taken k lots or is full.
RoundRobin(room, qty) ==
    LET taken(k) == [i \in DOMAIN room |-> Least(room[i], k)]
        passes == Max({k \in 0 .. qty : Sum(taken(k)) <= qty})
        more == {i \in DOMAIN room : room[i] > passes}
        left == qty - Sum(taken(passes))
    IN [i \in DOMAIN room |-> Least(room[i], passes)
            + IF i \in more /\ Cardinality({j \in more : j < i}) < left THEN 1 ELSE 0]

(***************************************************************************)
(* GtbprMatch: the oldest order of at least Collar takes up to Cap; the    *)
(* rest is shared in proportion to time-weighted size, then lot by lot.    *)
(* The shares are computed in floating point: when the exact share is a    *)
(* whole number the rounded-down one may be one less, so the set of        *)
(* outcomes has every combination.                                         *)
(***************************************************************************)
GtbprMatch(lv, qty) ==
    LET to_fill == Least(qty, Sum(Sizes(lv)))
        large == {i \in DOMAIN lv : lv[i].qty >= Collar}
        first == IF large = {} THEN {} ELSE {Min(large)}
        priority == PourFifo(Only(first, Sizes(lv)), Least(Cap, to_fill))
        left == Minus(Sizes(lv), priority)
        pool == to_fill - Sum(priority)
        weight == [i \in DOMAIN lv |-> left[i] * Weights[i]]
        total == Sum(weight)
        exact(i) == (weight[i] * pool) \div total
        whole == IF pool = 0 THEN {}
                 ELSE {i \in DOMAIN lv : weight[i] * pool > 0 /\ (weight[i] * pool) % total = 0}
        share(down) == [i \in DOMAIN lv |->
            IF pool = 0 THEN 0 ELSE Least(left[i], exact(i) - IF i \in down THEN 1 ELSE 0)]
        outcome(base) == Plus(priority, Plus(base, RoundRobin(Minus(left, base), pool - Sum(base))))
    IN {outcome(share(down)) : down \in SUBSET whole}

\* The fills a policy may produce.
Match(policy, lv, qty) ==
    CASE policy = "Fifo"       -> {FifoMatch(lv, qty)}
      [] policy = "ProRata"    -> {ProRataMatch(lv, qty)}
      [] policy = "Threshold"  -> {ThresholdProRataMatch(lv, qty)}
      [] policy = "Allocation" -> {AllocationMatch(lv, qty)}
      [] policy = "Split"      -> {SplitFifoProRataMatch(lv, qty)}
      [] policy = "Lmm"        -> {FifoLmmMatch(lv, qty)}
      [] policy = "TopLmm"     -> {FifoTopLmmMatch(lv, qty)}
      [] policy = "Gtbpr"      -> GtbprMatch(lv, qty)

NoMatch == [policy |-> "None", level |-> <<>>, qty |-> 0, fills |-> <<>>]

PolicyInit == level \in Levels /\ last = NoMatch

\* The engine matches an aggressor at the level and unlinks the filled orders.
Aggress(policy, qty) ==
    /\ level # <<>>
    /\ \E fills \in Match(policy, level, qty) :
          /\ last' = [policy |-> policy, level |-> level, qty |-> qty, fills |-> fills]
          /\ level' = SelectSeq([i \in DOMAIN level |-> [level[i] EXCEPT !.qty = @ - fills[i]]],
                                LAMBDA o : o.qty # 0)

PolicyNext == \E policy \in Policies, qty \in Quantities : Aggress(policy, qty)

-----------------------------------------------------------------------------
FillsExact ==
    /\ Sum(last.fills) = Least(last.qty, Sum(Sizes(last.level)))
    /\ \A i \in DOMAIN last.fills : last.fills[i] \in 0 .. last.level[i].qty

ProRataIsFair ==
    last.policy \in {"ProRata", "Allocation"} =>
        LET to_fill == Least(last.qty, Sum(Sizes(last.level)))
            share == Shares(Sizes(last.level), to_fill)
        IN \A i \in DOMAIN last.fills :
              /\ last.fills[i] >= share[i]
              /\ last.policy = "ProRata" => last.fills[i] <= share[i] + 1
              /\ \A j \in DOMAIN last.fills :
                    (j < i /\ last.level[j].qty = last.level[i].qty) => last.fills[j] >= last.fills[i]

LmmPriorityKept ==
    last.policy = "Lmm" =>
        LET mms == MarketMakers(last.level)
            owed == Least((last.qty * MmPriorityPct) \div 100, Sum(Only(mms, Sizes(last.level))))
        IN /\ Sum(Only(mms, last.fills)) >= owed
           /\ \A i, j \in DOMAIN last.fills :
                 (j < i /\ last.fills[i] > 0 /\ last.fills[j] < last.level[j].qty) =>
                     i \in mms /\ (j \notin mms => Sum(Only(mms, last.fills)) = owed)

\* Each policy gives what it promises and no more.  Under all of them an aggressor
\* takes exactly what it wants or the whole level, and no order gives more than it
\* has: the rounding, the remainders and the priority parts of match_algo.h and
\* gtbpr_match.h add up.  Pro-rata is fair to the lot: ProRataMatch and
\* AllocationMatch give no order less than its exact share rounded down,
\* ProRataMatch none more than one lot above it, and none leaves an older order of
\* the same size with less.  The market makers of FifoLmmMatch together get at
\* least their percentage when they have it, and an order that is no market maker
\* is passed over only for a market maker or an older order.
PromisesKept == last # NoMatch => FillsExact /\ ProRataIsFair /\ LmmPriorityKept
=============================================================================
