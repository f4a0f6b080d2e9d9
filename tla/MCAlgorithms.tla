---------------------------- MODULE MCAlgorithms ----------------------------
(***************************************************************************)
(* The algorithms that stand by themselves, each checked over all inputs   *)
(* within its bounds: matching policies, the message throttle, codecs.     *)
(***************************************************************************)
EXTENDS MatchPolicies, RateTracker, WireCodecs

VARIABLE part  \* the algorithm this behaviour is about

\* Levels of up to three orders of one to four lots, any of which may be a market
\* maker's and one the top order; older orders weigh more.
Order(qty, mm, top) == [qty |-> qty, mm |-> mm, top |-> top]
MCOrders == {Order(q, mm, FALSE) : q \in 1 .. 4, mm \in BOOLEAN}
            \cup {Order(q, FALSE, TRUE) : q \in {1, 3}}
MCLevels == UNION {[1 .. n -> MCOrders] : n \in 1 .. 3}
MCWeights == <<15, 12, 10>>

\* One and two messages in an interval of two, and a throttle that is off.
MCThrottles == {[max_messages_per_interval |-> max, interval_ns |-> 2] : max \in 0 .. 2}

\* A count of zero, one, around the 64 entries of a refresh, around the 255 of a byte.
MCSizes == {0, 1, 64, 65, 254, 255, 256}

\* Every integer of a 7-bit word in the first field, the ends of its groups in others.
Edges == {-64, -33, -9, -2, -1, 0, 1, 2, 8, 31, 63}
MCFast ==
    {[template |-> 1, bid_price |-> p, bid_qty |-> 1, ask_price |-> q, ask_qty |-> -1,
      timestamp |-> 0] : p \in -64 .. 63, q \in Edges}
    \cup {[template |-> 2, price |-> p, quantity |-> 3, aggressor_side |-> side,
           timestamp |-> q] : p \in Edges, q \in Edges, side \in 0 .. 1}
    \cup {[template |-> 3, session_state |-> s, timestamp |-> 1] : s \in 0 .. 127}
    \cup {[template |-> 4, bid_price |-> p, bid_qty |-> 1, ask_price |-> q, ask_qty |-> 1,
           bid_count |-> 127, ask_count |-> 0, timestamp |-> 5] : p \in Edges, q \in Edges}
    \cup {[template |-> 5, instrument_id |-> id, symbol |-> <<7>>, product_group |-> 2,
           tick_size |-> p, lot_size |-> 1, max_order_size |-> 63, total_instruments |-> 3,
           timestamp |-> 1] : id \in {1, 4, 127}, p \in Edges}
    \cup {[template |-> 6, instrument_id |-> 1, seq_num |-> 9, bids |-> b, asks |-> a,
           timestamp |-> 0] : a, b \in
             {<<>>, <<[price |-> -2, quantity |-> 1, order_count |-> 4]>>,
              <<[price |-> 33, quantity |-> 2, order_count |-> 1],
                [price |-> -33, quantity |-> 63, order_count |-> 0]>>}}

\* Null, and the integers below the largest, which has no room for the shift.
MCNullables == {[value |-> v] : v \in {<<>>} \cup {<<n>> : n \in -64 .. 62}}

\* A first field 35 and up to two more, of which one may repeat it or be empty.
Field(tag, value) == [tag |-> tag, value |-> value]
MCBodies ==
    LET more == {Field(11, <<49>>), Field(58, <<>>), Field(55, <<65, 61>>), Field(35, <<57>>)}
        rest == {<<>>} \cup {<<f>> : f \in more} \cup {<<f, g>> : f, g \in more}
    IN  {<<Field(35, <<56>>)>> \o r : r \in rest}
MCBytes == {0, 1, 48, 49, 53, 57, 61, 65, 255}

NoRate == throttle = [max_messages_per_interval |-> 0, interval_ns |-> 0] /\ entries = <<>> /\ asked = <<>>
NoWire == wire = [format |-> "none", damage |-> "none", got |-> Nothing]
NoPolicy == level = <<>> /\ last = NoMatch

Init ==
    \/ part = "policies" /\ PolicyInit /\ NoRate /\ NoWire
    \/ part = "throttle" /\ RateInit /\ NoPolicy /\ NoWire
    \/ part = "codecs" /\ WireInit /\ NoPolicy /\ NoRate

Next ==
    /\ \/ part = "policies" /\ PolicyNext /\ UNCHANGED <<rate_vars, wire>>
       \/ part = "throttle" /\ RateNext /\ UNCHANGED <<policy_vars, wire>>
       \/ part = "codecs" /\ WireNext /\ UNCHANGED <<policy_vars, rate_vars>>
    /\ UNCHANGED part

Spec == Init /\ [][Next]_<<part, policy_vars, rate_vars, wire>>
=============================================================================
