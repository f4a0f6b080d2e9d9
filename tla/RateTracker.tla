---------------------------- MODULE RateTracker ----------------------------
(***************************************************************************)
(* RateTracker of rate_tracker.h: how many messages of an account the      *)
(* engine lets through in an interval.  Account 0 is never throttled, an   *)
(* account outside the table always is.  The engine passes the time stamp  *)
(* of the request, which does not go back.                                 *)
(***************************************************************************)
EXTENDS Integers, Sequences, FiniteSets

CONSTANTS
    ThrottleConfigs, \* the [max_messages_per_interval, interval_ns] to check
    MaxAccounts,     \* size of the table
    AccountIds,      \* accounts that send
    MaxTime,         \* bound: time stamps are 0 .. MaxTime
    MaxMessages      \* bound: messages sent

VARIABLES
    throttle, \* config_
    entries,  \* entries_: [window_start, count] of each account in the table
    asked     \* the messages so far, oldest first: [account, ts, accepted]

rate_vars == <<throttle, entries, asked>>

reset == [a \in 0 .. MaxAccounts - 1 |-> [window_start |-> 0, count |-> 0]]

RateInit ==
    /\ throttle \in ThrottleConfigs
    /\ entries = reset
    /\ asked = <<>>

Disabled == throttle.max_messages_per_interval <= 0 \/ throttle.interval_ns <= 0

\* Mutant: the message at the end of a window still belongs to it.
OpenWindow(entry, ts) ==
    IF ts > entry.window_start + throttle.interval_ns
    THEN [accepted |-> TRUE, entry |-> [window_start |-> ts, count |-> 1]]
    ELSE IF entry.count >= throttle.max_messages_per_interval
         THEN [accepted |-> FALSE, entry |-> entry]
         ELSE [accepted |-> TRUE, entry |-> [entry EXCEPT !.count = @ + 1]]

\* A window starts at the first message after the last one has expired.
Windowed(entry, ts) ==
    IF ts >= entry.window_start + throttle.interval_ns
    THEN [accepted |-> TRUE, entry |-> [window_start |-> ts, count |-> 1]]
    ELSE IF entry.count >= throttle.max_messages_per_interval
         THEN [accepted |-> FALSE, entry |-> entry]
         ELSE [accepted |-> TRUE, entry |-> [entry EXCEPT !.count = @ + 1]]

check_and_increment(account, ts) ==
    \/ /\ Disabled \/ account = 0 \/ account >= MaxAccounts
       /\ entries' = entries
       /\ asked' = Append(asked, [account |-> account, ts |-> ts,
                                  accepted |-> Disabled \/ account = 0])
    \/ /\ ~Disabled /\ account # 0 /\ account < MaxAccounts
       /\ LET w == Windowed(entries[account], ts)
          IN  /\ entries' = [entries EXCEPT ![account] = w.entry]
              /\ asked' = Append(asked, [account |-> account, ts |-> ts,
                                         accepted |-> w.accepted])

Now == IF asked = <<>> THEN 0 ELSE asked[Len(asked)].ts

RateNext ==
    /\ Len(asked) < MaxMessages
    /\ \E account \in AccountIds, ts \in Now .. MaxTime : check_and_increment(account, ts)
    /\ UNCHANGED throttle

-----------------------------------------------------------------------------
\* The messages of the account accepted within [from, to].
AcceptedIn(account, from, to) ==
    Cardinality({i \in DOMAIN asked : /\ asked[i].account = account /\ asked[i].accepted
                                      /\ asked[i].ts \in from .. to})

\* The throttle is neither loose nor unfair: no stretch of one interval has more
\* than twice the messages allowed, which is what tumbling windows give away, and
\* a message of an account in the table is refused only if the interval that ends
\* with it already has the messages allowed (check_and_increment).
RateKept ==
    ~Disabled =>
        \A i \in DOMAIN asked :
            LET m == asked[i]
                from == m.ts - throttle.interval_ns + 1
                limit == throttle.max_messages_per_interval
            IN  m.account \in 1 .. MaxAccounts - 1 =>
                    /\ AcceptedIn(m.account, from, m.ts) <= 2 * limit
                    /\ ~m.accepted => AcceptedIn(m.account, from, m.ts) >= limit
=============================================================================
