---------------------------- MODULE TcpFraming ----------------------------
(***************************************************************************)
(* Length-prefixed messages over one TCP connection: TcpServer (the event  *)
(* loop over edge-triggered epoll, its receive buffer with two cursors,    *)
(* its non-blocking sends) and TcpClient (blocking sends, receives that    *)
(* give up after 100 ms).  TCP and the kernel are modelled from how the    *)
(* code uses them: bytes arrive in order, in pieces of any size, and a     *)
(* socket buffer holds a bounded number of them.                           *)
(***************************************************************************)
EXTENDS Integers, SequencesExt

CONSTANTS
    Lens,               \* payload lengths the client sends
    ReplyLens,          \* payload lengths the server sends
    MaxMessages,        \* bound: messages each way
    MaxMessageSize,     \* kMaxMessageSize
    InitialBufSize,     \* kInitialBufSize
    SocketBuffer        \* bytes the kernel holds for the server's sends

ASSUME SizesAssumption ==
    /\ InitialBufSize \in Nat \ {0} /\ SocketBuffer \in Nat \ {0}
    /\ Lens \subseteq 1..MaxMessageSize + 1 /\ ReplyLens \subseteq 1..MaxMessageSize

VARIABLES
    conn,               \* none, waiting (accept queue), open; closed by the
                        \* client or dropped by the server
    fin,                \* the client's end: open, closing, arrived
    sent, delivered,    \* payloads the client sent, payloads on_message got
    wire, kernel,       \* bytes on their way, bytes the server can recv
    edge,               \* epoll has an EPOLLIN event for the server
    state,              \* ClientState: recv_buf, read_pos, write_pos
    replies, heard,     \* payloads the server sent, payloads the client got
    back,               \* bytes the client can recv
    got,                \* what recv_message has of the current message
    cut                 \* a send stopped midway, or a receive gave up midway

vars == <<conn, fin, sent, delivered, wire, kernel, edge, state, replies, heard, back, got, cut>>

\* A byte has 4 values and a header 2 bytes: kHeaderSize is 4 and a byte has 256.
HeaderSize == 2
Encode(n) == <<n % 4, n \div 4>>
Decode(h) == h[1] + 4 * h[2]
Frame(payload) == Encode(Len(payload)) \o payload
Payload(n, len) == [i \in 1..len |-> n]

Upto(s, n) == SubSeq(s, 1, IF n < Len(s) THEN n ELSE Len(s))
From(s, n) == SubSeq(s, n + 1, Len(s))

-----------------------------------------------------------------------------
(* ClientState *)

readable(st) == st.write_pos - st.read_pos
writable(st) == Len(st.buf) - st.write_pos
Peek(st, n) == SubSeq(st.buf, st.read_pos + 1, st.read_pos + n)
Resize(buf, n) == [i \in 1..n |-> IF i <= Len(buf) THEN buf[i] ELSE 0]

\* Mutant: the bytes are moved but the write cursor is not.
compact_half(st) ==
    IF st.read_pos <= Len(st.buf) \div 2 THEN st
    ELSE [st EXCEPT !.buf = [i \in DOMAIN @ |-> IF i <= readable(st)
                                                THEN @[st.read_pos + i] ELSE @[i]],
                    !.read_pos = 0]

compact(st) ==
    IF st.read_pos <= Len(st.buf) \div 2 THEN st
    ELSE [st EXCEPT !.buf = [i \in DOMAIN @ |-> IF i <= readable(st)
                                                THEN @[st.read_pos + i] ELSE @[i]],
                    !.read_pos = 0, !.write_pos = readable(st)]

ensure_capacity(st, needed) ==
    LET c == compact(st)
    IN  IF writable(st) >= needed THEN st
        ELSE IF Len(c.buf) < needed THEN [c EXCEPT !.buf = Resize(@, needed)] ELSE c

MakeSpace(st) ==
    LET c == compact(st)
    IN  IF writable(st) > 0 THEN st
        ELSE IF writable(c) > 0 THEN c ELSE [c EXCEPT !.buf = Resize(@, 2 * Len(@))]

Store(st, bytes) ==
    [st EXCEPT !.buf = [i \in DOMAIN @ |-> IF i \in (st.write_pos + 1)..(st.write_pos + Len(bytes))
                                           THEN bytes[i - st.write_pos] ELSE @[i]],
               !.write_pos = @ + Len(bytes)]

\* Mutant: one recv per event, though epoll tells of new bytes only once.
ReceiveOnce(st, bytes) == [st |-> Store(MakeSpace(st), Upto(bytes, writable(MakeSpace(st)))),
                           left |-> From(bytes, writable(MakeSpace(st)))]

\* recv until EAGAIN
RECURSIVE Receive(_, _)
Receive(st, bytes) ==
    LET room == MakeSpace(st)
    IN  IF bytes = <<>> THEN [st |-> room, left |-> <<>>]
        ELSE Receive(Store(room, Upto(bytes, writable(room))), From(bytes, writable(room)))

\* The complete messages of the buffer, one on_message each.
RECURSIVE TakeFrames(_, _)
TakeFrames(st, messages) ==
    LET len == Decode(Peek(st, HeaderSize))
        size == HeaderSize + len
    IN  IF readable(st) < HeaderSize
        THEN [st |-> compact(st), messages |-> messages, remove |-> FALSE]
        ELSE IF len > MaxMessageSize THEN [st |-> st, messages |-> messages, remove |-> TRUE]
        ELSE IF readable(st) < size
        THEN [st |-> compact(ensure_capacity(st, size)), messages |-> messages, remove |-> FALSE]
        ELSE TakeFrames([st EXCEPT !.read_pos = @ + size],
                        Append(messages, From(Peek(st, size), HeaderSize)))

handle_read(st, bytes) ==
    LET r == Receive(st, bytes) IN TakeFrames(r.st, <<>>) @@ [left |-> r.left]

-----------------------------------------------------------------------------
(* The server *)

Fresh == [buf |-> [i \in 1..InitialBufSize |-> 0], read_pos |-> 0, write_pos |-> 0]

\* The connection comes with the bytes that arrived before it was accepted.
accept_connections ==
    /\ conn = "waiting"
    /\ conn' = "open" /\ state' = Fresh
    /\ edge' = (kernel # <<>> \/ fin = "arrived")
    /\ UNCHANGED <<fin, sent, delivered, wire, kernel, replies, heard, back, got, cut>>

\* One event of the connection: what can be read is read; if the client closed
\* its end, whatever is left is read as well and the connection is dropped.
poll ==
    /\ conn = "open" /\ edge
    /\ LET r == handle_read(state, kernel)
       IN  /\ state' = r.st /\ kernel' = r.left
           /\ delivered' = delivered \o r.messages
           /\ conn' = IF r.remove THEN "dropped" ELSE IF fin = "arrived" THEN "closed" ELSE conn
    /\ edge' = FALSE
    /\ UNCHANGED <<fin, sent, wire, replies, heard, back, got, cut>>

\* send_message gives up when the socket is full, wherever in the message.
server_send(len) ==
    /\ conn = "open" /\ Len(replies) < MaxMessages
    /\ LET payload == Payload(Len(replies) + 1, len)
           bytes == Upto(Frame(payload), SocketBuffer - Len(back))
       IN  /\ back' = back \o bytes
           /\ replies' = Append(replies, payload)
           /\ cut' = (cut \/ Len(bytes) < Len(Frame(payload)))
    /\ UNCHANGED <<conn, fin, sent, delivered, wire, kernel, edge, state, heard, got>>

\* disconnect and shutdown: remove_client
server_disconnect ==
    /\ conn = "open" /\ conn' = "dropped"
    /\ UNCHANGED <<fin, sent, delivered, wire, kernel, edge, state, replies, heard, back, got, cut>>

-----------------------------------------------------------------------------
(* The client *)

connect_to ==
    /\ conn = "none" /\ conn' = "waiting"
    /\ UNCHANGED <<fin, sent, delivered, wire, kernel, edge, state, replies, heard, back, got, cut>>

send_message(len) ==
    /\ conn \in {"waiting", "open"} /\ fin = "open" /\ Len(sent) < MaxMessages
    /\ LET payload == Payload(Len(sent) + 1, len)
       IN  sent' = Append(sent, payload) /\ wire' = wire \o Frame(payload)
    /\ UNCHANGED <<conn, fin, delivered, kernel, edge, state, replies, heard, back, got, cut>>

close_conn ==
    /\ conn \in {"waiting", "open"} /\ fin = "open"
    /\ fin' = "closing"
    /\ UNCHANGED <<conn, sent, delivered, wire, kernel, edge, state, replies, heard, back, got, cut>>

\* recv_all: what has come of the header, then of the payload.  A length of zero
\* or beyond the limit ends the call with the header gone.
Nothing == [len |-> 0, bytes |-> <<>>]
Needed == (IF got.len = 0 THEN HeaderSize ELSE got.len) - Len(got.bytes)

recv_some(n) ==
    /\ fin = "open" /\ n <= Len(back) /\ n <= Needed
    /\ back' = From(back, n)
    /\ LET bytes == got.bytes \o Upto(back, n)
           len == Decode(bytes)
       IN  \/ /\ n < Needed
              /\ got' = [got EXCEPT !.bytes = bytes] /\ UNCHANGED heard
           \/ /\ n = Needed /\ got.len = 0
              /\ got' = [len |-> IF len > MaxMessageSize THEN 0 ELSE len, bytes |-> <<>>]
              /\ UNCHANGED heard
           \/ /\ n = Needed /\ got.len > 0
              /\ got' = Nothing /\ heard' = Append(heard, bytes)
    /\ UNCHANGED <<conn, fin, sent, delivered, wire, kernel, edge, state, replies, cut>>

\* No byte for 100 ms in the middle of a message: what was read of it is lost.
recv_timeout ==
    /\ fin = "open" /\ got # Nothing
    /\ got' = Nothing /\ cut' = TRUE
    /\ UNCHANGED <<conn, fin, sent, delivered, wire, kernel, edge, state, replies, heard, back>>

-----------------------------------------------------------------------------
(* The network and the kernel *)

Arrive(n) ==
    /\ n \in 1..Len(wire)
    /\ kernel' = kernel \o Upto(wire, n) /\ wire' = From(wire, n)
    /\ edge' = (edge \/ conn = "open")
    /\ UNCHANGED <<conn, fin, sent, delivered, state, replies, heard, back, got, cut>>

FinArrives ==
    /\ fin = "closing" /\ wire = <<>>
    /\ fin' = "arrived" /\ edge' = (edge \/ conn = "open")
    /\ UNCHANGED <<conn, sent, delivered, wire, kernel, state, replies, heard, back, got, cut>>

-----------------------------------------------------------------------------
Init ==
    /\ conn = "none" /\ fin = "open"
    /\ sent = <<>> /\ delivered = <<>> /\ replies = <<>> /\ heard = <<>>
    /\ wire = <<>> /\ kernel = <<>> /\ back = <<>>
    /\ edge = FALSE /\ state = Fresh /\ got = Nothing /\ cut = FALSE

ServerStep == accept_connections \/ poll \/ (\E len \in ReplyLens : server_send(len))
              \/ server_disconnect
ClientStep == connect_to \/ (\E len \in Lens : send_message(len)) \/ close_conn
              \/ (\E n \in 1..Len(back) : recv_some(n)) \/ recv_timeout
Network == (\E n \in 1..Len(wire) : Arrive(n)) \/ FinArrives

Next == ServerStep \/ ClientStep \/ Network
Spec == Init /\ [][Next]_vars

\* The loop of the runner polls for ever, and TCP delivers what was sent: weak
\* fairness of accept_connections, poll, Arrive and FinArrives, each with its
\* guard for ENABLED and the change only it makes for the action.
Fairness ==
    /\ []<>(conn # "waiting") \/ []<><<conn' = "open" /\ conn = "waiting">>_vars
    /\ []<>(conn # "open" \/ ~edge) \/ []<><<edge /\ ~edge'>>_vars
    /\ []<>(wire = <<>>) \/ []<><<Len(wire') < Len(wire)>>_vars
    /\ []<>(fin # "closing" \/ wire # <<>>) \/ []<><<fin' = "arrived" /\ fin = "closing">>_vars
FairSpec == Spec /\ Fairness

-----------------------------------------------------------------------------
(* Properties *)

\* However the bytes were split, on_message gets the messages the client sent,
\* whole and in order, whatever the cursors and the size of the buffer did; and
\* what the client makes of the reports is what was sent, until a send finds the
\* socket full or a receive times out within a message.
FramesExact ==
    /\ IsPrefix(delivered, sent)
    /\ ~cut => IsPrefix(heard, replies)

\* Every message sent is delivered, also the last ones of a client that closes at
\* once, unless the server drops the connection.
FramesDelivered == <>[](delivered = sent \/ conn = "dropped")
=============================================================================
