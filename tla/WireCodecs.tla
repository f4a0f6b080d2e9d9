----------------------------- MODULE WireCodecs -----------------------------
(***************************************************************************)
(* A message is encoded, carried and decoded, whole or damaged: MDP3       *)
(* snapshots around the sizes at which a count or a buffer ends, FAST      *)
(* messages and nullable values with every integer of a small word, FIX    *)
(* texts with any byte missing or changed.                                 *)
(***************************************************************************)
EXTENDS Integers, SequencesExt, FiniteSetsExt

CONSTANTS
    SnapshotSizes, \* levels of the MDP3 snapshots
    FastMessages,  \* FAST messages
    Nullables,     \* [value |-> v], v an integer in a sequence, or None
    FixBodies,     \* FIX bodies, sequences of [tag, value]
    FixBytes       \* bytes another byte may turn into

VARIABLE wire      \* [format, msg, sent, damage, got]

Mdp3 == INSTANCE Mdp3Codec
Fast == INSTANCE FastCodec WITH GroupBits <- 2, WordBits <- 7, RawBytes <- 1,
                                kSnapshotBookDepth <- 2, kMaxFastEncodedSize <- 64
Fix == INSTANCE FixText

Nothing == <<>>

\* Of n levels, bids and asks in turn, all with a price of their own.
BookLevels(n) == [i \in 1 .. n |-> [side |-> IF i % 2 = 0 THEN "Buy" ELSE "Sell",
                                price |-> i, qty |-> 10000 * i]]

EncodeFast(m) ==
    CASE m.template = 1 -> Fast!encode_quote(m)
      [] m.template = 2 -> Fast!encode_trade(m)
      [] m.template = 3 -> Fast!encode_status(m)
      [] m.template = 4 -> Fast!encode_snapshot(m)
      [] m.template = 5 -> Fast!encode_instrument_def(m)
      [] m.template = 6 -> Fast!encode_full_snapshot(m)

WireInit ==
    \E format \in {"mdp3", "fast", "u64", "i64", "fix"} :
    \E msg \in CASE format = "mdp3" -> SnapshotSizes
                 [] format = "fast" -> FastMessages
                 [] format = "i64" -> Nullables
                 [] format = "u64" -> {n \in Nullables : \A v \in Range(n.value) : v >= 0}
                 [] format = "fix" -> FixBodies :
        wire = [format |-> format, msg |-> msg, damage |-> "none", got |-> Nothing,
                sent |-> CASE format = "mdp3" -> Mdp3!encode_snapshot(1, BookLevels(msg))
                           [] format = "fast" -> EncodeFast(msg)
                           [] format = "i64" -> Fast!encode_nullable_i64(msg.value)
                           [] format = "u64" -> Fast!encode_nullable_u64(msg.value)
                           [] format = "fix" -> Fix!assemble_message(msg)]

Size == IF wire.format = "mdp3" THEN Mdp3!Bytes(wire.sent) ELSE Len(wire.sent)

\* What the receiver makes of bytes; for MDP3, of the first len bytes.
Decoded(bytes, len) ==
    LET Mdp3Got(d) == IF d.result = "kOk" THEN d.groups[1] ELSE Nothing
        FastGot(d) == IF d.end # 0 THEN d.msg ELSE Nothing
        NullableGot(d) == IF d.end # 0 THEN [value |-> d.value] ELSE Nothing
        FixGot(d) == IF d.ok THEN d.msg ELSE Nothing
    IN  CASE wire.format = "mdp3" -> Mdp3Got(Mdp3!decode_mdp3_message(bytes, len))
          [] wire.format = "fast" -> FastGot(Fast!decode_message(bytes))
          [] wire.format = "i64" -> NullableGot(Fast!decode_nullable_i64(bytes, 1))
          [] wire.format = "u64" -> NullableGot(Fast!decode_nullable_u64(bytes, 1))
          [] wire.format = "fix" -> FixGot(Fix!parse_fix_message(bytes))

Deliver ==
    /\ wire.damage = "none" /\ wire.got = Nothing
    /\ wire' = [wire EXCEPT !.got = Decoded(wire.sent, Size), !.damage = "whole"]

\* The receiver has a prefix.
Cut ==
    /\ wire.damage = "none"
    /\ \E len \in 0 .. Size - 1 :
        wire' = [wire EXCEPT !.damage = "cut",
                   !.got = Decoded(IF wire.format = "mdp3" THEN wire.sent
                                   ELSE SubSeq(wire.sent, 1, len), len)]

\* FIX has a checksum.
Change ==
    /\ wire.damage = "none" /\ wire.format = "fix"
    /\ \E i \in 1 .. Size, byte \in FixBytes :
        /\ byte # wire.sent[i]
        /\ wire' = [wire EXCEPT !.damage = "changed",
                      !.got = Decoded([wire.sent EXCEPT ![i] = byte], Size)]

WireNext == Deliver \/ Cut \/ Change

-----------------------------------------------------------------------------
\* What a receiver of the whole message is to get: all of it, but at most the 255
\* levels an MDP3 count can say.
Intended ==
    CASE wire.format = "mdp3" ->
           SubSeq(wire.sent.groups[1].entries, 1, Min({wire.msg, 255}))
      [] wire.format \in {"fast", "u64", "i64"} -> wire.msg
      [] wire.format = "fix" -> Fix!FixMessage(wire.msg)

\* A message that arrives whole is decoded to what was encoded and fits the
\* buffers of its encoder; one that was cut, or a FIX text with one byte changed,
\* is decoded to that or to nothing, never to another message
\* (encode_snapshot and decode_mdp3_message, the stop-bit integers of fast_types.h,
\* assemble_message and parse_fix_message).
CodecsExact ==
    /\ wire.damage = "whole" => wire.got = Intended
    /\ wire.got = Nothing \/ wire.got = Intended
    /\ wire.format = "mdp3" => Size <= Mdp3!MAX_SNAPSHOT_ENCODED_SIZE
    /\ wire.format = "fast" => wire.sent # Nothing
=============================================================================
