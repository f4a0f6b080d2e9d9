------------------------------ MODULE FixText ------------------------------
(***************************************************************************)
(* The text of a FIX 4.2 message: how assemble_message frames a body and   *)
(* what parse_fix_message makes of bytes.  A byte is its ASCII code, a     *)
(* body the sequence of its fields, [tag, value].  What the tags mean is   *)
(* FixCodec's.                                                             *)
(***************************************************************************)
EXTENDS Integers, SequencesExt, FiniteSetsExt

SOH == 1
Equals == 61
Zero == 48
BeginString == <<70, 73, 88, 46, 52, 46, 50>>     \* FIX.4.2

Error == [ok |-> FALSE]

\* A number, in at least width digits.
Digits(n, width) ==
    LET len == Min({k \in 1 .. 9 : k >= width /\ n < 10^k})
    IN  [i \in 1 .. len |-> Zero + ((n \div 10^(len - i)) % 10)]

append_tag(tag, value) == Digits(tag, 1) \o <<Equals>> \o value \o <<SOH>>

compute_checksum(bytes) == FoldLeft(LAMBDA sum, b : sum + b, 0, bytes) % 256

assemble_message(fields) ==
    LET body == FlattenSeq([i \in DOMAIN fields |-> append_tag(fields[i].tag, fields[i].value)])
        msg == append_tag(8, BeginString) \o append_tag(9, Digits(Len(body), 1)) \o body
    IN  msg \o append_tag(10, Digits(compute_checksum(msg), 3))

-----------------------------------------------------------------------------
\* The position of byte b at or after pos, at most len; 0 if there is none.
find_byte(bytes, len, pos, b) ==
    LET found == {i \in pos .. len : bytes[i] = b}
    IN  IF found = {} THEN 0 ELSE Min(found)

IsDigit(b) == b \in Zero .. Zero + 9

\* The number whose digits start the text; none if it starts with no digit.
from_chars(text) ==
    LET n == Cardinality({i \in DOMAIN text : \A j \in 1 .. i : IsDigit(text[j])})
    IN  [digits |-> n,
         value |-> FoldLeft(LAMBDA v, b : 10 * v + b - Zero, 0, SubSeq(text, 1, n))]

\* The field at pos and the position after it.
parse_field(bytes, len, pos) ==
    LET Split(eq, tag, soh) ==
            IF eq = 0 \/ tag.digits = 0 \/ tag.digits # eq - pos \/ soh = 0
            THEN Error
            ELSE [ok |-> TRUE, tag |-> tag.value, value |-> SubSeq(bytes, eq + 1, soh - 1),
                  end |-> soh + 1]
        SplitAt(eq) ==
            Split(eq, from_chars(SubSeq(bytes, pos, eq - 1)), find_byte(bytes, len, eq + 1, SOH))
    IN  SplitAt(find_byte(bytes, len, pos, Equals))

\* The fields from pos up to body_end, in order.
RECURSIVE parse_body(_, _, _, _)
parse_body(bytes, body_end, pos, fields) ==
    IF pos >= body_end THEN [ok |-> pos = body_end, fields |-> fields]
    ELSE LET After(f) == IF ~f.ok THEN Error
                         ELSE parse_body(bytes, body_end, f.end,
                                         Append(fields, [tag |-> f.tag, value |-> f.value]))
         IN  After(parse_field(bytes, body_end - 1, pos))

\* fields.emplace keeps the first of two fields with one tag; msg_type is the last 35.
FixMessage(fields) ==
    [msg_type |-> LET types == {i \in DOMAIN fields : fields[i].tag = 35}
                  IN  IF types = {} THEN <<>> ELSE fields[Max(types)].value,
     fields |-> [tag \in {fields[i].tag : i \in DOMAIN fields} |->
                    fields[Min({i \in DOMAIN fields : fields[i].tag = tag})].value]]

\* The code's returns, in their order.
parse_fix_message(bytes) ==
    LET Typed(msg) == IF msg.msg_type = <<>> THEN Error ELSE [ok |-> TRUE, msg |-> msg]
        Summed(fields, body_end, sum) ==
            IF \/ ~sum.ok \/ sum.tag # 10
               \/ sum.value # Digits(compute_checksum(SubSeq(bytes, 1, body_end - 1)), 3)
            THEN Error ELSE Typed(FixMessage(fields))
        Bodied(body, body_end) ==
            IF ~body.ok THEN Error
            ELSE Summed(body.fields, body_end, parse_field(bytes, Len(bytes), body_end))
        Ended(start, body_end) ==
            IF body_end - 1 > Len(bytes) THEN Error
            ELSE Bodied(parse_body(bytes, body_end, start, <<>>), body_end)
        Sized(start, size) ==
            IF size.digits = 0 THEN Error ELSE Ended(start, start + size.value)
        Measured(length) ==
            IF ~length.ok \/ length.tag # 9 THEN Error
            ELSE Sized(length.end, from_chars(length.value))
        Begun(begin) ==
            IF ~begin.ok \/ begin.tag # 8 \/ begin.value # BeginString THEN Error
            ELSE Measured(parse_field(bytes, Len(bytes), begin.end))
    IN  Begun(parse_field(bytes, Len(bytes), 1))
=============================================================================
