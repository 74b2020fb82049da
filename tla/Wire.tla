-------------------------------- MODULE Wire --------------------------------
(***************************************************************************)
(* One direction of a metadata channel (src/src/meta.rs): Message::encode, *)
(* decode with its cursor, read_frame and write_frame over a TCP stream    *)
(* that delivers bytes at its own pace.                                    *)
(*                                                                         *)
(* A message is its type code, the values of its fixed fields, and its     *)
(* rows: the regions of a catalog, the tuples of a group.  A string is the *)
(* sequence of its bytes.  Bytes and integer widths are parameters: 256    *)
(* and 2, 4, 8 in the code.                                                *)
(***************************************************************************)
EXTENDS Naturals, Sequences, SequencesExt

CONSTANTS
    ByteBase, W16, W32, W64,
    TextBytes,    \* bytes that are text; a string of others is not valid UTF-8
    MaxFrame,     \* MAX_FRAME
    Messages,     \* what the sender sends
    StrayBytes,   \* bytes another program sends on the port
    MaxSends,     \* bound: messages sent
    MaxStray      \* bound: stray bytes

ASSUME WidthAssumption ==
    /\ ByteBase \in Nat \ {0, 1}
    /\ W16 \in Nat \ {0} /\ W32 \in Nat \ {0} /\ W64 \in Nat \ {0}
    /\ MaxFrame \in Nat /\ TextBytes \cup StrayBytes \subseteq 0 .. ByteBase - 1
    /\ MaxSends \in Nat /\ MaxStray \in Nat

VARIABLES
    peer,     \* who is at the sending end: "rdmalib" or "stray"
    wire,     \* all bytes written to the stream
    closed,   \* the sending end is closed
    arrived,  \* how many of them have reached the receiver
    used,     \* how many of those read_frame has taken
    frame,    \* the header of the frame being read, <<>> before it is read
    rx,       \* the receiver: "open", or why it gave the channel up
    sent,     \* messages handed to send
    got       \* messages receive has returned

vars == <<peer, wire, closed, arrived, used, frame, rx, sent, got>>

Init ==
    /\ peer \in {"rdmalib", "stray"}
    /\ wire = <<>> /\ closed = FALSE /\ arrived = 0 /\ used = 0 /\ frame = <<>>
    /\ rx = "open"
    /\ sent = <<>> /\ got = <<>>

-----------------------------------------------------------------------------
(* Little-endian integers.                                                 *)

(* What is left of v beyond its first digits.                              *)
Rest(w, v) ==
    LET rest[i \in 0 .. w] == IF i = 0 THEN v ELSE rest[i - 1] \div ByteBase
    IN  rest

(* Mutant: to_le_bytes of a narrower integer, the rest zero.               *)
PutIntCut(w, v) ==
    [i \in 1 .. w |-> IF i <= W32 THEN Rest(w, v)[i - 1] % ByteBase ELSE 0]

(* Mutant: the high digits stay in the low byte.                           *)
PutIntWide(w, v) == [i \in 1 .. w |-> Rest(w, v)[i - 1]]

PutInt(w, v) == [i \in 1 .. w |-> Rest(w, v)[i - 1] % ByteBase]

(* The values of a number's digits, from the most significant one down.    *)
Value(bytes) ==
    LET value[i \in 0 .. Len(bytes)] ==
            IF i = 0 THEN 0 ELSE bytes[Len(bytes) - i + 1] + ByteBase * value[i - 1]
    IN  value

IntOf(bytes) == Value(bytes)[Len(bytes)]

Width(kind) == CASE kind = "u16" -> W16 [] kind = "u64" -> W64 [] OTHER -> W32

(* put_u16, put_u32, put_u64, put_str.                                     *)
Put(kind, v) ==
    IF kind = "str" THEN PutInt(W32, Len(v)) \o v ELSE PutInt(Width(kind), v)

(* Parts of a message, or messages, one after the other.                   *)
JoinOf(parts) ==
    LET join[i \in 0 .. Len(parts)] == IF i = 0 THEN <<>> ELSE join[i - 1] \o parts[i]
    IN  join

Join(parts) == JoinOf(parts)[Len(parts)]

PutAll(kinds, vs) == Join([i \in 1 .. Len(kinds) |-> Put(kinds[i], vs[i])])
PutRows(kinds, rows) == Join([i \in 1 .. Len(rows) |-> PutAll(kinds, rows[i])])

-----------------------------------------------------------------------------
(* Message::encode: the fields in the order they are put.                  *)

Hello == 1
Welcome == 2
WantGroup == 3
Update == 4
Metadata == 5
Tuples == 6

FixedFields(ty) ==
    CASE ty \in {Hello, Welcome} -> <<"u16">>
      [] ty \in {WantGroup, Tuples} -> <<"u32">>
      [] OTHER -> <<>>
HasRows(ty) == ty \in {Metadata, Tuples}

PutRow(ty) ==
    IF ty = Metadata THEN <<"u32", "str", "u64", "u32", "u32", "str">>
                     ELSE <<"u32", "u64", "u64", "u32">>

Payload(m) ==
    PutAll(FixedFields(m.ty), m.fields)
      \o (IF HasRows(m.ty)
          THEN PutInt(W32, Len(m.rows)) \o PutRows(PutRow(m.ty), m.rows)
          ELSE <<>>)

(* [len][type][payload], len counting the type byte.                       *)
Encode(m) == PutInt(W32, 1 + Len(Payload(m))) \o <<m.ty>> \o Payload(m)

-----------------------------------------------------------------------------
(* What the sender's Message values are: integers of their width, strings  *)
(* of text, and nothing too long for its length to be written down.        *)

Fits(w, v) == Rest(w, v)[w] = 0

FieldOK(kind, v) ==
    IF kind = "str" THEN v \in Seq(TextBytes) /\ Fits(W32, Len(v))
                    ELSE v \in Nat /\ Fits(Width(kind), v)

RowOK(kinds, vs) ==
    /\ vs = [i \in DOMAIN kinds |-> vs[i]]
    /\ \A i \in DOMAIN kinds : FieldOK(kinds[i], vs[i])

RowsOK(ty, rows) ==
    IF HasRows(ty)
    THEN /\ Len(rows) \in Nat /\ Fits(W32, Len(rows))
         /\ rows = [i \in 1 .. Len(rows) |-> rows[i]]
         /\ \A i \in 1 .. Len(rows) : RowOK(PutRow(ty), rows[i])
    ELSE rows = <<>>

MessageOK(m) ==
    /\ m = [ty |-> m.ty, fields |-> m.fields, rows |-> m.rows]
    /\ m.ty \in Hello .. Tuples
    /\ RowOK(FixedFields(m.ty), m.fields) /\ RowsOK(m.ty, m.rows)
    /\ Fits(W32, 1 + Len(Payload(m)))

ASSUME MessagesAssumption == ByteBase > Tuples /\ \A m \in Messages : MessageOK(m)

-----------------------------------------------------------------------------
(* decode: a cursor over the payload, with what it has read so far.        *)

Cursor(pos, out) == [ok |-> TRUE, pos |-> pos, out |-> out]
Slice(buf, from, len) == SubSeq(buf, from + 1, from + len)

Has(buf, c, len) == c.ok /\ len <= Len(buf) - c.pos
Take(c, len, v) == Cursor(c.pos + len, Append(c.out, v))
Fail(c) == [ok |-> FALSE, pos |-> c.pos, out |-> c.out]

ReadInt(buf, c, w) ==
    IF Has(buf, c, w) THEN Take(c, w, IntOf(Slice(buf, c.pos, w))) ELSE Fail(c)

(* A length and as many bytes, which from_utf8 refuses if they are no text.*)
ReadString(buf, c) ==
    LET len == IntOf(Slice(buf, c.pos, W32))
        str == Slice(buf, c.pos + W32, len)
    IN  IF /\ Has(buf, c, W32)
           /\ Has(buf, c, W32 + len)
           /\ Range(str) \subseteq TextBytes
        THEN Take(c, W32 + len, str) ELSE Fail(c)

Read(buf, c, kind) ==
    IF kind = "str" THEN ReadString(buf, c) ELSE ReadInt(buf, c, Width(kind))

ReadFields(buf, pos, kinds) ==
    LET at[i \in 0 .. Len(kinds)] ==
            IF i = 0 THEN Cursor(pos, <<>>)
                     ELSE Read(buf, at[i - 1], kinds[i])
    IN  at

ReadAll(buf, pos, kinds) == ReadFields(buf, pos, kinds)[Len(kinds)]

ReadRow(ty) ==
    IF ty = Metadata THEN <<"u32", "str", "u64", "u32", "u32", "str">>
                     ELSE <<"u32", "u64", "u64", "u32">>

(* So many rows, from a position; the first that does not fit fails.       *)
NextRow(buf, c, ty) ==
    LET r == ReadAll(buf, c.pos, ReadRow(ty))
    IN  IF c.ok /\ r.ok THEN Take(c, r.pos - c.pos, r.out) ELSE Fail(c)

RowsFrom(buf, pos, ty, count) ==
    LET rows[i \in 0 .. count] ==
            IF i = 0 THEN Cursor(pos, <<>>)
                     ELSE NextRow(buf, rows[i - 1], ty)
    IN  rows

(* The count, then the rows.                                               *)
ReadRows(buf, c, ty) ==
    LET n == ReadInt(buf, c, W32)
    IN  IF n.ok THEN RowsFrom(buf, n.pos, ty, Last(n.out))[Last(n.out)] ELSE n

(* Mutant: leftover bytes are let pass.                                    *)
AnywhereDone(buf, c) == c.ok

Done(buf, c) == c.ok /\ c.pos = Len(buf)

(* The message as a singleton, or the empty set for a protocol violation.  *)
Decode(ty, buf) ==
    LET head == ReadAll(buf, 0, FixedFields(ty))
        rows == IF HasRows(ty) /\ head.ok THEN ReadRows(buf, head, ty)
                                          ELSE [head EXCEPT !.out = <<>>]
    IN  IF ty \in Hello .. Tuples /\ Done(buf, rows)
        THEN {[ty |-> ty, fields |-> head.out, rows |-> rows.out]} ELSE {}

-----------------------------------------------------------------------------
(* The sending end.                                                        *)

(* send: write_all takes the whole frame ...                               *)
Send(m) ==
    /\ peer = "rdmalib" /\ ~closed
    /\ Len(sent) < MaxSends
    /\ wire' = wire \o Encode(m)
    /\ sent' = Append(sent, m)
    /\ UNCHANGED <<peer, closed, arrived, used, frame, rx, got>>

(* ... or fails part-way, and the sender drops the channel.                *)
SendFails(m) ==
    /\ peer = "rdmalib" /\ ~closed
    /\ Len(sent) < MaxSends
    /\ \E k \in 0 .. Len(Encode(m)) - 1 : wire' = wire \o SubSeq(Encode(m), 1, k)
    /\ sent' = Append(sent, m)
    /\ closed' = TRUE
    /\ UNCHANGED <<peer, arrived, used, frame, rx, got>>

Close ==
    /\ ~closed
    /\ closed' = TRUE
    /\ UNCHANGED <<peer, wire, arrived, used, frame, rx, sent, got>>

(* Something that does not speak the protocol.                             *)
Stray(b) ==
    /\ peer = "stray" /\ ~closed
    /\ Len(wire) < MaxStray
    /\ wire' = Append(wire, b)
    /\ UNCHANGED <<peer, closed, arrived, used, frame, rx, sent, got>>

(* TCP delivers in order.                                                  *)
Deliver ==
    /\ arrived < Len(wire)
    /\ arrived' = arrived + 1
    /\ UNCHANGED <<peer, wire, closed, used, frame, rx, sent, got>>

-----------------------------------------------------------------------------
(* The receiving end: receive, that is read_frame.                         *)

LengthOf(header) == IntOf(Slice(header, 0, W32))

(* The bytes the running read_exact wants.                                 *)
Wanted == IF frame = <<>> THEN W32 + 1 ELSE LengthOf(frame) - 1
Available == Slice(wire, used, Wanted)

(* Mutant: a frame without a payload is refused as well.                   *)
InRangeWithPayload(len) == len > 1 /\ len <= MaxFrame

InRange(len) == len # 0 /\ len <= MaxFrame

ReadHeader ==
    /\ rx = "open" /\ frame = <<>>
    /\ arrived - used >= Wanted
    /\ used' = used + Wanted
    /\ IF InRange(LengthOf(Available))
       THEN frame' = Available /\ UNCHANGED rx
       ELSE rx' = "bad" /\ UNCHANGED frame
    /\ UNCHANGED <<peer, wire, closed, arrived, sent, got>>

ReadPayload ==
    /\ rx = "open" /\ frame # <<>>
    /\ arrived - used >= Wanted
    /\ used' = used + Wanted
    /\ frame' = <<>>
    /\ LET m == Decode(Last(frame), Available)
       IN  IF m = {} THEN rx' = "bad" /\ UNCHANGED got
           ELSE (\E x \in m : got' = Append(got, x)) /\ UNCHANGED rx
    /\ UNCHANGED <<peer, wire, closed, arrived, sent>>

(* The caller drops the channel on an error: update, handshake and         *)
(* wait_for_updates all do.                                                *)
DropChannel(why) == rx' = why /\ frame' = <<>>

(* read_exact fails: IO_TIMEOUT, or the end of the stream; what it had     *)
(* taken by then is lost.                                                  *)
ReadFails ==
    /\ rx = "open"
    /\ arrived - used < Wanted
    /\ used' = arrived
    /\ DropChannel("io")
    /\ UNCHANGED <<peer, wire, closed, arrived, sent, got>>

Next ==
    \/ \E m \in Messages : Send(m) \/ SendFails(m)
    \/ Close
    \/ \E b \in StrayBytes : Stray(b)
    \/ Deliver
    \/ ReadHeader \/ ReadPayload \/ ReadFails

Spec == Init /\ [][Next]_vars

-----------------------------------------------------------------------------
TypeOK ==
    /\ peer \in {"rdmalib", "stray"} /\ closed \in BOOLEAN
    /\ wire \in Seq(0 .. ByteBase - 1)
    /\ arrived \in 0 .. Len(wire) /\ used \in 0 .. arrived
    /\ frame = <<>> \/ Len(frame) = W32 + 1
    /\ rx \in {"open", "io", "bad"}
    /\ \A i \in DOMAIN sent : sent[i] \in Messages

Frames(ms) == Join([i \in 1 .. Len(ms) |-> Encode(ms[i])])

(* decode takes exactly what encode makes: whatever bytes arrive, the      *)
(* messages received are, frame for frame, the bytes consumed.  "The       *)
(* payload must be consumed exactly: leftover bytes are a protocol         *)
(* violation, as are counts and lengths reaching past the payload."        *)
Canonical ==
    LET read == Frames(got)
    IN  /\ IsPrefix(read, wire)
        /\ rx = "open" => used = Len(read) + Len(frame)

(* A channel between two ends of the library breaks only when an end stops *)
(* or stalls: the receiver calls what it gets a protocol violation only    *)
(* for a frame whose length field, which counts the type and the payload,  *)
(* is beyond MAX_FRAME; encode does not keep the sender from writing one.  *)
OnlyOversizeRefused ==
    rx = "bad" /\ peer = "rdmalib" =>
        /\ Len(got) < Len(sent)
        /\ 1 + Len(Payload(sent[Len(got) + 1])) > MaxFrame

(* The stream of bytes implements a channel of messages: no time-out,      *)
(* partial write or partial read makes a later receive return anything but *)
(* the next message.                                                       *)
Genuine(ms) == IF peer = "rdmalib" THEN ms ELSE <<>>

Channel == INSTANCE MessageChannel
             WITH sent <- Genuine(sent), got <- Genuine(got), up <- rx = "open"
WholeMessages == Channel!Spec
=============================================================================
