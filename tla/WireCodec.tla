------------------------------ MODULE WireCodec ------------------------------
(***************************************************************************)
(* The wire format (src/src/app/protocol.cc, src/src/util/serialization) *)
(* at byte level: put_number writes a field big-endian in sizeof(T) bytes, *)
(* WireParser reads fields in turn and throws std::out_of_range when fewer *)
(* bytes remain than the field needs. A Datagram is parsed by the receiver *)
(* (Datagram::parse_from_string); an AckMsg or ConfigMsg by the sender     *)
(* (Msg::parse_from_string). A peer serialises one message; what arrives   *)
(* is those bytes or, from a broken or hostile peer, a prefix of them.     *)
(* Field values come from small sets whose bytes differ from each other,   *)
(* so a swapped byte or field order shows. TLC integers are 32-bit signed, *)
(* so u32 and u64 values stay below 2^31.                                  *)
(***************************************************************************)
EXTENDS Naturals, Sequences, SequencesExt

CONSTANTS U32Vals,      \* values of u32 fields (and of u64 send_ts)
          U16Vals,      \* values of u16 fields
          TypeBytes,    \* bytes of frame_type (0 UNKNOWN, 1 KEY, 2 NONKEY)
          Payloads      \* datagram payloads (byte sequences)

VARIABLES msg,    \* the message the peer serialised, or NoMsg
          wire    \* the bytes the other side's recv returned

vars == <<msg, wire>>

NoMsg == [kind |-> "none"]

\* Msg::Type tags
AckTag == 1
ConfigTag == 2

Datagrams == [kind : {"datagram"}, frame_id : U32Vals, frame_type : TypeBytes,
              frag_id : U16Vals, frag_cnt : U16Vals, send_ts : U32Vals,
              payload : Payloads]
AckMsgs == [kind : {"ack"}, frame_id : U32Vals, frag_id : U16Vals, send_ts : U32Vals]
ConfigMsgs == [kind : {"config"}, width : U16Vals, height : U16Vals,
               frame_rate : U16Vals, target_bitrate : U32Vals]
Messages == Datagrams \cup AckMsgs \cup ConfigMsgs

----------------------------------------------------------------------------
(* Mutants (plausible slips in this code).                                 *)

\* put_number without hton: the host's little-endian byte order.
RECURSIVE PutNumberHostOrder(_, _)
PutNumberHostOrder(v, w) ==
    IF w = 0 THEN <<>> ELSE <<v % 256>> \o PutNumberHostOrder(v \div 256, w - 1)

\* put_number storing the whole value in the last byte, as when the byte
\* is taken before the narrowing to char.
RECURSIVE PutNumberUntruncated(_, _)
PutNumberUntruncated(v, w) ==
    IF w = 0 THEN <<>> ELSE PutNumberUntruncated(v \div 256, w - 1) \o <<v>>

\* HEADER_SIZE summed without sizeof(FrameType).
HeaderSizeNoType == 4 + 2 * 2 + 8

----------------------------------------------------------------------------
(* The code.                                                               *)

\* put_number<T>(host): hton, then the sizeof(T) = w bytes of the value,
\* most significant first.
RECURSIVE PutNumber(_, _)
PutNumber(v, w) ==
    IF w = 0 THEN <<>> ELSE PutNumber(v \div 256, w - 1) \o <<v % 256>>

\* ntoh of the bytes a read copied out.
GetNumber(bytes) == FoldLeft(LAMBDA acc, b : acc * 256 + b, 0, bytes)

\* Datagram::HEADER_SIZE: u32 + FrameType (u8) + 2 * u16 + u64.
HeaderSize == 4 + 1 + 2 * 2 + 8

\* Field widths in serialisation order.
DatagramWidths == <<4, 1, 2, 2, 8>>
AckWidths == <<4, 2, 8>>
ConfigWidths == <<2, 2, 2, 4>>

\* WireParser::read<T> for each width in turn on the remaining bytes:
\* ok = FALSE when a read found fewer than sizeof(T) bytes (it throws),
\* else the values read and the bytes left.
RECURSIVE ReadFields(_, _)
ReadFields(bin, widths) ==
    IF widths = <<>> THEN [ok |-> TRUE, vals |-> <<>>, rest |-> bin]
    ELSE IF Head(widths) > Len(bin) THEN [ok |-> FALSE, vals |-> <<>>, rest |-> bin]
    ELSE LET r == ReadFields(SubSeq(bin, Head(widths) + 1, Len(bin)), Tail(widths))
         IN [r EXCEPT !.vals = <<GetNumber(SubSeq(bin, 1, Head(widths)))>> \o @]

\* Msg::serialize_to_string: the type tag as one byte.
SerializeTag(t) == PutNumber(t, 1)

\* Datagram::serialize_to_string: the five header fields, then the payload.
SerializeDatagram(d) ==
    PutNumber(d.frame_id, 4) \o PutNumber(d.frame_type, 1) \o PutNumber(d.frag_id, 2)
        \o PutNumber(d.frag_cnt, 2) \o PutNumber(d.send_ts, 8) \o d.payload

\* AckMsg::serialize_to_string: the type tag (Msg::serialize_to_string),
\* frame_id, frag_id, send_ts.
SerializeAck(a) ==
    SerializeTag(AckTag) \o PutNumber(a.frame_id, 4) \o PutNumber(a.frag_id, 2)
        \o PutNumber(a.send_ts, 8)

\* ConfigMsg::serialize_to_string
SerializeConfig(c) ==
    SerializeTag(ConfigTag) \o PutNumber(c.width, 2) \o PutNumber(c.height, 2)
        \o PutNumber(c.frame_rate, 2) \o PutNumber(c.target_bitrate, 4)

SerializeMsg(m) ==
    CASE m.kind = "datagram" -> SerializeDatagram(m)
      [] m.kind = "ack"      -> SerializeAck(m)
      [] m.kind = "config"   -> SerializeConfig(m)

\* Outcomes of a parse: the message, "rejected" (false or nullptr), or
\* "thrown" (an out_of_range escaped).
Parsed(m) == [outcome |-> "parsed", msg |-> m]
Rejected == [outcome |-> "rejected", msg |-> NoMsg]
Thrown == [outcome |-> "thrown", msg |-> NoMsg]

\* Datagram::parse_from_string: false below HEADER_SIZE bytes, else the
\* header fields and the rest of the bytes as the payload.
ParseDatagram(bin) ==
    IF Len(bin) < HeaderSize THEN Rejected
    ELSE LET r == ReadFields(bin, DatagramWidths)
         IN IF ~r.ok THEN Thrown
            ELSE Parsed([kind |-> "datagram", frame_id |-> r.vals[1],
                         frame_type |-> r.vals[2], frag_id |-> r.vals[3],
                         frag_cnt |-> r.vals[4], send_ts |-> r.vals[5],
                         payload |-> r.rest])

\* Msg::parse_from_string: nullptr on an empty buffer or an unknown tag;
\* otherwise the fields of the tagged type are read (and may throw).
ParseMsg(bin) ==
    IF Len(bin) < 1 THEN Rejected
    ELSE LET tag == GetNumber(SubSeq(bin, 1, 1))
             body == SubSeq(bin, 2, Len(bin))
             ack == ReadFields(body, AckWidths)
             cfg == ReadFields(body, ConfigWidths)
         IN CASE tag = AckTag /\ ack.ok ->
                   Parsed([kind |-> "ack", frame_id |-> ack.vals[1],
                           frag_id |-> ack.vals[2], send_ts |-> ack.vals[3]])
              [] tag = ConfigTag /\ cfg.ok ->
                   Parsed([kind |-> "config", width |-> cfg.vals[1],
                           height |-> cfg.vals[2], frame_rate |-> cfg.vals[3],
                           target_bitrate |-> cfg.vals[4]])
              [] tag \in {AckTag, ConfigTag} -> Thrown
              [] OTHER -> Rejected

\* How the receiving side parses what arrives: video_receiver parses every
\* datagram as a Datagram, video_sender every message as a Msg.
ParseAtPeer(m, bin) == IF m.kind = "datagram" THEN ParseDatagram(bin) ELSE ParseMsg(bin)

----------------------------------------------------------------------------
Init ==
    /\ msg = NoMsg
    /\ wire = <<>>

\* A peer serialises a message and the socket carries its bytes.
Serialize ==
    \E m \in Messages :
        /\ msg' = m
        /\ wire' = SerializeMsg(m)

\* What arrives is cut short after n bytes.
Truncate ==
    /\ msg # NoMsg
    /\ \E n \in 0..(Len(wire) - 1) : wire' = SubSeq(wire, 1, n)
    /\ UNCHANGED msg

Next == Serialize \/ Truncate

Spec == Init /\ [][Next]_vars

----------------------------------------------------------------------------
TypeOK ==
    /\ msg \in Messages \cup {NoMsg}
    /\ wire \in Seq(0..255)

\* Every message read back from the bytes its serialize_to_string wrote is
\* the message itself: same fields, same order, same byte order on both
\* sides (the receiver's Datagram and AckMsg, the sender's ConfigMsg).
RoundTrip ==
    msg # NoMsg /\ wire = SerializeMsg(msg) => ParseAtPeer(msg, wire) = Parsed(msg)

\* Datagram::parse_from_string never lets an out_of_range escape: a byte
\* string shorter than the 17-byte header is rejected, any other parses.
DatagramParseTotal ==
    msg \in Datagrams =>
        ParseDatagram(wire).outcome = IF Len(wire) < 17 THEN "rejected" ELSE "parsed"

\* Spec section 7: a malformed message is silently dropped at the sender
\* (Msg::parse_from_string yields nothing, the In callback ignores it).
MalformedMsgDropped ==
    msg \in AckMsgs \cup ConfigMsgs => ParseMsg(wire).outcome # "thrown"
=============================================================================
