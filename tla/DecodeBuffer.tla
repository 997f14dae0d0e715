----------------------------- MODULE DecodeBuffer -----------------------------
(***************************************************************************)
(* The size path of one frame through the receiver: the encoder's frame is *)
(* cut into payloads by packetize_encoded_frame (module Packetizer). Each  *)
(* Frame::insert_frag adds a payload's size to frame_size_. Then the       *)
(* worker's Decoder::decode_frame (src/src/app/decoder.cc) copies the      *)
(* payloads, in frag_id order, into the static 1 MB decode_buf before      *)
(* handing buf_ptr - decode_buf.data() bytes to vpx_codec_decode. The      *)
(* worker decodes frame after frame. An exception in decode_frame ends the *)
(* worker thread, and with it the process.                                 *)
(***************************************************************************)
EXTENDS Naturals, Sequences, SequencesExt

CONSTANTS Workloads     \* [mp, size]: a Datagram::max_payload the sender may
                        \* run with and a frame size it may encode under it

VARIABLES max_payload, \* Datagram::max_payload, fixed by set_mtu at start-up
          produced,    \* size of the frame the encoder produced
          frags,       \* payload sizes of the frame's datagrams, frag_id order
          frame_size,  \* the receiver Frame's frame_size_
          buf_ptr,     \* buf_ptr - decode_buf.data() in decode_frame's loop
          next,        \* index in frags of the datagram inserted or copied next
          outcome      \* "idle", "inserting", "copying", "decoded" or "thrown"

vars == <<max_payload, produced, frags, frame_size, buf_ptr, next, outcome>>

P == INSTANCE Packetizer WITH MaxPayloadBound <- 0, MaxFrameSize <- 0,
                              frame_size <- 0, payloads <- <<>>

\* Decoder::decode_frame's MAX_DECODING_BUF
MAX_DECODING_BUF == 1000000

----------------------------------------------------------------------------
(* The code.                                                               *)

\* Mutant: buf_ptr advanced by the slot size rather than the payload's.
AdvanceBySlot(p, n) == p + max_payload

\* buf_ptr += payload.size() after the memcpy
Advance(p, n) == p + n

\* The loop's bound test: buf_ptr + payload.size() >= buf_end throws.
Overflows(p, n) == p + n >= MAX_DECODING_BUF

Init ==
    /\ max_payload \in {w.mp : w \in Workloads}
    /\ produced = 0
    /\ frags = <<>>
    /\ frame_size = 0
    /\ buf_ptr = 0
    /\ next = 1
    /\ outcome = "idle"

\* The encoder produces its next frame and packetize_encoded_frame cuts it
\* into datagrams; the receiver's Frame for it starts empty.
Encode ==
    /\ outcome \in {"idle", "decoded"}
    /\ \E w \in {w \in Workloads : w.mp = max_payload} :
         /\ produced' = w.size
         /\ frags' = P!PayloadSizes(w.size, max_payload)
    /\ frame_size' = 0
    /\ buf_ptr' = 0
    /\ next' = 1
    /\ outcome' = "inserting"
    /\ UNCHANGED max_payload

\* Mutant: frame_size_ grows by every datagram, duplicates included.
AddFragAlways(fs, filled, n) == fs + n

\* Frame::insert_frag: frame_size_ += payload.size() only if the slot does
\* not hold a datagram yet.
AddFrag(fs, filled, n) == IF filled THEN fs ELSE fs + n

\* Frame::insert_frag of datagram i: the next new one, or a copy of one
\* already inserted (a retransmission whose original also arrived). The
\* sum frame_size_ does not depend on the order the fragments arrive in.
insert_frag ==
    /\ outcome = "inserting"
    /\ \E i \in 1..Len(frags) :
         /\ i <= next
         /\ frame_size' = AddFrag(frame_size, i < next, frags[i])
         /\ next' = IF i < next THEN next ELSE next + 1
    /\ UNCHANGED <<max_payload, produced, frags, buf_ptr, outcome>>

\* The frame is complete: consume_next_frame hands it to the worker, which
\* calls decode_frame.
Handoff ==
    /\ outcome = "inserting"
    /\ next > Len(frags)
    /\ next' = 1
    /\ outcome' = "copying"
    /\ UNCHANGED <<max_payload, produced, frags, frame_size, buf_ptr>>

\* One iteration of decode_frame's copy loop.
CopyFrag ==
    /\ outcome = "copying"
    /\ next <= Len(frags)
    /\ IF Overflows(buf_ptr, frags[next])
       THEN outcome' = "thrown" /\ UNCHANGED <<buf_ptr, next>>
       ELSE /\ buf_ptr' = Advance(buf_ptr, frags[next])
            /\ next' = next + 1
            /\ UNCHANGED outcome
    /\ UNCHANGED <<max_payload, produced, frags, frame_size>>

\* After the loop: frame_size = buf_ptr - decode_buf.data() goes to
\* vpx_codec_decode.
Decode ==
    /\ outcome = "copying"
    /\ next > Len(frags)
    /\ outcome' = "decoded"
    /\ UNCHANGED <<max_payload, produced, frags, frame_size, buf_ptr, next>>

Next == Encode \/ insert_frag \/ Handoff \/ CopyFrag \/ Decode

Spec == Init /\ [][Next]_vars

----------------------------------------------------------------------------
\* The codec is handed exactly the encoder's frame: the bytes copied into
\* decode_buf, the receiver's frame_size_ and the encoded frame's size all
\* agree, after packetize's split and the copy loop's pointer arithmetic.
DecodedSizeMatches ==
    outcome = "decoded" => buf_ptr = produced /\ frame_size = produced

\* decode_frame's error says "frame size exceeds max decoding buffer size":
\* a frame that does not exceed MAX_DECODING_BUF bytes is decoded.
FitsDecodes ==
    outcome = "thrown" => produced > MAX_DECODING_BUF
=============================================================================
