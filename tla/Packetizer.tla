----------------------------- MODULE Packetizer -----------------------------
(***************************************************************************)
(* The fragment arithmetic of Encoder::packetize_encoded_frame             *)
(* (src/src/app/encoder.cc): an encoded frame of frame_size bytes is cut   *)
(* into frag_cnt datagram payloads, every one but the last holding         *)
(* Datagram::max_payload bytes and the last holding what remains.          *)
(* Only the sizes matter to the properties, so a payload is its length.    *)
(* video_sender may call Datagram::set_mtu once, while parsing its         *)
(* options; every frame after that is packetized with the same max_payload.*)
(***************************************************************************)
EXTENDS Naturals, Sequences, SequencesExt

CONSTANTS MaxPayloadBound,  \* largest Datagram::max_payload considered
          MaxFrameSize      \* largest encoded frame size considered (bytes)

ASSUME MaxPayloadBound \in Nat \ {0} /\ MaxFrameSize \in Nat \ {0}

VARIABLES max_payload,  \* Datagram::max_payload
          frame_size,   \* size of the frame packetized last (0: none yet)
          payloads      \* payload sizes of its datagrams, in frag_id order

vars == <<max_payload, frame_size, payloads>>

----------------------------------------------------------------------------
(* The code.                                                               *)

\* frag_cnt = narrow_cast<uint16_t>(frame_size / (max_payload + 1) + 1)
FragCnt(size, mp) == size \div (mp + 1) + 1

\* Payload length of fragment i (1-based): max_payload for all but the last,
\* buf_end - buf_ptr for the last.
PayloadSizes(size, mp) ==
    LET n == FragCnt(size, mp)
    IN [i \in 1..n |-> IF i < n THEN mp ELSE size - (n - 1) * mp]

\* max_payload starts at its default (MTU 1500), scaled to MaxPayloadBound.
Init ==
    /\ max_payload = MaxPayloadBound
    /\ frame_size = 0
    /\ payloads = <<>>

\* Datagram::set_mtu(mtu): only MTUs in [512, 1500] are admitted, giving a
\* max_payload between 467 and 1455, scaled to 1..MaxPayloadBound. The
\* option is parsed before the first frame is encoded.
set_mtu ==
    /\ frame_size = 0
    /\ max_payload' \in 1..MaxPayloadBound
    /\ UNCHANGED <<frame_size, payloads>>

\* packetize_encoded_frame for a frame of `size` bytes (assert(frame_size
\* > 0)): the payload sizes of the datagrams appended to send_buf_.
packetize ==
    \E size \in 1..MaxFrameSize :
        /\ frame_size' = size
        /\ payloads' = PayloadSizes(size, max_payload)
        /\ UNCHANGED max_payload

Next == set_mtu \/ packetize

Spec == Init /\ [][Next]_vars

----------------------------------------------------------------------------
(* Reference: the frame cut greedily into max_payload-sized chunks.        *)

RECURSIVE Chunks(_, _)
Chunks(rest, mp) ==
    IF rest <= mp THEN <<rest>> ELSE <<mp>> \o Chunks(rest - mp, mp)

\* Every datagram payload fits in max_payload, so header plus payload stays
\* within the MTU that Datagram::set_mtu was given (spec: payload length <=
\* max_payload). Equivalently, the split is the greedy reference split.
PayloadWithinMax ==
    frame_size > 0 =>
        /\ \A i \in DOMAIN payloads : payloads[i] <= max_payload
        /\ payloads = Chunks(frame_size, max_payload)
=============================================================================
